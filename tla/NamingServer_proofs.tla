------------------------ MODULE NamingServer_proofs ------------------------
(***************************************************************************)
(* Type correctness of the command processor: every handler's locals and   *)
(* every queue keep their types, and the entry a handler goes on to exists. *)
(***************************************************************************)
EXTENDS NamingServer, SequenceTheorems, TLAPS

\* The hosts of a server's replicas are servers of the system.
LEMMA HostsAreServers ==
    \A s \in Servers : Host1(s) \in Servers /\ Host2(s) \in Servers
BY NServersAssumption DEF Servers, Host1, Host2

\* The three servers of a redundancy round are distinct.
LEMMA HostsDistinct ==
    \A s \in Servers : Host1(s) # s /\ Host2(s) # s /\ Host1(s) # Host2(s)
BY NServersAssumption DEF Servers, Host1, Host2

\* A reader is sent to a server of the system.
LEMMA ReadPlaceIsServer ==
    \A s \in Servers, U \in SUBSET Servers : ReadPlace(s, U)[1] \in Servers
BY HostsAreServers DEF ReadPlace

(***************************************************************************)
(* Facts about sequences and client records the type proof rests on.       *)
(***************************************************************************)
LEMMA PostedBound == \A v \in 0 .. SemMax : Posted(v) \in 0 .. SemMax /\ Posted(v) > 0
BY BoundAssumption DEF Posted

LEMMA TailType ==
    ASSUME NEW S, NEW q \in Seq(S), q # <<>>
    PROVE  Tail(q) \in Seq(S) /\ Head(q) \in S
OBVIOUS


\* The initial state.
LEMMA InitType == Init => TypeInv
  <1>. SUFFICES ASSUME Init PROVE TypeInv
    OBVIOUS
  <1>1. 0 \in Servers
    BY NServersAssumption DEF Servers
  <1>2. cl \in [Clients -> ClientState]
    BY <1>1 DEF Init, ClientState, Cmds, Answers
  <1>3. rd \in [Servers -> RedState]
    BY BoundAssumption DEF Init, RedState
  <1>4. TypeOK
    BY <1>2, <1>3, BoundAssumption, UpAssumption DEF Init, TypeOK
  <1>5. QueueInv
    BY DEF Init, QueueInv
  <1>. QED BY <1>4, <1>5 DEF TypeInv

\* A function on 1 .. n whose values are entries is a queue of entries.
LEMMA FunctionIsEntrySeq ==
    ASSUME NEW n \in Nat, NEW q \in [1 .. n -> Entries]
    PROVE  q \in Seq(Entries) /\ (n > 0 => q[1].at \in Up)
  <1>1. q \in Seq(Entries)
    BY SeqDef
  <1>2. n > 0 => q[1] \in Entries
    OBVIOUS
  <1>. QED BY <1>1, <1>2 DEF Entries

\* A semaphore operation keeps the types of the semaphores and their holders.
LEMMA LockType ==
    ASSUME TypeOK, NEW t \in Threads, NEW s \in Servers, P(t, s) \/ V(t, s)
    PROVE  /\ sem' \in [Servers -> 0 .. SemMax]
           /\ holders' \in [Servers -> SUBSET Threads]
  <1>1. sem \in [Servers -> 0 .. SemMax] /\ holders \in [Servers -> SUBSET Threads]
    BY DEF TypeOK
  <1>2. sem' \in [Servers -> 0 .. SemMax]
    <2>1. CASE P(t, s)
      BY <2>1, <1>1, BoundAssumption DEF P
    <2>2. CASE V(t, s)
      BY <2>2, <1>1, PostedBound DEF V
    <2>. QED BY <2>1, <2>2
  <1>3. holders' \in [Servers -> SUBSET Threads]
    BY <1>1 DEF P, V
  <1>. QED BY <1>2, <1>3

LEMMA AskType ==
    ASSUME TypeOK, NEW s \in Servers, NEW m \in Messages, Ask(s, m)
    PROVE  req' \in [Servers -> Seq(Messages)]
  <1>1. req \in [Servers -> Seq(Messages)]
    BY DEF TypeOK
  <1>2. Append(req[s], m) \in Seq(Messages)
    BY <1>1
  <1>. QED BY <1>1, <1>2 DEF Ask

LEMMA TakeType ==
    ASSUME TypeOK, NEW s \in Servers, rep[s] # <<>>, Take(s)
    PROVE  rep' \in [Servers -> Seq(Messages)]
  <1>1. rep \in [Servers -> Seq(Messages)]
    BY DEF TypeOK
  <1>2. Tail(rep[s]) \in Seq(Messages)
    BY <1>1, TailType
  <1>. QED BY <1>1, <1>2 DEF Take

\* A thread that moves on with locals of the right type.
LEMMA StepType ==
    ASSUME TypeOK, NEW c \in Clients, NEW r \in ClientState, Step(c, r)
    PROVE  cl' \in [Clients -> ClientState]
BY DEF TypeOK, Step

LEMMA BeginType ==
    ASSUME TypeOK, NEW c \in Clients, NEW cmd \in Cmds, NEW s \in Servers,
           NEW todo \in Seq(Entries), Begin(c, cmd, s, todo)
    PROVE  cl' \in [Clients -> ClientState]
  <1>1. cl[c] \in ClientState
    BY DEF TypeOK
  <1>2. [cl[c] EXCEPT !.pc = "lock", !.cmd = cmd, !.srv = s, !.todo = todo] \in ClientState
    BY <1>1 DEF ClientState
  <1>. QED BY <1>2, StepType DEF Begin

\* Each handler step leaves its thread's locals well typed.
LEMMA ReceiveLocals ==
    ASSUME TypeOK, NEW c \in Clients, NEW o \in Ops, Receive(c, o)
    PROVE  cl' \in [Clients -> ClientState]
  <1> DEFINE r == [cl[c] EXCEPT !.pc = "try", !.op = o, !.cmd = "none",
                                !.todo = <<>>, !.quit = FALSE, !.answer = "none"]
  <1>1. cl[c] \in ClientState
    BY DEF TypeOK
  <1>2. <<>> \in Seq(Entries)
    OBVIOUS
  <1>3. r \in ClientState
    BY <1>1, <1>2 DEF ClientState, Cmds, Answers
  <1>4. Step(c, r)
    BY DEF Receive
  <1>. HIDE DEF r
  <1>. QED BY <1>3, <1>4, StepType

\* Steps that only move the program counter and small flags.
LEMMA PlainLocals ==
    ASSUME TypeOK, NEW c \in Clients,
           \/ TryRed(c) \/ Lock(c) \/ Stop(c) \/ Unlock(c)
           \/ Extra(c) \/ LateAck(c) \/ Finish(c)
    PROVE  cl' \in [Clients -> ClientState]
  <1>1. cl[c] \in ClientState
    BY DEF TypeOK
  <1>2. CASE TryRed(c)
    <2>1. [cl[c] EXCEPT !.pc = "lookup"] \in ClientState
      BY <1>1 DEF ClientState, Answers
    <2>. QED BY <1>2, <2>1, StepType DEF TryRed
  <1>3. CASE Lock(c)
    <2>1. [cl[c] EXCEPT !.pc = IF cl[c].cmd = "access" THEN "tell" ELSE "send"] \in ClientState
      BY <1>1 DEF ClientState
    <2>2. Step(c, [cl[c] EXCEPT !.pc = IF cl[c].cmd = "access" THEN "tell" ELSE "send"])
      BY <1>3, Zenon DEF Lock
    <2>. QED BY <2>1, <2>2, StepType
  <1>4. CASE Stop(c)
    <2>1. [cl[c] EXCEPT !.pc = "unlock"] \in ClientState
      BY <1>1 DEF ClientState, Answers
    <2>. QED BY <1>4, <2>1, StepType DEF Stop
  <1>5. CASE Unlock(c)
    <2>1. [cl[c] EXCEPT !.pc = IF cl[c].extra > 0 THEN "extra" ELSE "after"] \in ClientState
      BY <1>1 DEF ClientState, Answers
    <2>. QED BY <1>5, <2>1, StepType DEF Unlock
  <1>6. CASE Extra(c)
    <2>1. \A x \in 0 .. 1 : [cl[c] EXCEPT !.pc = "after", !.extra = x] \in ClientState
      BY <1>1 DEF ClientState
    <2>. QED BY <1>6, <2>1, StepType DEF Extra
  <1>7. CASE LateAck(c)
    <2>1. [cl[c] EXCEPT !.pc = "finish", !.answer = "YES"] \in ClientState
      BY <1>1 DEF ClientState, Answers
    <2>. QED BY <1>7, <2>1, StepType DEF LateAck
  <1>8. CASE Finish(c)
    <2>1. [cl[c] EXCEPT !.pc = "idle"] \in ClientState
      BY <1>1 DEF ClientState, Answers
    <2>. QED BY <1>8, <2>1, StepType DEF Finish
  <1>. QED BY <1>2, <1>3, <1>4, <1>5, <1>6, <1>7, <1>8

LEMMA TellLocals ==
    ASSUME TypeOK, NEW c \in Clients, Tell(c)
    PROVE  cl' \in [Clients -> ClientState]
  <1>1. cl[c] \in ClientState
    BY DEF TypeOK
  <1>2. /\ [cl[c] EXCEPT !.pc = "stop", !.answer = "IP"] \in ClientState
        /\ [cl[c] EXCEPT !.pc = "finish"] \in ClientState
    BY <1>1 DEF ClientState, Answers
  <1>. QED BY <1>2, StepType DEF Tell

LEMMA SendLocals ==
    ASSUME TypeOK, NEW c \in Clients, Send(c) \/ SendFails(c)
    PROVE  cl' \in [Clients -> ClientState]
  <1>1. cl[c] \in ClientState
    BY DEF TypeOK
  <1>2. \A pc \in {"unlock", "recv"}, q \in BOOLEAN :
           /\ [cl[c] EXCEPT !.pc = pc] \in ClientState
           /\ [cl[c] EXCEPT !.pc = pc, !.quit = q] \in ClientState
    BY <1>1 DEF ClientState
  <1>3. CASE Send(c)
    <2>1. PICK pc \in {"unlock", "recv"} : Step(c, [cl[c] EXCEPT !.pc = pc])
      BY <1>3, Zenon DEF Send
    <2>. QED BY <2>1, <1>2, StepType
  <1>4. CASE SendFails(c)
    <2>1. PICK pc \in {"unlock", "recv"}, q \in BOOLEAN :
             Step(c, [cl[c] EXCEPT !.pc = pc, !.quit = q])
      BY <1>4 DEF SendFails
    <2>. QED BY <2>1, <1>2, StepType
  <1>. QED BY <1>3, <1>4

LEMMA RecvLocals ==
    ASSUME TypeOK, NEW c \in Clients, Recv(c)
    PROVE  cl' \in [Clients -> ClientState]
  <1>1. cl[c] \in ClientState
    BY DEF TypeOK
  <1>2. \A pc \in {"unlock", "finish"}, a \in Answers, q \in BOOLEAN :
           /\ [cl[c] EXCEPT !.pc = pc, !.answer = a, !.quit = q] \in ClientState
           /\ [cl[c] EXCEPT !.pc = pc, !.answer = a] \in ClientState
           /\ [cl[c] EXCEPT !.pc = pc, !.quit = q] \in ClientState
    <2>. TAKE pc \in {"unlock", "finish"}, a \in Answers, q \in BOOLEAN
    <2>1. [cl[c] EXCEPT !.pc = pc, !.answer = a, !.quit = q] \in ClientState
      BY <1>1 DEF ClientState
    <2>2. [cl[c] EXCEPT !.pc = pc, !.answer = a] \in ClientState
      BY <1>1 DEF ClientState
    <2>3. [cl[c] EXCEPT !.pc = pc, !.quit = q] \in ClientState
      BY <1>1 DEF ClientState
    <2>. QED BY <2>1, <2>2, <2>3
  <1>3. cl[c].answer \in Answers /\ "YES" \in Answers /\ "NO" \in Answers
    BY <1>1 DEF ClientState, Answers
  <1>4. CASE CreateRefused(c)
    BY <1>2, <1>3, <1>4, StepType DEF CreateRefused
  <1>5. CASE CreateAccepted(c)
    BY <1>2, <1>3, <1>5, StepType DEF CreateAccepted
  <1>6. CASE Step(c, [cl[c] EXCEPT !.pc = "unlock",
                          !.answer = IF cl[c].op = "deletefile" THEN "YES" ELSE @])
    BY <1>2, <1>3, <1>6, StepType
  <1>. QED BY <1>4, <1>5, <1>6 DEF Recv

LEMMA RecvClosedLocals ==
    ASSUME TypeOK, NEW c \in Clients, RecvClosed(c)
    PROVE  cl' \in [Clients -> ClientState]
  <1>1. cl[c] \in ClientState
    BY DEF TypeOK
  <1>2. \A q \in BOOLEAN, x \in 0 .. 1, a \in Answers :
           [cl[c] EXCEPT !.pc = "unlock", !.quit = q, !.extra = x, !.answer = a] \in ClientState
    BY <1>1 DEF ClientState
  <1>3. cl[c].answer \in Answers /\ "YES" \in Answers
    BY <1>1 DEF ClientState, Answers
  <1>4. PICK r \in {0, -1} :
           Step(c, [cl[c] EXCEPT
             !.pc = "unlock",
             !.quit = (cl[c].cmd = "create" /\ r = -1),
             !.extra = IF cl[c].cmd = "create" /\ r = 0 THEN 1 ELSE 0,
             !.answer = IF cl[c].op = "deletefile" /\ r = 0 THEN "YES" ELSE @])
    BY Zenon DEF RecvClosed
  <1> DEFINE q == (cl[c].cmd = "create" /\ r = -1)
             x == IF cl[c].cmd = "create" /\ r = 0 THEN 1 ELSE 0
             a == IF cl[c].op = "deletefile" /\ r = 0 THEN "YES" ELSE cl[c].answer
  <1>5. q \in BOOLEAN /\ x \in 0 .. 1 /\ a \in Answers
    BY <1>3
  <1>6. Step(c, [cl[c] EXCEPT !.pc = "unlock", !.quit = q, !.extra = x, !.answer = a])
    BY <1>4
  <1>. HIDE DEF q, x, a
  <1>. QED BY <1>2, <1>5, <1>6, StepType

LEMMA LookupLocals ==
    ASSUME TypeOK, NEW c \in Clients, Lookup(c)
    PROVE  cl' \in [Clients -> ClientState]
  <1>1. cl[c] \in ClientState
    BY DEF TypeOK
  <1>2. /\ \A a \in Answers : [cl[c] EXCEPT !.pc = "finish", !.answer = a] \in ClientState
        /\ [cl[c] EXCEPT !.pc = "finish"] \in ClientState
    BY <1>1 DEF ClientState
  <1>3. Up \subseteq Servers /\ <<>> \in Seq(Entries)
        /\ {"create", "delete", "access", "copyread"} \subseteq Cmds
    BY UpAssumption DEF Cmds
  <1>4. CASE AnswerAtOnce(c)
    <2>1. AtOnce(cl[c].op) \in Answers
      BY DEF AtOnce, Answers
    <2>. QED BY <1>2, <1>4, <2>1, StepType DEF AnswerAtOnce
  <1>5. CASE CreateLookup(c)
    BY <1>2, <1>3, <1>5, BeginType, StepType DEF CreateLookup
  <1>6. CASE DeleteLookup(c)
    <2>1. PICK q \in Routes : Begin(c, "delete", q[1].at, q)
      BY <1>6 DEF DeleteLookup
    <2>2. PICK n \in 1 .. MaxEntries : q \in [1 .. n -> [at : Up, full : {TRUE}]]
      BY DEF Routes
    <2>3. q \in [1 .. n -> Entries] /\ n \in Nat /\ n > 0
      <3>1. [at : Up, full : {TRUE}] \subseteq Entries
        BY DEF Entries
      <3>2. q \in [1 .. n -> Entries]
        BY <2>2, <3>1, Zenon
      <3>. QED BY <3>2, BoundAssumption
    <2>4. q \in Seq(Entries) /\ q[1].at \in Servers
      BY <1>3, <2>3, FunctionIsEntrySeq
    <2>. QED BY <1>3, <2>1, <2>4, BeginType
  <1>7. CASE AccessLookup(c)
    <2>1. PICK s \in Up : \/ Begin(c, "access", ReadPlace(s, {x \in Servers : available[x]})[1], <<>>)
                         \/ Begin(c, "access", s, <<>>)
      BY <1>7 DEF AccessLookup
    <2>2. ReadPlace(s, {x \in Servers : available[x]})[1] \in Servers
      BY <1>3, ReadPlaceIsServer
    <2>. QED BY <1>3, <2>1, <2>2, BeginType
  <1>8. CASE CopyFileLookup(c)
    <2>1. PICK s \in Up, d \in Up :
             Begin(c, "copyread", s, <<[at |-> s, full |-> TRUE], [at |-> d, full |-> TRUE]>>)
      BY <1>8 DEF CopyFileLookup
    <2>2. <<[at |-> s, full |-> TRUE], [at |-> d, full |-> TRUE]>> \in Seq(Entries)
      BY DEF Entries
    <2>. QED BY <1>3, <2>1, <2>2, BeginType
  <1>9. CASE CopyDirLookup(c)
    <2>0. PICK n \in 0 .. MaxEntries : \E q \in [1 .. n -> Entries] :
             IF n = 0 THEN Step(c, [cl[c] EXCEPT !.pc = "finish", !.answer = "YES"])
             ELSE Begin(c, "copyread", q[1].at, q)
      BY <1>9 DEF CopyDirLookup
    <2>1. PICK q \in [1 .. n -> Entries] :
             IF n = 0 THEN Step(c, [cl[c] EXCEPT !.pc = "finish", !.answer = "YES"])
             ELSE Begin(c, "copyread", q[1].at, q)
      BY <2>0
    <2>2. CASE n = 0
      BY <1>2, <2>1, <2>2, StepType DEF Answers
    <2>3. CASE n # 0
      <3>1. q \in Seq(Entries) /\ q[1].at \in Servers
        BY <1>3, <2>3, BoundAssumption, FunctionIsEntrySeq
      <3>. QED BY <1>3, <2>1, <2>3, <3>1, BeginType
    <2>. QED BY <2>2, <2>3
  <1>. QED BY <1>4, <1>5, <1>6, <1>7, <1>8, <1>9 DEF Lookup

\* The step after an exchange: the queue invariant says the entry it goes on to
\* is there.
LEMMA AfterLocals ==
    ASSUME TypeInv, NEW c \in Clients, After(c)
    PROVE  cl' \in [Clients -> ClientState]
  <1>1. TypeOK /\ cl[c] \in ClientState
    BY DEF TypeInv, TypeOK
  <1>2. /\ \A a \in Answers : [cl[c] EXCEPT !.pc = "finish", !.answer = a] \in ClientState
        /\ [cl[c] EXCEPT !.pc = "finish"] \in ClientState
        /\ [cl[c] EXCEPT !.pc = "late"] \in ClientState
        /\ \A x \in 0 .. 1, cmd \in Cmds :
             [cl[c] EXCEPT !.pc = "extra", !.extra = x, !.cmd = cmd] \in ClientState
    BY <1>1 DEF ClientState
  <1>3. /\ "YES" \in Answers
        /\ {"create", "delete", "copyread", "copywrite"} \subseteq Cmds
        /\ cl[c].todo \in Seq(Entries) /\ cl[c].srv \in Servers
    BY <1>1 DEF Cmds, Answers, ClientState
  <1>4. Len(cl[c].todo) > 1 => /\ Tail(cl[c].todo) \in Seq(Entries)
                               /\ cl[c].todo[2].at \in Servers
    <2>1. Len(cl[c].todo) > 1 => cl[c].todo[2] \in Entries
      BY <1>3, ElementOfSeq
    <2>. QED BY <1>3, <2>1, UpAssumption DEF Entries
  <1>5. \A cmd \in Cmds : NextEntry(c, cmd) => cl' \in [Clients -> ClientState]
    BY <1>1, <1>2, <1>3, <1>4, BeginType, StepType DEF NextEntry
  <1>6. CASE Return(c)
    BY <1>1, <1>2, <1>6, StepType DEF Return
  <1>7. CASE DeleteDirNext(c)
    BY <1>3, <1>5, <1>7 DEF DeleteDirNext
  <1>8. CASE CopyFileNext(c)
    <2>1. CASE Step(c, [cl[c] EXCEPT !.pc = "late"])
      BY <1>1, <1>2, <2>1, StepType
    <2>2. CASE cl[c].op = "copyfile" /\ cl[c].cmd = "copyread"
               /\ Begin(c, "copywrite", cl[c].todo[2].at, Tail(cl[c].todo))
      <3>1. Len(cl[c].todo) = 2
        BY <2>2 DEF TypeInv, QueueInv
      <3>2. Tail(cl[c].todo) \in Seq(Entries) /\ cl[c].todo[2].at \in Servers
        BY <1>4, <3>1
      <3>. QED BY <1>1, <1>3, <2>2, <3>2, BeginType
    <2>. QED BY <1>8, <2>1, <2>2 DEF CopyFileNext
  <1>9. CASE CopyDirNext(c)
    <2>1. ASSUME NEW s \in Servers, Begin(c, "create", s, cl[c].todo)
          PROVE  cl' \in [Clients -> ClientState]
      BY <1>1, <1>3, <2>1, BeginType
    <2>2. CASE NextEntry(c, "copyread")
      BY <1>3, <1>5, <2>2
    <2>3. CASE Begin(c, "copywrite", cl[c].srv, cl[c].todo)
      BY <1>1, <1>3, <2>3, BeginType
    <2>4. CASE Step(c, [cl[c] EXCEPT !.pc = "extra", !.extra = 1, !.cmd = "copywrite"])
      <3>1. [cl[c] EXCEPT !.pc = "extra", !.extra = 1, !.cmd = "copywrite"] \in ClientState
        <4>1. 1 \in 0 .. 1 /\ "copywrite" \in Cmds
          BY <1>3
        <4>. QED BY <1>2, <4>1, Zenon
      <3>. QED BY <1>1, <2>4, <3>1, StepType
    <2>. QED BY <1>9, <2>1, <2>2, <2>3, <2>4 DEF CopyDirNext
  <1>. QED BY <1>6, <1>7, <1>8, <1>9 DEF After

\* All a client thread does, its locals and the shared state.
LEMMA ClientType ==
    ASSUME TypeInv, NEW c \in Clients, Handle(c) \/ \E o \in Ops : Receive(c, o)
    PROVE  TypeOK'
  <1>1. TypeOK /\ cl[c] \in ClientState /\ cl[c].srv \in Servers /\ c \in Threads
    BY DEF TypeInv, TypeOK, ClientState, Threads
  <1>2. cl' \in [Clients -> ClientState]
    BY <1>1, ReceiveLocals, PlainLocals, TellLocals, SendLocals, RecvLocals,
       RecvClosedLocals, LookupLocals, AfterLocals DEF Handle
  <1>3. ASSUME NEW o \in Ops, Receive(c, o) PROVE TypeOK'
    BY <1>1, <1>2, <1>3 DEF TypeOK, Receive, locks
  <1>4. CASE TryRed(c)
    BY <1>1, <1>2, <1>4, BoundAssumption DEF TypeOK, TryRed, locks, network
  <1>5. CASE Lookup(c) \/ Tell(c) \/ Stop(c) \/ SendFails(c) \/ RecvClosed(c) \/ After(c)
    BY <1>1, <1>2, <1>5
       DEF TypeOK, Lookup, Tell, Stop, SendFails, RecvClosed, After, locks, network
  <1>6. CASE Lock(c)
    BY <1>1, <1>2, <1>6, LockType DEF TypeOK, Lock, network
  <1>7. CASE Unlock(c) \/ Extra(c)
    BY <1>1, <1>2, <1>7, LockType DEF TypeOK, Unlock, Extra, network
  <1>8. CASE Send(c)
    <2>1. [by |-> c, kind |-> cl[c].cmd, ticket |-> ""] \in Messages
      BY <1>1 DEF Messages, ClientState
    <2>2. req' \in [Servers -> Seq(Messages)]
      <3>1. Ask(cl[c].srv, [by |-> c, kind |-> cl[c].cmd, ticket |-> ""])
        BY <1>8, Zenon DEF Send
      <3>. QED BY <1>1, <2>1, <3>1, AskType
    <2>. QED BY <1>1, <1>2, <1>8, <2>2 DEF TypeOK, Send, locks
  <1>9. CASE Recv(c) \/ LateAck(c)
    <2>1. rep' \in [Servers -> Seq(Messages)]
      <3>1. CASE rep[cl[c].srv] # <<>> /\ Take(cl[c].srv)
        BY <1>1, <3>1, TakeType
      <3>2. CASE UNCHANGED rep
        BY <1>1, <3>2 DEF TypeOK
      <3>. QED BY <1>9, <3>1, <3>2 DEF Recv, LateAck
    <2>. QED BY <1>1, <1>2, <1>9, <2>1 DEF TypeOK, Recv, LateAck, locks
  <1>10. CASE Finish(c)
    <2>1. red' \in 0 .. SemMax
      BY <1>1, <1>10, PostedBound DEF TypeOK, Finish
    <2>. QED BY <1>1, <1>2, <1>10, <2>1 DEF TypeOK, Finish, locks, network
  <1>. QED BY <1>3, <1>4, <1>5, <1>6, <1>7, <1>8, <1>9, <1>10 DEF Handle

\* The redundancy thread's locals stay well typed.
LEMMA RedLocals ==
    ASSUME TypeOK, NEW s \in Servers, Redundancy(s)
    PROVE  rd' \in [Servers -> RedState]
  <1>1. rd \in [Servers -> RedState] /\ rd[s] \in RedState
    BY DEF TypeOK
  <1>2. ASSUME NEW pc \in {"sleep", "red", "l1", "l2", "l3", "ask", "hear",
                           "u1", "u2", "u3", "u4", "gone"}, RedGo(s, pc)
        PROVE  rd' \in [Servers -> RedState]
    BY <1>1, <1>2 DEF RedGo, RedState
  <1>3. CASE RedTimer(s)
    BY <1>2, <1>3 DEF RedTimer
  <1>4. CASE RedLock(s) \/ RedUnlock(s) \/ RedPost(s) \/ RedAsk(s)
    BY <1>2, <1>4 DEF RedLock, RedUnlock, RedPost, RedAsk
  <1>5. CASE RedLockServers(s)
    <2>1. [rd[s] EXCEPT !.pc = "ask", !.listed = FALSE] \in RedState
      BY <1>1 DEF RedState
    <2>. QED BY <1>1, <1>2, <1>5, <2>1 DEF RedLockServers
  <1>6. CASE RedHear(s)
    <2>1. CASE RedGo(s, "u1")
      BY <1>2, <2>1
    <2>2. CASE \E n \in IF rd[s].listed THEN {rd[s].left} ELSE 0 .. MaxEntries :
                 rd' = [rd EXCEPT ![s] = [pc |-> IF n > 0 THEN "ask" ELSE "u1",
                                          left |-> IF n > 0 THEN n - 1 ELSE 0,
                                          listed |-> TRUE]]
      <3>1. PICK n \in 0 .. MaxEntries :
               rd' = [rd EXCEPT ![s] = [pc |-> IF n > 0 THEN "ask" ELSE "u1",
                                        left |-> IF n > 0 THEN n - 1 ELSE 0,
                                        listed |-> TRUE]]
        BY <1>1, <2>2 DEF RedState
      <3>2. [pc |-> IF n > 0 THEN "ask" ELSE "u1",
             left |-> IF n > 0 THEN n - 1 ELSE 0,
             listed |-> TRUE] \in RedState
        BY BoundAssumption DEF RedState
      <3>. QED BY <1>1, <3>1, <3>2
    <2>. QED BY <1>6, <2>1, <2>2 DEF RedHear
  <1>. QED BY <1>3, <1>4, <1>5, <1>6 DEF Redundancy

\* A storage server, its watcher and its redundancy thread.
LEMMA ServerType ==
    ASSUME TypeOK, NEW s \in Servers,
           Serve(s) \/ Crash(s) \/ Watcher(s) \/ Redundancy(s)
    PROVE  TypeOK'
  <1>1. Red(s) \in Threads /\ Watch(s) \in Threads
        /\ Host1(s) \in Servers /\ Host2(s) \in Servers
    BY HostsAreServers DEF Threads
  <1>2. CASE Serve(s)
    <2>1. Head(req[s]) \in Messages /\ Tail(req[s]) \in Seq(Messages)
      BY <1>2, TailType DEF Serve, TypeOK
    <2>2. PICK t \in {"YES", "NO"} :
             /\ rep' = [rep EXCEPT ![s] = Append(@, [Head(req[s]) EXCEPT !.ticket = t])]
             /\ made' = made \/ made' = [made EXCEPT ![Head(req[s]).by] = TRUE]
      BY <1>2 DEF Serve
    <2>3. [Head(req[s]) EXCEPT !.ticket = t] \in Messages
      BY <2>1 DEF Messages
    <2>4. rep' \in [Servers -> Seq(Messages)]
      <3>1. rep \in [Servers -> Seq(Messages)]
        BY DEF TypeOK
      <3>2. Append(rep[s], [Head(req[s]) EXCEPT !.ticket = t]) \in Seq(Messages)
        BY <2>3, <3>1
      <3>. QED BY <2>2, <3>1, <3>2
    <2>5. made' \in [Clients -> BOOLEAN]
      BY <2>2 DEF TypeOK
    <2>6. req' \in [Servers -> Seq(Messages)]
      BY <1>2, <2>1 DEF TypeOK, Serve
    <2>. QED BY <1>2, <2>4, <2>5, <2>6 DEF TypeOK, Serve, locks
  <1>3. CASE Crash(s)
    BY <1>3 DEF TypeOK, Crash, locks
  <1>4. CASE WatchEof(s)
    BY <1>4 DEF TypeOK, WatchEof, locks, network
  <1>5. CASE WatchLock(s)
    BY <1>1, <1>5, LockType DEF TypeOK, WatchLock, network
  <1>6. CASE WatchMark(s)
    BY <1>6 DEF TypeOK, WatchMark, locks
  <1>7. CASE WatchPost(s)
    BY <1>1, <1>7, LockType DEF TypeOK, WatchPost, network
  <1>8. CASE Redundancy(s)
    <2>1. rd' \in [Servers -> RedState]
      BY <1>8, RedLocals
    <2>2. CASE RedTimer(s)
      <3>1. UNCHANGED <<locks, red, available, network, cl, wpc>>
        BY <2>2 DEF RedTimer
      <3>. QED BY <2>1, <3>1 DEF TypeOK, locks, network
    <2>3. CASE RedLock(s)
      <3>1. red - 1 \in 0 .. SemMax
        BY <2>3, BoundAssumption DEF TypeOK, RedLock
      <3>. QED BY <2>1, <2>3, <3>1 DEF TypeOK, RedLock, locks, network
    <2>4. CASE RedLockServers(s)
      BY <1>1, <2>1, <2>4, LockType DEF TypeOK, RedLockServers, network
    <2>5. CASE RedAsk(s)
      <3>1. [by |-> Red(s), kind |-> "red", ticket |-> ""] \in Messages
        BY <1>1 DEF Messages
      <3>2. req' \in [Servers -> Seq(Messages)]
        <4>1. CASE Ask(s, [by |-> Red(s), kind |-> "red", ticket |-> ""])
          BY <3>1, <4>1, AskType
        <4>2. CASE UNCHANGED req
          BY <4>2 DEF TypeOK
        <4>. QED BY <2>5, <4>1, <4>2 DEF RedAsk
      <3>. QED BY <2>1, <2>5, <3>2 DEF TypeOK, RedAsk, locks
    <2>6. CASE RedHear(s)
      <3>1. rep' \in [Servers -> Seq(Messages)]
        <4>1. CASE rep[s] # <<>> /\ Take(s)
          BY <4>1, TakeType
        <4>. QED BY <2>6, <4>1 DEF RedHear, TypeOK
      <3>. QED BY <2>1, <2>6, <3>1 DEF TypeOK, RedHear, locks
    <2>7. CASE RedUnlock(s)
      BY <1>1, <2>1, <2>7, LockType DEF TypeOK, RedUnlock, network
    <2>8. CASE RedPost(s)
      <3>1. red' \in 0 .. SemMax
        BY <2>8, PostedBound DEF TypeOK, RedPost
      <3>. QED BY <2>1, <2>8, <3>1 DEF TypeOK, RedPost, locks, network
    <2>. QED BY <1>8, <2>2, <2>3, <2>4, <2>5, <2>6, <2>7, <2>8 DEF Redundancy
  <1>. QED BY <1>2, <1>3, <1>4, <1>5, <1>6, <1>7, <1>8 DEF Watcher

\* The entries a step needs are queued by the lookup and consumed in order.
LEMMA QueueStep ==
    ASSUME TypeInv, NEW c \in Clients, Handle(c) \/ \E o \in Ops : Receive(c, o)
    PROVE  QueueInv'
  <1>1. /\ TypeOK /\ cl \in [Clients -> ClientState] /\ cl[c] \in ClientState
        /\ cl[c].todo \in Seq(Entries)
    BY DEF TypeInv, TypeOK, ClientState
  <1> DEFINE Queued(r) == /\ r.op = "copyfile" /\ r.cmd = "copyread" => Len(r.todo) = 2
                          /\ r.op = "copydir" /\ r.cmd # "none" => r.todo # <<>>
  <1>2. \A d \in Clients : Queued(cl[d])
    BY DEF TypeInv, QueueInv
  <1>3. ASSUME NEW r, Step(c, r), Queued(r) PROVE QueueInv'
    <2>1. cl' = [cl EXCEPT ![c] = r]
      BY <1>3 DEF Step
    <2>2. \A d \in Clients : Queued(cl'[d])
      BY <1>1, <1>2, <1>3, <2>1
    <2>. QED BY <2>2 DEF QueueInv
  <1>4. ASSUME NEW r, Step(c, r),
               r.op = cl[c].op, r.cmd = cl[c].cmd, r.todo = cl[c].todo
        PROVE  QueueInv'
    <2>1. Queued(r)
      BY <1>2, <1>4
    <2>. QED BY <1>3, <1>4, <2>1
  <1>5. ASSUME NEW cmd, NEW s, NEW todo, Begin(c, cmd, s, todo),
               cl[c].op = "copyfile" /\ cmd = "copyread" => Len(todo) = 2,
               cl[c].op = "copydir" => todo # <<>>
        PROVE  QueueInv'
    <2> DEFINE r == [cl[c] EXCEPT !.pc = "lock", !.cmd = cmd, !.srv = s, !.todo = todo]
    <2>1. Queued(r)
      BY <1>1, <1>5 DEF ClientState
    <2>2. Step(c, r)
      BY <1>5 DEF Begin
    <2>. HIDE DEF r
    <2>. QED BY <1>3, <2>1, <2>2
  <1>6. ASSUME NEW o \in Ops, Receive(c, o) PROVE QueueInv'
    <2> DEFINE r == [cl[c] EXCEPT !.pc = "try", !.op = o, !.cmd = "none",
                                  !.todo = <<>>, !.quit = FALSE, !.answer = "none"]
    <2>1. Queued(r)
      BY <1>1 DEF ClientState
    <2>2. Step(c, r)
      BY <1>6 DEF Receive
    <2>. HIDE DEF r
    <2>. QED BY <1>3, <2>1, <2>2
  <1>7. \A pc, a, q, x :
           /\ QueueInv' \/ ~Step(c, [cl[c] EXCEPT !.pc = pc])
           /\ QueueInv' \/ ~Step(c, [cl[c] EXCEPT !.pc = pc, !.answer = a])
           /\ QueueInv' \/ ~Step(c, [cl[c] EXCEPT !.pc = pc, !.quit = q])
           /\ QueueInv' \/ ~Step(c, [cl[c] EXCEPT !.pc = pc, !.extra = x])
           /\ QueueInv' \/ ~Step(c, [cl[c] EXCEPT !.pc = pc, !.answer = a, !.quit = q])
           /\ QueueInv' \/ ~Step(c, [cl[c] EXCEPT !.pc = pc, !.quit = q, !.extra = x, !.answer = a])
    <2>. TAKE pc, a, q, x
    <2>1. QueueInv' \/ ~Step(c, [cl[c] EXCEPT !.pc = pc])
      BY <1>1, <1>4 DEF ClientState
    <2>2. QueueInv' \/ ~Step(c, [cl[c] EXCEPT !.pc = pc, !.answer = a])
      BY <1>1, <1>4 DEF ClientState
    <2>3. QueueInv' \/ ~Step(c, [cl[c] EXCEPT !.pc = pc, !.quit = q])
      BY <1>1, <1>4 DEF ClientState
    <2>4. QueueInv' \/ ~Step(c, [cl[c] EXCEPT !.pc = pc, !.extra = x])
      BY <1>1, <1>4 DEF ClientState
    <2>5. QueueInv' \/ ~Step(c, [cl[c] EXCEPT !.pc = pc, !.answer = a, !.quit = q])
      BY <1>1, <1>4 DEF ClientState
    <2>6. QueueInv' \/ ~Step(c, [cl[c] EXCEPT !.pc = pc, !.quit = q, !.extra = x, !.answer = a])
      BY <1>1, <1>4 DEF ClientState
    <2>. QED BY <2>1, <2>2, <2>3, <2>4, <2>5, <2>6
  <1>8. CASE TryRed(c) \/ Lock(c) \/ Tell(c) \/ Stop(c) \/ Send(c) \/ SendFails(c)
    BY <1>7, <1>8 DEF TryRed, Lock, Tell, Stop, Send, SendFails
  <1>9. CASE Recv(c)
    BY <1>7, <1>9 DEF Recv, CreateAccepted, CreateRefused
  <1>10. CASE RecvClosed(c) \/ Unlock(c) \/ Extra(c) \/ LateAck(c) \/ Finish(c)
    <2>1. CASE RecvClosed(c)
      <3>1. PICK q, x, a :
               Step(c, [cl[c] EXCEPT !.pc = "unlock", !.quit = q, !.extra = x, !.answer = a])
        BY <2>1, Zenon DEF RecvClosed
      <3>. QED BY <1>7, <3>1
    <2>2. CASE Unlock(c) \/ Extra(c)
      BY <1>7, <2>2, Zenon DEF Unlock, Extra
    <2>3. CASE LateAck(c) \/ Finish(c)
      BY <1>7, <2>3, Zenon DEF LateAck, Finish
    <2>. QED BY <1>10, <2>1, <2>2, <2>3
  <1>11. CASE Lookup(c)
    <2>1. CASE AnswerAtOnce(c)
      BY <1>7, <2>1 DEF AnswerAtOnce
    <2>2. CASE CreateLookup(c)
      BY <1>5, <1>7, <2>2 DEF CreateLookup
    <2>3. CASE DeleteLookup(c)
      BY <1>5, <2>3 DEF DeleteLookup
    <2>4. CASE AccessLookup(c)
      BY <1>5, <2>4 DEF AccessLookup
    <2>5. CASE CopyFileLookup(c)
      <3>1. PICK s \in Up, d \in Up :
               Begin(c, "copyread", s, <<[at |-> s, full |-> TRUE], [at |-> d, full |-> TRUE]>>)
        BY <2>5 DEF CopyFileLookup
      <3>2. cl[c].op = "copyfile"
        BY <2>5 DEF CopyFileLookup
      <3>. QED BY <1>5, <3>1, <3>2
    <2>6. CASE CopyDirLookup(c)
      <3>1. PICK n \in 0 .. MaxEntries : \E q \in [1 .. n -> Entries] :
               IF n = 0 THEN Step(c, [cl[c] EXCEPT !.pc = "finish", !.answer = "YES"])
               ELSE Begin(c, "copyread", q[1].at, q)
        BY <2>6 DEF CopyDirLookup
      <3>2. PICK q \in [1 .. n -> Entries] :
               IF n = 0 THEN Step(c, [cl[c] EXCEPT !.pc = "finish", !.answer = "YES"])
               ELSE Begin(c, "copyread", q[1].at, q)
        BY <3>1
      <3>3. n # 0 => q # <<>>
        OBVIOUS
      <3>4. cl[c].op = "copydir"
        BY <2>6 DEF CopyDirLookup
      <3>. QED BY <1>5, <1>7, <3>2, <3>3, <3>4
    <2>. QED BY <1>11, <2>1, <2>2, <2>3, <2>4, <2>5, <2>6 DEF Lookup
  <1>12. CASE After(c)
    <2>1. CASE Return(c)
      BY <1>7, <2>1 DEF Return
    <2>2. ASSUME NEW cmd, NextEntry(c, cmd), cl[c].op # "copyfile"
          PROVE  QueueInv'
      <3>1. Len(cl[c].todo) > 1 => Tail(cl[c].todo) # <<>>
        BY <1>1
      <3>. QED BY <1>5, <1>7, <2>2, <3>1 DEF NextEntry
    <2>3. CASE DeleteDirNext(c)
      BY <2>2, <2>3 DEF DeleteDirNext
    <2>4. CASE CopyFileNext(c)
      BY <1>5, <1>7, <2>4 DEF CopyFileNext
    <2>5. CASE CopyDirNext(c)
      <3>1. cl[c].op = "copydir"
        BY <2>5 DEF CopyDirNext
      <3>2. cl[c].cmd # "none" => cl[c].todo # <<>>
        BY <1>2, <3>1
      <3>3. CASE NextEntry(c, "copyread")
        BY <2>2, <3>1, <3>3
      <3>4. ASSUME NEW cmd, NEW s, Begin(c, cmd, s, cl[c].todo), cl[c].cmd # "none"
            PROVE  QueueInv'
        BY <1>5, <3>1, <3>2, <3>4
      <3>5. CASE /\ cl[c].cmd = "create"
                 /\ Step(c, [cl[c] EXCEPT !.pc = "extra", !.extra = 1, !.cmd = "copywrite"])
        <4> DEFINE r == [cl[c] EXCEPT !.pc = "extra", !.extra = 1, !.cmd = "copywrite"]
        <4>1. Queued(r)
          BY <1>1, <3>1, <3>2, <3>5 DEF ClientState
        <4>2. Step(c, r)
          BY <3>5
        <4>. HIDE DEF r
        <4>. QED BY <1>3, <4>1, <4>2
      <3>. QED BY <2>5, <3>3, <3>4, <3>5 DEF CopyDirNext
    <2>. QED BY <1>12, <2>1, <2>3, <2>4, <2>5 DEF After
  <1>. QED BY <1>6, <1>8, <1>9, <1>10, <1>11, <1>12 DEF Handle

\* Every step keeps the types and the queues.
LEMMA TypeStep == TypeInv /\ [Next]_vars => TypeInv'
  <1>. SUFFICES ASSUME TypeInv, [Next]_vars PROVE TypeInv'
    OBVIOUS
  <1>1. CASE UNCHANGED vars
    BY <1>1 DEF TypeInv, TypeOK, QueueInv, vars
  <1>2. ASSUME NEW c \in Clients, Handle(c) \/ \E o \in Ops : Receive(c, o)
        PROVE  TypeInv'
    BY <1>2, ClientType, QueueStep DEF TypeInv
  <1>3. ASSUME NEW s \in Servers, Serve(s) \/ Crash(s) \/ Watcher(s) \/ Redundancy(s)
        PROVE  TypeInv'
    <2>1. UNCHANGED cl
      BY <1>3 DEF Serve, Crash, Watcher, WatchEof, WatchLock, WatchMark, WatchPost,
                  Redundancy, RedTimer, RedLock, RedLockServers, RedAsk, RedHear,
                  RedUnlock, RedPost
    <2>. QED BY <1>3, <2>1, ServerType DEF TypeInv, QueueInv
  <1>. QED BY <1>1, <1>2, <1>3 DEF Next

\* Every reachable state is well typed, and a handler always finds the entry its
\* next step reads.
THEOREM TypeCorrect == Spec => []TypeOK
  <1>1. TypeInv => TypeOK
    BY DEF TypeInv
  <1>. QED BY <1>1, InitType, TypeStep, PTL DEF Spec
=============================================================================
