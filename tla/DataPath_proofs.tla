---------------------------- MODULE DataPath_proofs ----------------------------
(***************************************************************************)
(* What is read, written and copied, for any number of clients, commands,  *)
(* paths and storage servers, with one client that copies.                 *)
(***************************************************************************)
EXTENDS DataPath, SequenceTheorems, TLAPS

-----------------------------------------------------------------------------
(* The invariant.                                                           *)

Stages == {"idle", "lock", "told", "connected", "stop", "reading", "lock2", "written", "copied"}

Connections == [op : {"read", "write"}, client : Clients, n : Cmds, path : Paths]

States == [pc : Stages, op : {"none", "read", "write", "copyfile"}, n : 0 .. MaxCmds,
           path : Paths \cup {""}, dst : Paths \cup {""}, got : Contents]

Types ==
    /\ file \in [Paths -> Contents] /\ latest \in [Paths -> Contents]
    /\ complete \in [Paths -> SUBSET Contents]
    /\ block \in [Servers -> Clients \cup {Nobody}]
    /\ waiting \in [Servers -> Seq(Connections)]
    /\ runner \in [Servers -> Connections \cup {None}]
    /\ slock \in [Servers -> {Nobody, "C_runner"}]
    /\ cl \in [Clients -> States]
    /\ sent \in [Cmds -> {"nothing", "text", "end"}]
    /\ cmds \in 0 .. MaxCmds

\* Each client is doing a command of its own; what it sends to a storage server
\* is sent once.
CommandInv ==
    /\ \A c \in Clients : Pc(c) # "idle" =>
         cl[c].n \in 1 .. cmds /\ cl[c].path \in Paths /\ cl[c].op # "none"
    /\ \A c \in Clients : Pc(c) \in {"told", "connected", "stop"} => cl[c].op \in {"read", "write"}
    /\ \A c \in Clients : cl[c].op = "write" => cl[c].path \in Writable
    /\ \A c, d \in Clients : Pc(c) # "idle" /\ Pc(d) # "idle" /\ cl[c].n = cl[d].n => c = d
    /\ \A c \in Clients : Pc(c) \in {"lock", "told", "connected"} => sent[cl[c].n] = "nothing"
    /\ \A n \in Cmds : n > cmds => sent[n] = "nothing"

BlockInv ==
    \A c \in Clients : Pc(c) \in {"told", "connected", "stop", "reading"} => block[At(c)] = c

\* The connections C_runner of s has and will have, oldest first.
Places(s) == (IF runner[s] = None THEN {} ELSE {0}) \cup 1 .. Len(waiting[s])
Place(s, i) == IF i = 0 THEN runner[s] ELSE waiting[s][i]

Heard(m) == m.op = "write" /\ sent[m.n] # "nothing"

\* Only the last connection may be of a client that has not sent its text, or
\* waits for one: that client has block_server.
QueueInv ==
    /\ \A s \in Servers : \A i \in Places(s) :
         LET m == Place(s, i) IN
         /\ Home(m.path) = s /\ m.n <= cmds
         /\ m.op = "write" => m.path \in Writable
         /\ ~Heard(m) =>
              /\ Pc(m.client) = "connected" /\ cl[m.client].op = m.op
              /\ cl[m.client].n = m.n /\ cl[m.client].path = m.path
              /\ \A j \in Places(s) : j <= i
    /\ \A c \in Clients : Pc(c) = "connected" =>
         \E i \in Places(At(c)) :
             Place(At(c), i) = [op |-> cl[c].op, client |-> c, n |-> cl[c].n, path |-> cl[c].path]

\* C_runner has truncated p, and has not written to it yet.
Truncated(p) ==
    LET s == Home(p) IN slock[s] = "C_runner" /\ runner[s] # None /\ runner[s].path = p

SlockInv == \A s \in Servers : slock[s] = "C_runner" => runner[s] # None /\ runner[s].op = "write"

\* The writes to p that C_runner has before it.
Writes(p) == {i \in Places(Home(p)) : Heard(Place(Home(p), i)) /\ Place(Home(p), i).path = p}

Outcome(m) == IF sent[m.n] = "text" THEN <<m.n>> ELSE <<>>

\* When C_runner has served everything that is waiting, a path holds what was last
\* sent for it.
LatestInv ==
    \A p \in Paths \ Destinations :
        /\ \A i \in Writes(p) :
             (\A j \in Writes(p) : j <= i) => Outcome(Place(Home(p), i)) = latest[p]
        /\ Writes(p) = {} => file[p] = latest[p] \/ Truncated(p)

WholeInv == \A p \in Paths : file[p] \in complete[p] \/ Truncated(p)

PathInv == Types /\ CommandInv /\ BlockInv /\ QueueInv /\ SlockInv /\ LatestInv /\ WholeInv /\ ReadLatest

\* At most one client copies files.
OneCopier == \A c, d \in Copiers : c = d
Apart == Destinations \cap Writable = {}

Copying(c) == Pc(c) \in {"reading", "lock2", "written", "copied"}

\* The naming server's connection to s is used by client c's copyfile.
Uses(c, s) ==
    \/ Pc(c) = "reading" /\ s = At(c)
    \/ Pc(c) = "written" /\ s = Home(cl[c].dst)

Messages == [op : {"copyfileread"}, path : Paths]
              \cup [op : {"copyfilewrite"}, path : Paths, size : Nat]
              \cup [op : {"text"}, n : Texts]

\* A request to write text to p, and the text.
WriteRequest(q, p, text) ==
    /\ Len(q) = Len(text) + 1
    /\ q[1] = [op |-> "copyfilewrite", path |-> p, size |-> Len(text)]
    /\ \A k \in 1 .. Len(text) : q[k + 1].n = text[k]

CopyInv ==
    /\ req \in [Servers -> Seq(Messages)] /\ rep \in [Servers -> Seq(Contents \cup {Ack})]
    /\ \A c \in Clients : cl[c].op = "copyfile" => c \in Copiers /\ <<cl[c].path, cl[c].dst>> \in Copies
    /\ \A c \in Clients : Copying(c) => cl[c].op = "copyfile"
    /\ \A c \in Clients : Pc(c) = "lock2" => temp = cl[c].got
    /\ (\A c \in Clients : Pc(c) # "lock2") => temp = Absent
    /\ \A s \in Servers : (\A c \in Clients : ~Uses(c, s)) => req[s] = <<>> /\ rep[s] = <<>>
    /\ \A c \in Clients : Pc(c) = "reading" =>
         LET s == At(c) IN
         \/ req[s] = <<[op |-> "copyfileread", path |-> cl[c].path]>> /\ rep[s] = <<>>
         \/ req[s] = <<>> /\ Len(rep[s]) = 1 /\ rep[s][1] \in complete[cl[c].path]
    /\ \A c \in Clients : Pc(c) = "written" =>
         LET s == Home(cl[c].dst) IN
         \/ WriteRequest(req[s], cl[c].dst, cl[c].got) /\ rep[s] = <<>>
         \/ /\ req[s] = <<>> /\ Len(rep[s]) = 1
            /\ Apart => file[cl[c].dst] = cl[c].got
    /\ Apart => CopyExact
    /\ CopyUntorn

\* DataInv is inductive; ReadLatest, CopyExact and CopyUntorn are parts of it.
DataInv == PathInv /\ CopyInv

-----------------------------------------------------------------------------
(* What an update leaves where.                                             *)

LEMMA HomeIn == \A p \in Paths : Home(p) \in Servers
BY DEF Servers

LEMMA IdleIs ==
    /\ Idle \in States /\ Idle.pc = "idle" /\ Idle.op = "none" /\ Idle.path = "" /\ Idle.n = 0
    /\ Idle.got = <<>> /\ <<>> \in Contents
BY DataPathAssumption DEF Idle, States, Stages, Contents

LEMMA ClMoves ==
    ASSUME Types, NEW c \in Clients, NEW r \in States, cl' = [cl EXCEPT ![c] = r]
    PROVE  /\ cl' \in [Clients -> States] /\ cl'[c] = r
           /\ \A d \in Clients : d # c => cl'[d] = cl[d]
BY DEF Types

LEMMA GoMoves ==
    ASSUME Types, NEW c \in Clients, NEW pc \in Stages, Go(c, pc)
    PROVE  /\ cl' \in [Clients -> States]
           /\ cl'[c].pc = pc /\ cl'[c].op = cl[c].op /\ cl'[c].n = cl[c].n
           /\ cl'[c].path = cl[c].path /\ cl'[c].dst = cl[c].dst /\ cl'[c].got = cl[c].got
           /\ \A d \in Clients : d # c => cl'[d] = cl[d]
BY DEF Types, Go, States

LEMMA GotMoves ==
    ASSUME Types, NEW c \in Clients, NEW pc \in Stages, NEW got \in Contents,
           cl' = [cl EXCEPT ![c].pc = pc, ![c].got = got]
    PROVE  /\ cl' \in [Clients -> States]
           /\ cl'[c].pc = pc /\ cl'[c].op = cl[c].op /\ cl'[c].n = cl[c].n
           /\ cl'[c].path = cl[c].path /\ cl'[c].dst = cl[c].dst /\ cl'[c].got = got
           /\ \A d \in Clients : d # c => cl'[d] = cl[d]
  <1>1. PICK r \in States : r = cl[c]
    BY DEF Types
  <1>2. PICK t : t = [r EXCEPT !.pc = pc, !.got = got]
    OBVIOUS
  <1>3. t \in States
    BY <1>2 DEF States
  <1>4. t.pc = pc /\ t.got = got /\ t.op = r.op /\ t.n = r.n /\ t.path = r.path /\ t.dst = r.dst
    BY <1>2 DEF States
  <1>5. cl' = [cl EXCEPT ![c] = t]
    BY <1>1, <1>2 DEF Types
  <1>. QED BY <1>1, <1>3, <1>4, <1>5, ClMoves

LEMMA TakeMoves ==
    ASSUME Types, NEW c \in Clients, NEW s \in Servers, Take(c, s)
    PROVE  /\ block' \in [Servers -> Clients \cup {Nobody}] /\ block[s] = Nobody /\ block'[s] = c
           /\ \A t \in Servers : t # s => block'[t] = block[t]
BY DEF Types, Take

LEMMA PostMoves ==
    ASSUME Types, NEW s \in Servers, Post(s)
    PROVE  /\ block' \in [Servers -> Clients \cup {Nobody}]
           /\ \A t \in Servers : t # s => block'[t] = block[t]
BY DEF Types, Post

-----------------------------------------------------------------------------
(* What a step that changes something else leaves true.                     *)

LEMMA QueueFrame ==
    ASSUME QueueInv, UNCHANGED <<runner, waiting, sent>>, cmds \in Nat, cmds' \in {cmds, cmds + 1},
           \A i \in Cmds : i \in Nat,
           Types, \A d \in Clients : Pc(d) = "connected" \/ Pc(d)' = "connected" => cl'[d] = cl[d]
    PROVE  QueueInv'
  <1>1. ASSUME NEW s \in Servers, NEW i
        PROVE  Places(s)' = Places(s) /\ Place(s, i)' = Place(s, i)
    BY DEF Places, Place
  <1>2. \A s \in Servers : \A i \in Places(s) : Place(s, i) \in Connections
    BY DEF Places, Place, Types
  <1>3. ASSUME NEW s \in Servers, NEW i \in Places(s), NEW m \in Connections, m = Place(s, i)
        PROVE  /\ Home(m.path) = s /\ m.n <= cmds'
               /\ m.op = "write" => m.path \in Writable
               /\ ~Heard(m)' =>
                    /\ Pc(m.client)' = "connected" /\ cl'[m.client].op = m.op
                    /\ cl'[m.client].n = m.n /\ cl'[m.client].path = m.path
                    /\ \A j \in Places(s) : j <= i
    <2>1. /\ Home(m.path) = s /\ m.n <= cmds
          /\ m.op = "write" => m.path \in Writable
          /\ ~Heard(m) =>
               /\ Pc(m.client) = "connected" /\ cl[m.client].op = m.op
               /\ cl[m.client].n = m.n /\ cl[m.client].path = m.path
               /\ \A j \in Places(s) : j <= i
      BY <1>3 DEF QueueInv
    <2>2. m.client \in Clients /\ m.n \in Nat
      BY DEF Connections
    <2>3. Heard(m)' = Heard(m)
      BY DEF Heard
    <2>. QED BY <2>1, <2>2, <2>3 DEF Pc
  <1>4. ASSUME NEW c \in Clients, Pc(c)' = "connected"
        PROVE  \E i \in Places(Home(cl'[c].path)) :
                 Place(Home(cl'[c].path), i)
                   = [op |-> cl'[c].op, client |-> c, n |-> cl'[c].n, path |-> cl'[c].path]
    <2>1. cl'[c] = cl[c] /\ Pc(c) = "connected"
      BY <1>4 DEF Pc
    <2>2. PICK i \in Places(At(c)) :
             Place(At(c), i) = [op |-> cl[c].op, client |-> c, n |-> cl[c].n, path |-> cl[c].path]
      BY <2>1 DEF QueueInv
    <2>. QED BY <2>1, <2>2 DEF At
  <1>5. ASSUME NEW s \in Servers, NEW i, i \in Places(s)', NEW m, m = Place(s, i)'
        PROVE  /\ Home(m.path) = s /\ m.n <= cmds'
               /\ m.op = "write" => m.path \in Writable
               /\ ~Heard(m)' =>
                    /\ Pc(m.client)' = "connected" /\ cl'[m.client].op = m.op
                    /\ cl'[m.client].n = m.n /\ cl'[m.client].path = m.path
                    /\ \A j \in Places(s)' : j <= i
    <2>1. i \in Places(s) /\ m = Place(s, i)
      BY <1>1, <1>5
    <2>2. \A j \in Places(s)' : j \in Places(s)
      BY <1>1
    <2>. QED BY <1>2, <1>3, <2>1, <2>2
  <1>6. ASSUME NEW c \in Clients, Pc(c)' = "connected"
        PROVE  \E i \in Places(At(c))' :
                 Place(At(c), i)' = [op |-> cl'[c].op, client |-> c, n |-> cl'[c].n, path |-> cl'[c].path]
    <2>1. PICK i \in Places(Home(cl'[c].path)) :
             Place(Home(cl'[c].path), i)
               = [op |-> cl'[c].op, client |-> c, n |-> cl'[c].n, path |-> cl'[c].path]
      BY <1>4, <1>6
    <2>2. i \in Places(At(c))' /\ Place(At(c), i)' = Place(Home(cl'[c].path), i)
      BY DEF At, Places, Place
    <2>. QED BY <2>1, <2>2
  <1>. QED BY <1>5, <1>6 DEF QueueInv

LEMMA LatestFrame ==
    ASSUME LatestInv, UNCHANGED <<runner, waiting, sent, latest, slock>>,
           \A p \in Paths \ Destinations : file'[p] = file[p]
    PROVE  LatestInv'
BY DEF LatestInv, Writes, Places, Place, Heard, Outcome, Truncated

LEMMA WholeFrame ==
    ASSUME WholeInv, UNCHANGED <<runner, slock>>,
           \A p \in Paths : /\ file'[p] = file[p] \/ file'[p] \in complete'[p]
                            /\ complete[p] \subseteq complete'[p]
    PROVE  WholeInv'
BY DEF WholeInv, Truncated

\* Not a step of a copy.
LEMMA CopyFrame ==
    ASSUME CopyInv, UNCHANGED <<temp, req, rep>>,
           \A d \in Clients :
             \/ cl'[d] = cl[d]
             \/ /\ ~Copying(d) /\ ~Copying(d)'
                /\ cl'[d].op = "copyfile" => d \in Copiers /\ <<cl'[d].path, cl'[d].dst>> \in Copies,
           \A p \in Paths : /\ file'[p] = file[p] \/ p \in Writable
                            /\ complete[p] \subseteq complete'[p]
    PROVE  CopyInv'
  <1>1. \A d \in Clients : Copying(d) \/ Copying(d)' => cl'[d] = cl[d]
    OBVIOUS
  <1>2. \A d \in Clients : Pc(d)' \in {"reading", "lock2", "written", "copied"} => cl'[d] = cl[d]
    BY <1>1 DEF Copying, Pc
  <1>3. \A d \in Clients : Pc(d) \in {"reading", "lock2", "written", "copied"} => cl'[d] = cl[d]
    BY <1>1 DEF Copying, Pc
  <1>4. \A d \in Clients, s \in Servers : Uses(d, s)' = Uses(d, s)
    BY <1>2, <1>3 DEF Uses, Pc, At
  <1>5. \A d \in Clients : Copying(d) => /\ cl[d].path \in Paths /\ cl[d].dst \in Paths
                                         /\ cl[d].dst \in Destinations
    <2>1. \A d \in Clients : Copying(d) => <<cl[d].path, cl[d].dst>> \in Copies
      BY DEF CopyInv
    <2>2. \A a, b : <<a, b>> \in Copies => a \in Paths /\ b \in Paths /\ b \in Destinations
      BY DataPathAssumption DEF Destinations
    <2>. QED BY <2>1, <2>2
  <1>6. \A d \in Clients : Copying(d) /\ Apart => file'[cl[d].dst] = file[cl[d].dst]
    BY <1>5 DEF Apart
  <1>7. \A d \in Clients : cl'[d].op = "copyfile" => d \in Copiers /\ <<cl'[d].path, cl'[d].dst>> \in Copies
    BY DEF CopyInv
  <1>8. \A d \in Clients : Copying(d)' => cl'[d].op = "copyfile"
    BY <1>1 DEF CopyInv, Copying, Pc
  <1>9. /\ \A d \in Clients : Pc(d)' = "lock2" => temp' = cl'[d].got
        /\ (\A d \in Clients : Pc(d)' # "lock2") => temp' = Absent
    BY <1>2, <1>3 DEF CopyInv, Pc
  <1>10. \A s \in Servers : (\A d \in Clients : ~Uses(d, s)') => req'[s] = <<>> /\ rep'[s] = <<>>
    BY <1>4 DEF CopyInv
  <1>11. ASSUME NEW d \in Clients, Pc(d)' = "reading"
         PROVE  \/ /\ req'[At(d)'] = <<[op |-> "copyfileread", path |-> cl'[d].path]>>
                   /\ rep'[At(d)'] = <<>>
                \/ /\ req'[At(d)'] = <<>> /\ Len(rep'[At(d)']) = 1
                   /\ rep'[At(d)'][1] \in complete'[cl'[d].path]
    <2>1. cl'[d] = cl[d] /\ Pc(d) = "reading" /\ cl[d].path \in Paths
      BY <1>2, <1>5, <1>11 DEF Pc, Copying
    <2>. QED BY <2>1 DEF CopyInv, At
  <1>12. ASSUME NEW d \in Clients, Pc(d)' = "written"
         PROVE  \/ /\ WriteRequest(req'[Home(cl'[d].dst)], cl'[d].dst, cl'[d].got)
                   /\ rep'[Home(cl'[d].dst)] = <<>>
                \/ /\ req'[Home(cl'[d].dst)] = <<>> /\ Len(rep'[Home(cl'[d].dst)]) = 1
                   /\ Apart => file'[cl'[d].dst] = cl'[d].got
    <2>1. cl'[d] = cl[d] /\ Pc(d) = "written" /\ Copying(d)
      BY <1>2, <1>12 DEF Pc, Copying
    <2>. QED BY <2>1, <1>6 DEF CopyInv
  <1>13. (Apart => CopyExact)'
    <2>1. \A d \in Clients : Pc(d)' = "copied" => cl'[d] = cl[d] /\ Pc(d) = "copied" /\ Copying(d)
      BY <1>2 DEF Pc, Copying
    <2>. QED BY <2>1, <1>6 DEF CopyInv, CopyExact, Apart, Pc
  <1>14. CopyUntorn'
    <2>1. \A d \in Clients : Pc(d)' \in {"lock2", "written", "copied"} =>
            cl'[d] = cl[d] /\ Pc(d) \in {"lock2", "written", "copied"} /\ cl[d].path \in Paths
      BY <1>2, <1>5 DEF Pc, Copying
    <2>. QED BY <2>1 DEF CopyInv, CopyUntorn, Pc
  <1>15. req' \in [Servers -> Seq(Messages)] /\ rep' \in [Servers -> Seq(Contents \cup {Ack})]
    BY DEF CopyInv
  <1>. QED BY <1>7, <1>8, <1>9, <1>10, <1>11, <1>12, <1>13, <1>14, <1>15 DEF CopyInv

LEMMA CommandKept ==
    ASSUME CommandInv, NEW c \in Clients, cmds' = cmds, \A d \in Clients : d # c => cl'[d] = cl[d],
           \/ cl'[c].pc = "idle" /\ cl'[c].op = "none"
           \/ /\ Pc(c) # "idle"
              /\ cl'[c].n = cl[c].n /\ cl'[c].op = cl[c].op /\ cl'[c].path = cl[c].path
              /\ Pc(c)' \in {"told", "connected", "stop"} => cl[c].op \in {"read", "write"}
              /\ Pc(c)' \in {"lock", "told", "connected"} => Pc(c) \in {"lock", "told", "connected"},
           \A n \in Cmds :
             \/ sent'[n] = sent[n]
             \/ n = cl[c].n /\ Pc(c) # "idle" /\ Pc(c)' \notin {"lock", "told", "connected"},
           MaxCmds \in Nat, cmds \in 0 .. MaxCmds
    PROVE  CommandInv'
  <1>1. \A d \in Clients : Pc(d)' # "idle" =>
          /\ Pc(d) # "idle" /\ cl'[d].n = cl[d].n /\ cl'[d].path = cl[d].path /\ cl'[d].op = cl[d].op
          /\ cl[d].n \in 1 .. cmds /\ cl[d].n \in Cmds /\ cl[d].path \in Paths
          /\ cl[d].op # "none"
    BY DEF CommandInv, Pc, Cmds
  <1>2. \A d \in Clients : cl'[d].op = "write" => cl'[d].path \in Writable
    BY <1>1 DEF CommandInv, Pc
  <1>3. \A d \in Clients : Pc(d)' \in {"told", "connected", "stop"} => cl'[d].op \in {"read", "write"}
    BY <1>1 DEF CommandInv, Pc
  <1>4. \A d, e \in Clients : Pc(d)' # "idle" /\ Pc(e)' # "idle" /\ cl'[d].n = cl'[e].n => d = e
    BY <1>1 DEF CommandInv
  <1>5. ASSUME NEW d \in Clients, Pc(d)' \in {"lock", "told", "connected"}
        PROVE  sent'[cl'[d].n] = "nothing"
    <2>1. /\ Pc(d)' # "idle" /\ Pc(d) \in {"lock", "told", "connected"} /\ cl'[d].n = cl[d].n
          /\ cl[d].n \in Cmds
      BY <1>1, <1>5 DEF Pc
    <2>2. sent[cl[d].n] = "nothing"
      BY <2>1 DEF CommandInv
    <2>3. CASE d = c
      BY <1>5, <2>1, <2>2, <2>3
    <2>4. CASE d # c
      <3>1. Pc(d) # "idle" /\ (Pc(c) # "idle" => cl[d].n # cl[c].n)
        BY <2>1, <2>4 DEF CommandInv
      <3>. QED BY <2>1, <2>2, <3>1
    <2>. QED BY <2>3, <2>4
  <1>6. \A n \in Cmds : n > cmds' => sent'[n] = "nothing"
    BY DEF CommandInv, Cmds
  <1>. QED BY <1>1, <1>2, <1>3, <1>4, <1>5, <1>6 DEF CommandInv

LEMMA BlockKept ==
    ASSUME Types, CommandInv, BlockInv, NEW c \in Clients, \A d \in Clients : d # c => cl'[d] = cl[d],
           \A s \in Servers : block'[s] = block[s] \/ block[s] \in {c, Nobody},
           Pc(c)' \in {"told", "connected", "stop", "reading"} => block'[At(c)'] = c
    PROVE  BlockInv'
  <1>1. ASSUME NEW d \in Clients, d # c, Pc(d)' \in {"told", "connected", "stop", "reading"}
        PROVE  block'[Home(cl'[d].path)] = d
    <2>1. cl'[d] = cl[d] /\ Pc(d) \in {"told", "connected", "stop", "reading"}
      BY <1>1 DEF Pc
    <2>2. block[At(d)] = d /\ At(d) \in Servers
      BY <2>1, HomeIn DEF BlockInv, CommandInv, At
    <2>. QED BY <1>1, <2>1, <2>2, NobodyIsNoClient DEF At
  <1>. QED BY <1>1 DEF BlockInv, At

LEMMA ReadFrame ==
    ASSUME ReadLatest, latest' = latest,
           \A d \in Clients : cl'[d] = cl[d] \/ Pc(d)' # "stop" \/ cl'[d].op # "read"
    PROVE  ReadLatest'
BY DEF ReadLatest, Pc

-----------------------------------------------------------------------------
(* A command's steps.                                                       *)

LEMMA ToldStep ==
    ASSUME DataInv, NEW c \in Clients, Told(c)
    PROVE  DataInv'
  <1>1. /\ Types /\ CommandInv /\ BlockInv /\ QueueInv /\ SlockInv /\ LatestInv /\ WholeInv
        /\ ReadLatest /\ CopyInv
    BY DEF DataInv, PathInv
  <1>2. Go(c, "told") /\ Pc(c) = "lock" /\ cl[c].op # "copyfile" /\ Take(c, At(c))
        /\ UNCHANGED <<file, temp, req, rep, waiting, slock, runner, sent, cmds, up, latest, complete>>
    BY DEF Told
  <1>3. At(c) \in Servers /\ cl[c].op \in {"read", "write"}
    BY <1>1, <1>2, HomeIn DEF CommandInv, At, Types, States
  <1>4. /\ cl' \in [Clients -> States]
        /\ cl'[c].pc = "told" /\ cl'[c].op = cl[c].op /\ cl'[c].n = cl[c].n
        /\ cl'[c].path = cl[c].path /\ cl'[c].dst = cl[c].dst /\ cl'[c].got = cl[c].got
        /\ \A d \in Clients : d # c => cl'[d] = cl[d]
    BY <1>1, <1>2, GoMoves DEF Stages
  <1>5. /\ block' \in [Servers -> Clients \cup {Nobody}] /\ block[At(c)] = Nobody /\ block'[At(c)] = c
        /\ \A t \in Servers : t # At(c) => block'[t] = block[t]
    BY <1>1, <1>2, <1>3, TakeMoves
  <1>6. Types'
    BY <1>1, <1>2, <1>4, <1>5 DEF Types
  <1>7. CommandInv'
    <2>1. \A n \in Cmds : sent'[n] = sent[n]
      BY <1>2
    <2>2. cmds \in 0 .. MaxCmds /\ MaxCmds \in Nat /\ cmds' = cmds
      BY <1>1, <1>2, DataPathAssumption DEF Types
    <2>. QED BY <1>1, <1>2, <1>3, <1>4, <2>1, <2>2, CommandKept DEF Pc
  <1>8. BlockInv'
    BY <1>1, <1>3, <1>4, <1>5, BlockKept DEF At
  <1>9. QueueInv'
    <2>1. \A d \in Clients : Pc(d) = "connected" \/ Pc(d)' = "connected" => cl'[d] = cl[d]
      BY <1>2, <1>4 DEF Pc
    <2>2. cmds \in Nat
      BY <1>1, DataPathAssumption DEF Types
    <2>. QED BY <1>1, <1>2, <2>1, <2>2, QueueFrame DEF Cmds
  <1>10. LatestInv' /\ WholeInv' /\ SlockInv'
    BY <1>1, <1>2, LatestFrame, WholeFrame DEF SlockInv
  <1>11. ReadLatest'
    BY <1>1, <1>2, <1>4, ReadFrame DEF Pc
  <1>12. CopyInv'
    <2>1. ~Copying(c) /\ ~Copying(c)' /\ cl'[c].op # "copyfile"
      BY <1>2, <1>4 DEF Copying, Pc
    <2>. QED BY <1>1, <1>2, <1>4, <2>1, CopyFrame
  <1>. QED BY <1>6, <1>7, <1>8, <1>9, <1>10, <1>11, <1>12 DEF DataInv, PathInv

\* While a client has block_server, other clients' connections there are heard.
LEMMA HeardAll ==
    ASSUME Types, CommandInv, BlockInv, QueueInv, NEW c \in Clients,
           Pc(c) \in {"told", "stop", "reading"},
           NEW i \in Places(At(c))
    PROVE  Heard(Place(At(c), i))
  <1>1. At(c) \in Servers
    BY HomeIn DEF CommandInv, At
  <1>2. PICK m \in Connections : m = Place(At(c), i)
    BY <1>1 DEF Places, Place, Types
  <1>3. SUFFICES ASSUME ~Heard(m) PROVE FALSE
    BY <1>2
  <1>4. m.client \in Clients /\ Pc(m.client) = "connected" /\ cl[m.client].path = m.path /\ Home(m.path) = At(c)
    BY <1>1, <1>2, <1>3 DEF QueueInv, Connections
  <1>5. block[At(c)] = m.client /\ block[At(c)] = c
    BY <1>4 DEF BlockInv, At
  <1>. QED BY <1>4, <1>5

\* A connection that joins the queue is the last.
LEMMA Joins ==
    ASSUME Types, NEW s \in Servers, NEW r \in Connections, runner' = runner,
           waiting' = [waiting EXCEPT ![s] = Append(@, r)]
    PROVE  /\ waiting' \in [Servers -> Seq(Connections)]
           /\ \E k \in Nat \ {0} :
                /\ Places(s)' = Places(s) \cup {k} /\ Place(s, k)' = r
                /\ \A i \in Places(s) : Place(s, i)' = Place(s, i) /\ i < k /\ i \in Nat
           /\ \A t \in Servers : t # s => waiting'[t] = waiting[t]
  <1>1. /\ waiting[s] \in Seq(Connections) /\ waiting'[s] = Append(waiting[s], r)
        /\ \A t \in Servers : t # s => waiting'[t] = waiting[t]
        /\ waiting' \in [Servers -> Seq(Connections)]
    BY DEF Types
  <1>2. PICK k \in Nat \ {0} : k = Len(waiting[s]) + 1
    BY <1>1
  <1>3. Len(waiting'[s]) = k /\ waiting'[s][k] = r /\ Len(waiting[s]) \in Nat
        /\ \A i \in 1 .. Len(waiting[s]) : waiting'[s][i] = waiting[s][i]
    BY <1>1, <1>2
  <1>4. Places(s)' = Places(s) \cup {k} /\ Place(s, k)' = r
    BY <1>2, <1>3 DEF Places, Place
  <1>5. \A i \in Places(s) : Place(s, i)' = Place(s, i) /\ i < k /\ i \in Nat
    BY <1>2, <1>3 DEF Places, Place
  <1>. QED BY <1>1, <1>4, <1>5

\* A path whose writes are as before.
LEMMA LatestKept ==
    ASSUME LatestInv, NEW p \in Paths \ Destinations, Writes(p)' = Writes(p),
           \A i \in Writes(p) : Outcome(Place(Home(p), i))' = Outcome(Place(Home(p), i)),
           latest'[p] = latest[p], Writes(p) = {} => file'[p] = latest[p] \/ Truncated(p)'
    PROVE  /\ \A i \in Writes(p)' :
                (\A j \in Writes(p)' : j <= i) => Outcome(Place(Home(p), i))' = latest'[p]
           /\ Writes(p)' = {} => file'[p] = latest'[p] \/ Truncated(p)'
BY DEF LatestInv

LEMMA ElsewhereSame ==
    ASSUME NEW t \in Servers, runner'[t] = runner[t], waiting'[t] = waiting[t]
    PROVE  Places(t)' = Places(t) /\ \A i : Place(t, i)' = Place(t, i)
BY DEF Places, Place

LEMMA ConnectStep ==
    ASSUME DataInv, NEW c \in Clients, Connect(c)
    PROVE  DataInv'
  <1>1. /\ Types /\ CommandInv /\ BlockInv /\ QueueInv /\ SlockInv /\ LatestInv /\ WholeInv
        /\ ReadLatest /\ CopyInv
    BY DEF DataInv, PathInv
  <1>2. Go(c, "connected") /\ Pc(c) = "told"
        /\ UNCHANGED <<file, temp, block, req, rep, slock, runner, sent, cmds, up, latest, complete>>
    BY DEF Connect
  <1>3. At(c) \in Servers /\ cl[c].op \in {"read", "write"} /\ cl[c].n \in 1 .. cmds /\ cl[c].n \in Cmds
        /\ cl[c].path \in Paths /\ cmds \in Nat /\ cmds \in 0 .. MaxCmds /\ MaxCmds \in Nat
        /\ (cl[c].op = "write" => cl[c].path \in Writable)
        /\ sent[cl[c].n] = "nothing"
    BY <1>1, <1>2, HomeIn, DataPathAssumption DEF CommandInv, At, Types, Cmds
  <1>4. PICK s \in Servers : s = At(c)
    BY <1>3
  <1>5. PICK r \in Connections :
          r = [op |-> cl[c].op, client |-> c, n |-> cl[c].n, path |-> cl[c].path]
    BY <1>3 DEF Connections
  <1>6. waiting' = [waiting EXCEPT ![s] = Append(@, r)]
    BY <1>4, <1>5 DEF Connect
  <1>7. /\ waiting' \in [Servers -> Seq(Connections)]
        /\ \A t \in Servers : t # s => waiting'[t] = waiting[t]
    BY <1>1, <1>2, <1>6, Joins
  <1>8. PICK k \in Nat \ {0} :
          /\ Places(s)' = Places(s) \cup {k} /\ Place(s, k)' = r
          /\ \A i \in Places(s) : Place(s, i)' = Place(s, i) /\ i < k /\ i \in Nat
    BY <1>1, <1>2, <1>6, Joins
  <1>9. /\ cl' \in [Clients -> States]
        /\ cl'[c].pc = "connected" /\ cl'[c].op = cl[c].op /\ cl'[c].n = cl[c].n
        /\ cl'[c].path = cl[c].path /\ cl'[c].dst = cl[c].dst /\ cl'[c].got = cl[c].got
        /\ \A d \in Clients : d # c => cl'[d] = cl[d]
    BY <1>1, <1>2, GoMoves DEF Stages
  <1>10. Types'
    BY <1>1, <1>2, <1>7, <1>9 DEF Types
  <1>11. CommandInv'
    <2>1. \A n \in Cmds : sent'[n] = sent[n]
      BY <1>2
    <2>. QED BY <1>1, <1>2, <1>3, <1>9, <2>1, CommandKept DEF Pc
  <1>12. BlockInv'
    <2>1. block'[At(c)'] = c
      BY <1>1, <1>2, <1>9 DEF BlockInv, At
    <2>. QED BY <1>1, <1>2, <1>3, <1>9, <2>1, BlockKept
  <1>13. \A t \in Servers : t # s => Places(t)' = Places(t) /\ \A i : Place(t, i)' = Place(t, i)
    BY <1>2, <1>7, ElsewhereSame
  <1>14. \A t \in Servers : \A i \in Places(t) : Place(t, i) \in Connections
    BY <1>1 DEF Places, Place, Types
  <1>15. \A m \in Connections : Heard(m)' = Heard(m) /\ m.client \in Clients
    BY <1>2 DEF Heard, Connections
  <1>16. \A i \in Places(s) : Heard(Place(s, i))
    BY <1>1, <1>2, <1>4, HeardAll
  <1>17. QueueInv'
    <2>1. ASSUME NEW t \in Servers, NEW i, i \in Places(t)', NEW m, m = Place(t, i)'
          PROVE  /\ Home(m.path) = t /\ m.n <= cmds'
                 /\ m.op = "write" => m.path \in Writable
                 /\ ~Heard(m)' =>
                      /\ Pc(m.client)' = "connected" /\ cl'[m.client].op = m.op
                      /\ cl'[m.client].n = m.n /\ cl'[m.client].path = m.path
                      /\ \A j \in Places(t)' : j <= i
      <3>1. CASE t # s
        <4>1. i \in Places(t) /\ m = Place(t, i) /\ m \in Connections /\ Places(t)' = Places(t)
          BY <1>13, <1>14, <2>1, <3>1
        <4>2. ~Heard(m) => m.client # c
          BY <1>1, <1>2, <4>1 DEF QueueInv
        <4>. QED BY <1>1, <1>2, <1>9, <1>15, <4>1, <4>2 DEF QueueInv, Pc
      <3>2. CASE t = s /\ i = k
        <4>1. m = r /\ Home(r.path) = t /\ r.n <= cmds' /\ r.client = c
              /\ (r.op = "write" => r.path \in Writable)
          BY <1>2, <1>3, <1>4, <1>5, <1>8, <2>1, <3>2 DEF At
        <4>2. \A j \in Places(t)' : j <= i
          BY <1>8, <3>2
        <4>. QED BY <1>5, <1>9, <4>1, <4>2 DEF Pc
      <3>3. CASE t = s /\ i # k
        <4>1. i \in Places(t) /\ m = Place(t, i) /\ m \in Connections /\ Heard(m)'
          BY <1>8, <1>14, <1>15, <1>16, <2>1, <3>3
        <4>. QED BY <1>1, <1>2, <4>1 DEF QueueInv
      <3>. QED BY <3>1, <3>2, <3>3
    <2>2. ASSUME NEW d \in Clients, Pc(d)' = "connected"
          PROVE  \E i \in Places(At(d))' :
                   Place(At(d), i)' = [op |-> cl'[d].op, client |-> d, n |-> cl'[d].n, path |-> cl'[d].path]
      <3>1. PICK t \in Servers : t = Home(cl'[d].path) /\ t = Home(cl[d].path) /\ cl'[d].path = cl[d].path
        <4>1. cl'[d].path \in Paths /\ cl'[d].path = cl[d].path
          BY <1>9, <1>11, <2>2 DEF CommandInv
        <4>. QED BY <4>1, HomeIn
      <3>2. \E i \in Places(t)' :
              Place(t, i)' = [op |-> cl'[d].op, client |-> d, n |-> cl'[d].n, path |-> cl'[d].path]
        <4>1. CASE d = c
          BY <1>4, <1>5, <1>8, <1>9, <3>1, <4>1 DEF At
        <4>2. CASE d # c
          <5>1. cl'[d] = cl[d] /\ Pc(d) = "connected"
            BY <1>9, <2>2, <4>2 DEF Pc
          <5>2. PICK i \in Places(t) :
                   Place(t, i) = [op |-> cl[d].op, client |-> d, n |-> cl[d].n, path |-> cl[d].path]
            BY <1>1, <3>1, <5>1 DEF QueueInv, At
          <5>. QED BY <1>8, <1>13, <5>1, <5>2
        <4>. QED BY <4>1, <4>2
      <3>. QED BY <3>1, <3>2 DEF At
    <2>. QED BY <2>1, <2>2 DEF QueueInv
  <1>18. LatestInv'
    <2>1. ASSUME NEW p \in Paths \ Destinations
          PROVE  /\ Writes(p)' = Writes(p)
                 /\ \A i \in Writes(p) : Outcome(Place(Home(p), i))' = Outcome(Place(Home(p), i))
      <3>1. Home(p) \in Servers
        BY HomeIn
      <3>2. CASE Home(p) # s
        BY <1>2, <1>13, <3>1, <3>2 DEF Writes, Heard, Outcome
      <3>3. CASE Home(p) = s
        <4>1. ~Heard(r)'
          BY <1>2, <1>3, <1>5 DEF Heard
        <4>2. Writes(p)' = Writes(p)
          BY <1>2, <1>8, <3>3, <4>1 DEF Writes, Heard
        <4>. QED BY <1>2, <1>8, <3>3, <4>2 DEF Writes, Outcome
      <3>. QED BY <3>2, <3>3
    <2>2. \A p \in Paths : Truncated(p)' = Truncated(p)
      BY <1>2 DEF Truncated
    <2>3. ASSUME NEW p \in Paths \ Destinations
          PROVE  /\ \A i \in Writes(p)' :
                      (\A j \in Writes(p)' : j <= i) => Outcome(Place(Home(p), i))' = latest'[p]
                 /\ Writes(p)' = {} => file'[p] = latest'[p] \/ Truncated(p)'
      <3>1. latest'[p] = latest[p] /\ (Writes(p) = {} => file'[p] = latest[p] \/ Truncated(p)')
        BY <1>1, <1>2, <2>2 DEF LatestInv
      <3>. QED BY <1>1, <2>1, <3>1, LatestKept
    <2>. QED BY <2>3 DEF LatestInv
  <1>19. SlockInv' /\ WholeInv'
    BY <1>1, <1>2, WholeFrame DEF SlockInv
  <1>20. ReadLatest'
    BY <1>1, <1>2, <1>9, ReadFrame DEF Pc
  <1>21. CopyInv'
    <2>1. ~Copying(c) /\ ~Copying(c)' /\ cl'[c].op # "copyfile"
      BY <1>2, <1>3, <1>9 DEF Copying, Pc
    <2>. QED BY <1>1, <1>2, <1>9, <2>1, CopyFrame
  <1>. QED BY <1>10, <1>11, <1>12, <1>17, <1>18, <1>19, <1>20, <1>21 DEF DataInv, PathInv

\* The client sends its text, or goes.
LEMMA SpeakStep ==
    ASSUME DataInv, NEW c \in Clients, NEW w \in {"text", "end"}, NEW text,
           text = IF w = "text" THEN <<cl[c].n>> ELSE <<>>,
           Pc(c) = "connected", cl[c].op = "write",
           sent' = [sent EXCEPT ![cl[c].n] = w],
           latest' = [latest EXCEPT ![cl[c].path] = text],
           Go(c, "stop"),
           UNCHANGED <<file, temp, block, req, rep, waiting, slock, runner, cmds, up, complete>>
    PROVE  DataInv'
  <1>1. /\ Types /\ CommandInv /\ BlockInv /\ QueueInv /\ SlockInv /\ LatestInv /\ WholeInv
        /\ ReadLatest /\ CopyInv
    BY DEF DataInv, PathInv
  <1>2. At(c) \in Servers /\ cl[c].n \in 1 .. cmds /\ cl[c].n \in Cmds
        /\ cl[c].path \in Paths /\ cmds \in Nat /\ cmds \in 0 .. MaxCmds /\ MaxCmds \in Nat
        /\ sent[cl[c].n] = "nothing"
    BY <1>1, HomeIn, DataPathAssumption DEF CommandInv, At, Types, Cmds
  <1>3. PICK s \in Servers : s = At(c)
    BY <1>2
  <1>4. PICK n \in Cmds : n = cl[c].n
    BY <1>2
  <1>5. PICK q \in Paths : q = cl[c].path
    BY <1>2
  <1>6. /\ sent' \in [Cmds -> {"nothing", "text", "end"}] /\ sent'[n] = w
        /\ \A m \in Cmds : m # n => sent'[m] = sent[m]
    BY <1>1, <1>4 DEF Types
  <1>7. text \in Contents
    <2>1. n \in Texts
      BY <1>2, <1>4 DEF Texts, Cmds
    <2>. QED BY <1>4, <2>1 DEF Contents
  <1>8. /\ latest' \in [Paths -> Contents] /\ latest'[q] = text
        /\ \A p \in Paths : p # q => latest'[p] = latest[p]
    BY <1>1, <1>5, <1>7 DEF Types
  <1>9. /\ cl' \in [Clients -> States]
        /\ cl'[c].pc = "stop" /\ cl'[c].op = cl[c].op /\ cl'[c].n = cl[c].n
        /\ cl'[c].path = cl[c].path /\ cl'[c].dst = cl[c].dst /\ cl'[c].got = cl[c].got
        /\ \A d \in Clients : d # c => cl'[d] = cl[d]
    BY <1>1, GoMoves DEF Stages
  <1>10. Types'
    BY <1>1, <1>6, <1>8, <1>9 DEF Types
  <1>11. CommandInv'
    <2>1. \A m \in Cmds :
             \/ sent'[m] = sent[m]
             \/ m = cl[c].n /\ Pc(c) # "idle" /\ Pc(c)' \notin {"lock", "told", "connected"}
      BY <1>4, <1>6, <1>9 DEF Pc
    <2>. QED BY <1>1, <1>2, <1>9, <2>1, CommandKept DEF Pc
  <1>12. BlockInv'
    <2>1. block'[At(c)'] = c
      BY <1>1, <1>9 DEF BlockInv, At
    <2>. QED BY <1>1, <1>2, <1>9, <2>1, BlockKept
  <1>13. PICK k \in Places(s) :
           Place(s, k) = [op |-> "write", client |-> c, n |-> n, path |-> q]
    BY <1>1, <1>3, <1>4, <1>5 DEF QueueInv
  <1>14. ~Heard(Place(s, k)) /\ \A j \in Places(s) : j <= k
    <2>1. ~Heard(Place(s, k))
      BY <1>2, <1>4, <1>13 DEF Heard
    <2>. QED BY <1>1, <2>1 DEF QueueInv
  <1>15. \A t \in Servers : Places(t)' = Places(t) /\ \A i : Place(t, i)' = Place(t, i)
    BY ElsewhereSame
  <1>16. \A t \in Servers : \A i \in Places(t) : Place(t, i) \in Connections /\ i \in Nat
    BY <1>1 DEF Places, Place, Types
  \* No other connection is for this command.
  <1>17. ASSUME NEW t \in Servers, NEW i \in Places(t), t # s \/ i # k, NEW m, m = Place(t, i)
         PROVE  /\ m \in Connections /\ m.client \in Clients
                /\ Heard(m)' = Heard(m) /\ (Heard(m) => Outcome(m)' = Outcome(m))
                /\ (~Heard(m) => m.client # c /\ t # s)
    <2>1. m \in Connections /\ m.client \in Clients /\ m.n \in Cmds
      BY <1>16, <1>17 DEF Connections
    <2>2. CASE Heard(m)
      <3>1. m.n # n
        BY <1>2, <1>4, <2>2 DEF Heard
      <3>2. sent'[m.n] = sent[m.n]
        BY <1>6, <2>1, <3>1
      <3>. QED BY <2>1, <2>2, <3>2 DEF Heard, Outcome
    <2>3. CASE ~Heard(m)
      <3>1. /\ Home(m.path) = t /\ Pc(m.client) = "connected" /\ cl[m.client].n = m.n
            /\ cl[m.client].path = m.path /\ \A j \in Places(t) : j <= i
        BY <1>1, <1>17, <2>3 DEF QueueInv
      <3>2. t # s
        <4>1. CASE t = s
          <5>1. i <= k /\ k <= i /\ i \in Nat /\ k \in Nat
            BY <1>13, <1>14, <1>16, <3>1, <4>1
          <5>. QED BY <1>17, <4>1, <5>1
        <4>. QED BY <4>1
      <3>3. m.client # c
        BY <1>3, <3>1, <3>2 DEF At
      <3>4. m.n # n
        BY <1>1, <1>4, <2>1, <3>1, <3>3 DEF CommandInv
      <3>5. sent'[m.n] = sent[m.n]
        BY <1>6, <2>1, <3>4
      <3>. QED BY <2>1, <2>3, <3>2, <3>3, <3>5 DEF Heard
    <2>. QED BY <2>2, <2>3
  <1>18. Heard(Place(s, k))' /\ Outcome(Place(s, k))' = text
    <2>1. Place(s, k)' = [op |-> "write", client |-> c, n |-> n, path |-> q]
      BY <1>13, <1>15
    <2>2. Place(s, k)'.op = "write" /\ Place(s, k)'.n = n
      BY <2>1
    <2>. QED BY <1>4, <1>6, <2>2 DEF Heard, Outcome
  <1>19. QueueInv'
    <2>1. ASSUME NEW t \in Servers, NEW i, i \in Places(t)', NEW m, m = Place(t, i)'
          PROVE  /\ Home(m.path) = t /\ m.n <= cmds'
                 /\ m.op = "write" => m.path \in Writable
                 /\ ~Heard(m)' =>
                      /\ Pc(m.client)' = "connected" /\ cl'[m.client].op = m.op
                      /\ cl'[m.client].n = m.n /\ cl'[m.client].path = m.path
                      /\ \A j \in Places(t)' : j <= i
      <3>1. i \in Places(t) /\ m = Place(t, i) /\ Places(t)' = Places(t)
        BY <1>15, <2>1
      <3>2. CASE t = s /\ i = k
        <4>1. Heard(m)'
          BY <1>18, <2>1, <3>2 DEF Heard
        <4>. QED BY <1>1, <3>1, <4>1 DEF QueueInv
      <3>3. CASE ~(t = s /\ i = k)
        <4>1. Heard(m)' = Heard(m) /\ m.client \in Clients /\ (~Heard(m) => m.client # c)
          BY <1>17, <3>1, <3>3
        <4>. QED BY <1>1, <1>9, <3>1, <4>1 DEF QueueInv, Pc
      <3>. QED BY <3>2, <3>3
    <2>2. ASSUME NEW d \in Clients, Pc(d)' = "connected"
          PROVE  \E i \in Places(At(d))' :
                   Place(At(d), i)' = [op |-> cl'[d].op, client |-> d, n |-> cl'[d].n, path |-> cl'[d].path]
      <3>1. d # c /\ cl'[d] = cl[d] /\ Pc(d) = "connected"
        BY <1>9, <2>2 DEF Pc
      <3>2. PICK t \in Servers : t = Home(cl[d].path)
        BY <1>1, <3>1, HomeIn DEF CommandInv
      <3>3. PICK i \in Places(t) :
               Place(t, i) = [op |-> cl[d].op, client |-> d, n |-> cl[d].n, path |-> cl[d].path]
        BY <1>1, <3>1, <3>2 DEF QueueInv, At
      <3>4. \E j \in Places(t)' :
              Place(t, j)' = [op |-> cl'[d].op, client |-> d, n |-> cl'[d].n, path |-> cl'[d].path]
        BY <1>15, <3>1, <3>3
      <3>5. t = Home(cl'[d].path)
        BY <3>1, <3>2
      <3>. QED BY <3>4, <3>5 DEF At
    <2>. QED BY <2>1, <2>2 DEF QueueInv
  <1>20. LatestInv'
    <2>1. \A p \in Paths : Truncated(p)' = Truncated(p)
      BY DEF Truncated
    <2>2. ASSUME NEW p \in Paths \ Destinations
          PROVE  /\ \A i \in Writes(p)' :
                      (\A j \in Writes(p)' : j <= i) => Outcome(Place(Home(p), i))' = latest'[p]
                 /\ Writes(p)' = {} => file'[p] = latest'[p] \/ Truncated(p)'
      <3>1. PICK t \in Servers : t = Home(p)
        BY HomeIn
      <3>2. CASE p = q
        <4>1. t = s
          BY <1>3, <1>5, <3>1, <3>2 DEF At
        <4>2. k \in Writes(p)'
          BY <1>13, <1>15, <1>18, <3>1, <3>2, <4>1 DEF Writes
        <4>3. \A i \in Writes(p)' : i \in Places(s)
          BY <1>15, <3>1, <4>1 DEF Writes
        <4>4. ASSUME NEW i \in Writes(p)', \A j \in Writes(p)' : j <= i
              PROVE  i = k
          <5>1. k <= i /\ i <= k /\ i \in Nat /\ k \in Nat
            BY <1>13, <1>14, <1>16, <4>2, <4>3, <4>4
          <5>. QED BY <5>1
        <4>. QED BY <1>8, <1>18, <3>1, <3>2, <4>1, <4>2, <4>4
      <3>3. CASE p # q
        <4>1. \A i \in Places(t) : Place(t, i).path = p => t # s \/ i # k
          BY <1>13, <3>3
        <4>2. \A i \in Places(t) : Place(t, i).path = p =>
                /\ Heard(Place(t, i))' = Heard(Place(t, i))
                /\ Heard(Place(t, i)) => Outcome(Place(t, i))' = Outcome(Place(t, i))
          BY <1>15, <1>17, <4>1
        <4>3. Writes(p)' = Writes(p)
          BY <1>15, <3>1, <4>2 DEF Writes
        <4>4. \A i \in Writes(p) : Outcome(Place(Home(p), i))' = Outcome(Place(Home(p), i))
          BY <3>1, <4>2 DEF Writes
        <4>5. latest'[p] = latest[p] /\ (Writes(p) = {} => file'[p] = latest[p] \/ Truncated(p)')
          BY <1>1, <1>8, <2>1, <3>3 DEF LatestInv
        <4>. QED BY <1>1, <4>3, <4>4, <4>5, LatestKept
      <3>. QED BY <3>2, <3>3
    <2>. QED BY <2>2 DEF LatestInv
  <1>21. SlockInv' /\ WholeInv'
    BY <1>1, WholeFrame DEF SlockInv
  \* A client that has read q would have block_server.
  <1>22. ReadLatest'
    <2>1. ASSUME NEW d \in Clients, cl'[d].op = "read", Pc(d)' = "stop", cl'[d].path \notin Destinations
          PROVE  cl'[d].got = latest'[cl'[d].path]
      <3>1. d # c /\ cl'[d] = cl[d] /\ Pc(d) = "stop" /\ cl[d].path \in Paths
        BY <1>1, <1>9, <2>1 DEF Pc, CommandInv
      <3>2. cl[d].path # q
        BY <1>1, <1>5, <3>1 DEF BlockInv, At
      <3>. QED BY <1>1, <1>8, <2>1, <3>1, <3>2 DEF ReadLatest
    <2>. QED BY <2>1 DEF ReadLatest
  <1>23. CopyInv'
    <2>1. ~Copying(c) /\ ~Copying(c)' /\ cl'[c].op # "copyfile"
      BY <1>9 DEF Copying, Pc
    <2>. QED BY <1>1, <1>9, <2>1, CopyFrame
  <1>. QED BY <1>10, <1>11, <1>12, <1>19, <1>20, <1>21, <1>22, <1>23 DEF DataInv, PathInv

LEMMA StopStep ==
    ASSUME DataInv, NEW c \in Clients, Stop(c)
    PROVE  DataInv'
  <1>1. /\ Types /\ CommandInv /\ BlockInv /\ QueueInv /\ SlockInv /\ LatestInv /\ WholeInv
        /\ ReadLatest /\ CopyInv
    BY DEF DataInv, PathInv
  <1>2. /\ Pc(c) = "stop" /\ Post(At(c)) /\ cl' = [cl EXCEPT ![c] = Idle]
        /\ UNCHANGED <<file, temp, req, rep, waiting, slock, runner, sent, cmds, up, latest, complete>>
    BY DEF Stop
  <1>3. At(c) \in Servers /\ block[At(c)] = c
    BY <1>1, <1>2, HomeIn DEF CommandInv, At, BlockInv
  <1>4. /\ cl' \in [Clients -> States] /\ cl'[c].pc = "idle" /\ cl'[c].op = "none"
        /\ \A d \in Clients : d # c => cl'[d] = cl[d]
    BY <1>1, <1>2, ClMoves, IdleIs
  <1>5. /\ block' \in [Servers -> Clients \cup {Nobody}]
        /\ \A t \in Servers : t # At(c) => block'[t] = block[t]
    BY <1>1, <1>2, <1>3, PostMoves
  <1>6. Types'
    BY <1>1, <1>2, <1>4, <1>5 DEF Types
  <1>7. cmds \in 0 .. MaxCmds /\ MaxCmds \in Nat /\ cmds' = cmds /\ cmds \in Nat
    BY <1>1, <1>2, DataPathAssumption DEF Types
  <1>8. CommandInv'
    <2>1. \A n \in Cmds : sent'[n] = sent[n]
      BY <1>2
    <2>. QED BY <1>1, <1>2, <1>4, <1>7, <2>1, CommandKept DEF Pc
  <1>9. BlockInv'
    BY <1>1, <1>3, <1>4, <1>5, BlockKept DEF Pc
  <1>10. QueueInv'
    <2>1. \A d \in Clients : Pc(d) = "connected" \/ Pc(d)' = "connected" => cl'[d] = cl[d]
      BY <1>2, <1>4 DEF Pc
    <2>. QED BY <1>1, <1>2, <1>7, <2>1, QueueFrame DEF Cmds
  <1>11. LatestInv' /\ WholeInv' /\ SlockInv'
    BY <1>1, <1>2, LatestFrame, WholeFrame DEF SlockInv
  <1>12. ReadLatest'
    BY <1>1, <1>2, <1>4, ReadFrame DEF Pc
  <1>13. CopyInv'
    <2>1. ~Copying(c) /\ ~Copying(c)' /\ cl'[c].op # "copyfile"
      BY <1>2, <1>4 DEF Copying, Pc
    <2>. QED BY <1>1, <1>2, <1>4, <2>1, CopyFrame
  <1>. QED BY <1>6, <1>8, <1>9, <1>10, <1>11, <1>12, <1>13 DEF DataInv, PathInv

LEMMA BeginStep ==
    ASSUME DataInv, NEW c \in Clients, Begin(c)
    PROVE  DataInv'
  <1>1. /\ Types /\ CommandInv /\ BlockInv /\ QueueInv /\ SlockInv /\ LatestInv /\ WholeInv
        /\ ReadLatest /\ CopyInv
    BY DEF DataInv, PathInv
  <1>2. /\ Pc(c) = "idle" /\ cmds < MaxCmds /\ cmds' = cmds + 1
        /\ UNCHANGED <<file, temp, block, req, rep, waiting, slock, runner, sent, up, latest, complete>>
    BY DEF Begin
  <1>3. MaxCmds \in Nat /\ cmds \in Nat /\ cmds' \in 0 .. MaxCmds /\ cmds' \in Cmds
    BY <1>1, <1>2, DataPathAssumption DEF Types, Cmds
  <1>4. PICK r \in States :
          /\ cl' = [cl EXCEPT ![c] = r] /\ r.pc = "lock" /\ r.n = cmds + 1 /\ r.path \in Paths
          /\ r.op \in {"read", "write", "copyfile"} /\ (r.op = "write" => r.path \in Writable)
          /\ r.op = "copyfile" => c \in Copiers /\ <<r.path, r.dst>> \in Copies
    <2>1. CASE \E p \in Paths, op \in {"read", "write"} :
                 /\ op = "write" => p \in Writable
                 /\ cl' = [cl EXCEPT ![c] = [Idle EXCEPT !.pc = "lock", !.op = op, !.n = cmds + 1, !.path = p]]
      <3>1. PICK p \in Paths, op \in {"read", "write"} :
                 /\ op = "write" => p \in Writable
                 /\ cl' = [cl EXCEPT ![c] = [Idle EXCEPT !.pc = "lock", !.op = op, !.n = cmds + 1, !.path = p]]
        BY <2>1
      <3> DEFINE r == [Idle EXCEPT !.pc = "lock", !.op = op, !.n = cmds + 1, !.path = p]
      <3>2. r \in States /\ r.pc = "lock" /\ r.n = cmds + 1 /\ r.path = p /\ r.op = op
        BY <1>3, <1>2, IdleIs DEF States, Stages, Idle, Cmds
      <3>. QED BY <3>1, <3>2
    <2>2. CASE \E pq \in Copies :
                 /\ c \in Copiers
                 /\ cl' = [cl EXCEPT ![c] = [Idle EXCEPT !.pc = "lock", !.op = "copyfile", !.n = cmds + 1,
                                                         !.path = pq[1], !.dst = pq[2]]]
      <3>1. PICK pq \in Copies :
                 /\ c \in Copiers
                 /\ cl' = [cl EXCEPT ![c] = [Idle EXCEPT !.pc = "lock", !.op = "copyfile", !.n = cmds + 1,
                                                         !.path = pq[1], !.dst = pq[2]]]
        BY <2>2
      <3>2. pq[1] \in Paths /\ pq[2] \in Paths /\ <<pq[1], pq[2]>> \in Copies
        BY DataPathAssumption
      <3> DEFINE r == [Idle EXCEPT !.pc = "lock", !.op = "copyfile", !.n = cmds + 1,
                                   !.path = pq[1], !.dst = pq[2]]
      <3>3. r \in States /\ r.pc = "lock" /\ r.n = cmds + 1 /\ r.path = pq[1] /\ r.dst = pq[2]
            /\ r.op = "copyfile"
        BY <1>3, <1>2, <3>2, IdleIs DEF States, Stages, Idle, Cmds
      <3>. QED BY <3>1, <3>2, <3>3
    <2>. QED BY <2>1, <2>2 DEF Begin
  <1>5. /\ cl' \in [Clients -> States] /\ cl'[c] = r /\ \A d \in Clients : d # c => cl'[d] = cl[d]
    BY <1>1, <1>4, ClMoves
  <1>6. Types'
    BY <1>1, <1>2, <1>3, <1>5 DEF Types
  <1>7. CommandInv'
    <2>1. ASSUME NEW d \in Clients, d # c, Pc(d)' # "idle"
          PROVE  cl'[d] = cl[d] /\ Pc(d) # "idle" /\ cl'[d].n \in 1 .. cmds /\ cl'[d].n # cmds + 1
      BY <1>1, <1>3, <1>5, <2>1 DEF CommandInv, Pc
    <2>2. \A d \in Clients : Pc(d)' # "idle" =>
             cl'[d].n \in 1 .. cmds' /\ cl'[d].path \in Paths /\ cl'[d].op # "none"
      BY <1>1, <1>2, <1>3, <1>4, <1>5, <2>1 DEF CommandInv
    <2>3. /\ \A d \in Clients : Pc(d)' \in {"told", "connected", "stop"} => cl'[d].op \in {"read", "write"}
          /\ \A d \in Clients : cl'[d].op = "write" => cl'[d].path \in Writable
      BY <1>1, <1>4, <1>5 DEF CommandInv, Pc
    <2>4. \A d, e \in Clients : Pc(d)' # "idle" /\ Pc(e)' # "idle" /\ cl'[d].n = cl'[e].n => d = e
      BY <1>1, <1>4, <1>5, <2>1 DEF CommandInv
    <2>5. sent[cmds + 1] = "nothing"
      BY <1>1, <1>2, <1>3 DEF CommandInv
    <2>6. \A d \in Clients : Pc(d)' \in {"lock", "told", "connected"} => sent'[cl'[d].n] = "nothing"
      BY <1>1, <1>2, <1>4, <1>5, <2>5 DEF CommandInv, Pc
    <2>7. \A n \in Cmds : n > cmds' => sent'[n] = "nothing"
      BY <1>1, <1>2, <1>3 DEF CommandInv, Cmds
    <2>. QED BY <2>2, <2>3, <2>4, <2>6, <2>7 DEF CommandInv
  <1>8. BlockInv'
    <2>1. Pc(c)' = "lock"
      BY <1>4, <1>5 DEF Pc
    <2>. QED BY <1>1, <1>2, <1>5, <2>1, BlockKept
  <1>9. QueueInv'
    <2>1. \A d \in Clients : Pc(d) = "connected" \/ Pc(d)' = "connected" => cl'[d] = cl[d]
      BY <1>2, <1>4, <1>5 DEF Pc
    <2>. QED BY <1>1, <1>2, <1>3, <2>1, QueueFrame DEF Cmds
  <1>10. LatestInv' /\ WholeInv' /\ SlockInv'
    BY <1>1, <1>2, LatestFrame, WholeFrame DEF SlockInv
  <1>11. ReadLatest'
    BY <1>1, <1>2, <1>4, <1>5, ReadFrame DEF Pc
  <1>12. CopyInv'
    <2>1. ~Copying(c) /\ ~Copying(c)'
      BY <1>2, <1>4, <1>5 DEF Copying, Pc
    <2>. QED BY <1>1, <1>2, <1>4, <1>5, <2>1, CopyFrame
  <1>. QED BY <1>6, <1>7, <1>8, <1>9, <1>10, <1>11, <1>12 DEF DataInv, PathInv

-----------------------------------------------------------------------------
(* C_runner's steps.                                                        *)

\* The first connection of the queue is taken out of it.
LEMMA Shifts ==
    ASSUME Types, NEW s \in Servers, Accept(s)
    PROVE  /\ waiting' \in [Servers -> Seq(Connections)]
           /\ runner' \in [Servers -> Connections \cup {None}]
           /\ \A t \in Servers : t # s => waiting'[t] = waiting[t] /\ runner'[t] = runner[t]
           /\ \A i : i \in Places(s)' <=> i \in Nat /\ i + 1 \in Places(s)
           /\ \A i \in Places(s) : i \in Nat \ {0}
           /\ \A i \in Places(s)' : Place(s, i)' = Place(s, i + 1) /\ Place(s, i)' \in Connections
  <1>1. /\ runner[s] = None /\ waiting[s] # <<>> /\ waiting[s] \in Seq(Connections)
        /\ runner' = [runner EXCEPT ![s] = Head(waiting[s])]
        /\ waiting' = [waiting EXCEPT ![s] = Tail(@)]
    BY DEF Accept, Types
  <1>2. PICK q \in Seq(Connections) : q = waiting[s]
    BY <1>1
  <1>3. /\ Len(q) \in Nat \ {0} /\ Head(q) = q[1] /\ Tail(q) \in Seq(Connections)
        /\ Len(Tail(q)) = Len(q) - 1 /\ \A i \in 1 .. Len(q) - 1 : Tail(q)[i] = q[i + 1]
        /\ \A i \in 1 .. Len(q) : q[i] \in Connections
    BY <1>1, <1>2
  <1>4. /\ waiting' \in [Servers -> Seq(Connections)]
        /\ runner' \in [Servers -> Connections \cup {None}]
        /\ \A t \in Servers : t # s => waiting'[t] = waiting[t] /\ runner'[t] = runner[t]
        /\ runner'[s] = q[1] /\ waiting'[s] = Tail(q)
    BY <1>1, <1>2, <1>3 DEF Types
  <1>5. runner'[s] # None
    BY <1>3, <1>4 DEF Connections, None
  <1>6. Places(s) = 1 .. Len(q) /\ \A i \in 1 .. Len(q) : Place(s, i) = q[i]
    BY <1>1, <1>2, <1>3 DEF Places, Place
  <1>7. Places(s)' = {0} \cup 1 .. Len(q) - 1
    BY <1>3, <1>4, <1>5 DEF Places
  <1>8. \A i \in Places(s)' : Place(s, i)' = q[i + 1]
    BY <1>3, <1>4, <1>7 DEF Place
  <1>9. \A i : i \in Places(s)' <=> i \in Nat /\ i + 1 \in Places(s)
    BY <1>3, <1>6, <1>7
  <1>10. \A i \in Places(s) : i \in Nat \ {0}
    BY <1>3, <1>6
  <1>11. \A i \in Places(s)' : Place(s, i)' = Place(s, i + 1) /\ Place(s, i)' \in Connections
    BY <1>3, <1>6, <1>7, <1>8
  <1>. QED BY <1>4, <1>9, <1>10, <1>11

LEMMA AcceptStep ==
    ASSUME DataInv, NEW s \in Servers, Accept(s)
    PROVE  DataInv'
  <1>1. /\ Types /\ CommandInv /\ BlockInv /\ QueueInv /\ SlockInv /\ LatestInv /\ WholeInv
        /\ ReadLatest /\ CopyInv
    BY DEF DataInv, PathInv
  <1>2. runner[s] = None
        /\ UNCHANGED <<file, temp, block, req, rep, slock, cl, sent, cmds, up, latest, complete>>
    BY DEF Accept
  <1>3. /\ waiting' \in [Servers -> Seq(Connections)]
        /\ runner' \in [Servers -> Connections \cup {None}]
        /\ \A t \in Servers : t # s => waiting'[t] = waiting[t] /\ runner'[t] = runner[t]
    BY <1>1, Shifts
  <1>4. /\ \A i : i \in Places(s)' <=> i \in Nat /\ i + 1 \in Places(s)
        /\ \A i \in Places(s) : i \in Nat \ {0}
        /\ \A i \in Places(s)' : Place(s, i)' = Place(s, i + 1) /\ Place(s, i)' \in Connections
    BY <1>1, Shifts
  <1>5. \A t \in Servers : t # s => Places(t)' = Places(t) /\ \A i : Place(t, i)' = Place(t, i)
    BY <1>3, ElsewhereSame
  <1>6. Types'
    BY <1>1, <1>2, <1>3 DEF Types
  <1>7. CommandInv' /\ BlockInv'
    BY <1>1, <1>2 DEF CommandInv, BlockInv, Pc, At
  <1>8. slock[s] = Nobody
    BY <1>1, <1>2 DEF SlockInv, Types
  <1>9. SlockInv'
    BY <1>1, <1>2, <1>3, <1>8 DEF SlockInv, Nobody
  <1>10. \A m \in Connections : Heard(m)' = Heard(m) /\ m.client \in Clients
    BY <1>2 DEF Heard, Connections
  <1>11. QueueInv'
    <2>1. ASSUME NEW t \in Servers, NEW i, i \in Places(t)', NEW m, m = Place(t, i)'
          PROVE  /\ Home(m.path) = t /\ m.n <= cmds'
                 /\ m.op = "write" => m.path \in Writable
                 /\ ~Heard(m)' =>
                      /\ Pc(m.client)' = "connected" /\ cl'[m.client].op = m.op
                      /\ cl'[m.client].n = m.n /\ cl'[m.client].path = m.path
                      /\ \A j \in Places(t)' : j <= i
      <3>1. CASE t # s
        <4>1. i \in Places(t) /\ m = Place(t, i) /\ Places(t)' = Places(t)
          BY <1>5, <2>1, <3>1
        <4>. QED BY <1>1, <1>2, <4>1 DEF QueueInv, Heard, Pc
      <3>2. CASE t = s
        <4>1. /\ i \in Nat /\ i + 1 \in Places(s) /\ m = Place(s, i + 1) /\ m \in Connections
          BY <1>4, <2>1, <3>2
        <4>2. /\ Home(m.path) = s /\ m.n <= cmds
              /\ m.op = "write" => m.path \in Writable
              /\ ~Heard(m) =>
                   /\ Pc(m.client) = "connected" /\ cl[m.client].op = m.op
                   /\ cl[m.client].n = m.n /\ cl[m.client].path = m.path
                   /\ \A j \in Places(s) : j <= i + 1
          BY <1>1, <4>1 DEF QueueInv
        <4>3. ASSUME ~Heard(m), NEW j \in Places(t)'
              PROVE  j <= i
          <5>1. j \in Nat /\ j + 1 <= i + 1
            BY <1>4, <3>2, <4>2, <4>3
          <5>. QED BY <4>1, <5>1
        <4>. QED BY <1>2, <1>10, <3>2, <4>1, <4>2, <4>3 DEF Pc
      <3>. QED BY <3>1, <3>2
    <2>2. ASSUME NEW d \in Clients, Pc(d)' = "connected"
          PROVE  \E i \in Places(At(d))' :
                   Place(At(d), i)' = [op |-> cl'[d].op, client |-> d, n |-> cl'[d].n, path |-> cl'[d].path]
      <3>1. cl'[d] = cl[d] /\ Pc(d) = "connected"
        BY <1>2, <2>2 DEF Pc
      <3>2. PICK t \in Servers : t = Home(cl[d].path)
        BY <1>1, <3>1, HomeIn DEF CommandInv
      <3>3. PICK i \in Places(t) :
               Place(t, i) = [op |-> cl[d].op, client |-> d, n |-> cl[d].n, path |-> cl[d].path]
        BY <1>1, <3>1, <3>2 DEF QueueInv, At
      <3>4. \E j \in Places(t)' :
              Place(t, j)' = [op |-> cl'[d].op, client |-> d, n |-> cl'[d].n, path |-> cl'[d].path]
        <4>1. CASE t # s
          BY <1>5, <3>1, <3>3, <4>1
        <4>2. CASE t = s
          <5>1. i - 1 \in Nat /\ (i - 1) + 1 = i
            BY <1>4, <3>3, <4>2
          <5>2. i - 1 \in Places(s)' /\ Place(s, i - 1)' = Place(s, i)
            BY <1>4, <3>3, <4>2, <5>1
          <5>. QED BY <3>1, <3>3, <4>2, <5>2
        <4>. QED BY <4>1, <4>2
      <3>5. t = Home(cl'[d].path)
        BY <3>1, <3>2
      <3>. QED BY <3>4, <3>5 DEF At
    <2>. QED BY <2>1, <2>2 DEF QueueInv
  <1>12. \A p \in Paths : Truncated(p)' = Truncated(p)
    BY <1>2, <1>3, <1>8, HomeIn DEF Truncated, Nobody
  <1>13. LatestInv'
    <2>1. ASSUME NEW p \in Paths \ Destinations
          PROVE  /\ \A i \in Writes(p)' :
                      (\A j \in Writes(p)' : j <= i) => Outcome(Place(Home(p), i))' = latest'[p]
                 /\ Writes(p)' = {} => file'[p] = latest'[p] \/ Truncated(p)'
      <3>1. Home(p) \in Servers
        BY HomeIn
      <3>2. latest'[p] = latest[p] /\ (Writes(p) = {} => file'[p] = latest[p] \/ Truncated(p)')
        BY <1>1, <1>2, <1>12 DEF LatestInv
      <3>3. CASE Home(p) # s
        <4>1. /\ Writes(p)' = Writes(p)
              /\ \A i \in Writes(p) : Outcome(Place(Home(p), i))' = Outcome(Place(Home(p), i))
          BY <1>2, <1>5, <3>1, <3>3 DEF Writes, Heard, Outcome
        <4>. QED BY <1>1, <3>2, <4>1, LatestKept
      <3>4. CASE Home(p) = s
        <4>1. \A i : i \in Writes(p)' <=> i \in Nat /\ i + 1 \in Writes(p)
          BY <1>2, <1>4, <3>4 DEF Writes, Heard
        <4>2. \A i \in Writes(p) : i - 1 \in Writes(p)' /\ i \in Nat
          <5>1. \A i \in Writes(p) : i - 1 \in Nat /\ (i - 1) + 1 = i /\ i \in Nat
            BY <1>4, <3>4 DEF Writes
          <5>. QED BY <4>1, <5>1
        <4>3. ASSUME NEW i \in Writes(p)', \A j \in Writes(p)' : j <= i
              PROVE  Outcome(Place(Home(p), i))' = latest'[p]
          <5>1. i \in Nat /\ i + 1 \in Writes(p) /\ Place(s, i)' = Place(s, i + 1)
            BY <1>4, <3>4, <4>1, <4>3 DEF Writes
          <5>2. \A j \in Writes(p) : j <= i + 1
            <6>1. \A j \in Writes(p) : j - 1 <= i /\ j \in Nat
              BY <4>2, <4>3
            <6>. QED BY <5>1, <6>1
          <5>3. Outcome(Place(Home(p), i + 1)) = latest[p]
            BY <1>1, <5>1, <5>2 DEF LatestInv
          <5>. QED BY <1>2, <3>4, <5>1, <5>3 DEF Outcome
        <4>4. Writes(p)' = {} => Writes(p) = {}
          BY <4>2
        <4>. QED BY <3>2, <4>3, <4>4
      <3>. QED BY <3>3, <3>4
    <2>. QED BY <2>1 DEF LatestInv
  <1>14. WholeInv'
    BY <1>1, <1>2, <1>12 DEF WholeInv
  <1>15. ReadLatest'
    BY <1>1, <1>2, ReadFrame
  <1>16. CopyInv'
    BY <1>1, <1>2, CopyFrame
  <1>. QED BY <1>6, <1>7, <1>9, <1>11, <1>13, <1>14, <1>15, <1>16 DEF DataInv, PathInv

\* C_runner is done with a connection.
LEMMA Leaves ==
    ASSUME Types, NEW s \in Servers, runner[s] # None, waiting' = waiting,
           runner' = [runner EXCEPT ![s] = None]
    PROVE  /\ runner' \in [Servers -> Connections \cup {None}] /\ runner'[s] = None
           /\ \A t \in Servers : t # s => runner'[t] = runner[t]
           /\ runner[s] \in Connections /\ 0 \in Places(s) /\ Place(s, 0) = runner[s]
           /\ \A i \in Places(s) : i \in Nat /\ Place(s, i) \in Connections
           /\ \A i : i \in Places(s)' <=> i \in Places(s) /\ i # 0
           /\ \A i \in Places(s)' : Place(s, i)' = Place(s, i)
  <1>1. /\ runner[s] \in Connections /\ waiting[s] \in Seq(Connections)
        /\ runner' \in [Servers -> Connections \cup {None}] /\ runner'[s] = None
        /\ \A t \in Servers : t # s => runner'[t] = runner[t]
    BY DEF Types
  <1>2. Places(s) = {0} \cup 1 .. Len(waiting[s]) /\ Places(s)' = 1 .. Len(waiting[s])
    BY <1>1 DEF Places
  <1>3. \A i \in 1 .. Len(waiting[s]) : i # 0 /\ waiting[s][i] \in Connections /\ i \in Nat
    BY <1>1
  <1>4. /\ \A i \in Places(s) : i \in Nat /\ Place(s, i) \in Connections
        /\ Place(s, 0) = runner[s]
    BY <1>1, <1>2, <1>3 DEF Place
  <1>5. \A i : i \in Places(s)' <=> i \in Places(s) /\ i # 0
    BY <1>2, <1>3
  <1>6. \A i \in Places(s)' : Place(s, i)' = Place(s, i)
    BY <1>2, <1>3 DEF Place
  <1>. QED BY <1>1, <1>2, <1>4, <1>5, <1>6

LEMMA ServeReadStep ==
    ASSUME DataInv, NEW s \in Servers, ServeRead(s)
    PROVE  DataInv'
  <1>1. /\ Types /\ CommandInv /\ BlockInv /\ QueueInv /\ SlockInv /\ LatestInv /\ WholeInv
        /\ ReadLatest /\ CopyInv
    BY DEF DataInv, PathInv
  <1>2. PICK m : m = runner[s]
    OBVIOUS
  <1>3. /\ m.op = "read" /\ slock[s] = Nobody /\ m # None
        /\ cl' = [cl EXCEPT ![m.client].pc = "stop", ![m.client].got = file[m.path]]
        /\ runner' = [runner EXCEPT ![s] = None]
        /\ UNCHANGED <<file, temp, block, req, rep, waiting, slock, sent, cmds, up, latest, complete>>
    BY <1>2 DEF ServeRead, None
  <1>4. /\ runner' \in [Servers -> Connections \cup {None}] /\ runner'[s] = None
        /\ \A t \in Servers : t # s => runner'[t] = runner[t]
        /\ m \in Connections /\ 0 \in Places(s) /\ Place(s, 0) = m
        /\ \A i \in Places(s) : i \in Nat /\ Place(s, i) \in Connections
        /\ \A i : i \in Places(s)' <=> i \in Places(s) /\ i # 0
    BY <1>1, <1>2, <1>3, Leaves
  <1>5. PICK c \in Clients : c = m.client
    BY <1>4 DEF Connections
  \* It is the last connection in the queue.
  <1>6. /\ Home(m.path) = s /\ m.path \in Paths /\ Pc(c) = "connected" /\ cl[c].op = "read"
        /\ cl[c].path = m.path /\ \A j \in Places(s) : j <= 0
    <2>1. ~Heard(m)
      BY <1>3 DEF Heard
    <2>. QED BY <1>1, <1>3, <1>4, <1>5, <2>1 DEF QueueInv, Connections
  <1>7. Places(s)' = {}
    BY <1>4, <1>6
  <1>8. /\ cl' \in [Clients -> States]
        /\ cl'[c].pc = "stop" /\ cl'[c].op = cl[c].op /\ cl'[c].n = cl[c].n
        /\ cl'[c].path = cl[c].path /\ cl'[c].dst = cl[c].dst /\ cl'[c].got = file[m.path]
        /\ \A d \in Clients : d # c => cl'[d] = cl[d]
    <2>1. file[m.path] \in Contents
      BY <1>1, <1>6 DEF Types
    <2>2. cl' = [cl EXCEPT ![c].pc = "stop", ![c].got = file[m.path]]
      BY <1>3, <1>5
    <2>3. "stop" \in Stages
      BY DEF Stages
    <2>. QED BY <1>1, <2>1, <2>2, <2>3, GotMoves
  <1>9. Types'
    BY <1>1, <1>3, <1>4, <1>8 DEF Types
  <1>10. CommandInv'
    <2>1. \A n \in Cmds : sent'[n] = sent[n]
      BY <1>3
    <2>2. cmds \in 0 .. MaxCmds /\ MaxCmds \in Nat /\ cmds' = cmds
      BY <1>1, <1>3, DataPathAssumption DEF Types
    <2>. QED BY <1>1, <1>6, <1>8, <2>1, <2>2, CommandKept DEF Pc
  <1>11. BlockInv'
    <2>1. block'[At(c)'] = c
      BY <1>1, <1>3, <1>6, <1>8 DEF BlockInv, At
    <2>. QED BY <1>1, <1>3, <1>8, <2>1, BlockKept
  <1>12. \A t \in Servers : t # s => Places(t)' = Places(t) /\ \A i : Place(t, i)' = Place(t, i)
    BY <1>3, <1>4, ElsewhereSame
  <1>13. \A t \in Servers : \A i \in Places(t) : Place(t, i) \in Connections
    BY <1>1 DEF Places, Place, Types
  <1>14. QueueInv'
    <2>1. ASSUME NEW t \in Servers, NEW i, i \in Places(t)', NEW x, x = Place(t, i)'
          PROVE  /\ Home(x.path) = t /\ x.n <= cmds'
                 /\ x.op = "write" => x.path \in Writable
                 /\ ~Heard(x)' =>
                      /\ Pc(x.client)' = "connected" /\ cl'[x.client].op = x.op
                      /\ cl'[x.client].n = x.n /\ cl'[x.client].path = x.path
                      /\ \A j \in Places(t)' : j <= i
      <3>1. t # s /\ i \in Places(t) /\ x = Place(t, i) /\ Places(t)' = Places(t)
        BY <1>7, <1>12, <2>1
      <3>2. x.client \in Clients /\ Heard(x)' = Heard(x)
        BY <1>3, <1>13, <3>1 DEF Heard, Connections
      <3>3. ~Heard(x) => x.client # c
        BY <1>1, <1>6, <3>1 DEF QueueInv
      <3>4. ~Heard(x) => /\ Pc(x.client)' = Pc(x.client) /\ cl'[x.client] = cl[x.client]
        BY <1>8, <3>2, <3>3 DEF Pc
      <3>5. /\ Home(x.path) = t /\ x.n <= cmds
            /\ x.op = "write" => x.path \in Writable
            /\ ~Heard(x) =>
                 /\ Pc(x.client) = "connected" /\ cl[x.client].op = x.op
                 /\ cl[x.client].n = x.n /\ cl[x.client].path = x.path
                 /\ \A j \in Places(t) : j <= i
        BY <1>1, <3>1 DEF QueueInv
      <3>. QED BY <1>3, <3>1, <3>2, <3>4, <3>5
    <2>2. ASSUME NEW d \in Clients, Pc(d)' = "connected"
          PROVE  \E i \in Places(At(d))' :
                   Place(At(d), i)' = [op |-> cl'[d].op, client |-> d, n |-> cl'[d].n, path |-> cl'[d].path]
      <3>1. d # c /\ cl'[d] = cl[d] /\ Pc(d) = "connected"
        BY <1>8, <2>2 DEF Pc
      <3>2. PICK t \in Servers : t = Home(cl[d].path)
        BY <1>1, <3>1, HomeIn DEF CommandInv
      <3>3. block[t] = d /\ block[s] = c
        BY <1>1, <1>6, <3>1, <3>2 DEF BlockInv, At
      <3>4. PICK i \in Places(t) :
               Place(t, i) = [op |-> cl[d].op, client |-> d, n |-> cl[d].n, path |-> cl[d].path]
        BY <1>1, <3>1, <3>2 DEF QueueInv, At
      <3>5. \E j \in Places(t)' :
              Place(t, j)' = [op |-> cl'[d].op, client |-> d, n |-> cl'[d].n, path |-> cl'[d].path]
        BY <1>12, <3>1, <3>3, <3>4
      <3>6. t = Home(cl'[d].path)
        BY <3>1, <3>2
      <3>. QED BY <3>5, <3>6 DEF At
    <2>. QED BY <2>1, <2>2 DEF QueueInv
  <1>15. SlockInv'
    BY <1>1, <1>3, <1>4 DEF SlockInv, Nobody
  <1>16. \A p \in Paths : Truncated(p)' = Truncated(p) /\ (Home(p) = s => ~Truncated(p))
    BY <1>3, <1>4, HomeIn DEF Truncated, Nobody
  <1>17. LatestInv'
    <2>1. ASSUME NEW p \in Paths \ Destinations
          PROVE  /\ Writes(p)' = Writes(p)
                 /\ \A i \in Writes(p) : Outcome(Place(Home(p), i))' = Outcome(Place(Home(p), i))
      <3>1. Home(p) \in Servers
        BY HomeIn
      <3>2. CASE Home(p) # s
        BY <1>3, <1>12, <3>1, <3>2 DEF Writes, Heard, Outcome
      <3>3. CASE Home(p) = s
        <4>1. Writes(p)' = {}
          BY <1>7, <3>3 DEF Writes
        <4>2. \A i \in Places(s) : i = 0
          BY <1>4, <1>6
        <4>3. Writes(p) = {}
          BY <1>3, <1>4, <3>3, <4>2 DEF Writes, Heard
        <4>. QED BY <4>1, <4>3
      <3>. QED BY <3>2, <3>3
    <2>2. ASSUME NEW p \in Paths \ Destinations
          PROVE  /\ \A i \in Writes(p)' :
                      (\A j \in Writes(p)' : j <= i) => Outcome(Place(Home(p), i))' = latest'[p]
                 /\ Writes(p)' = {} => file'[p] = latest'[p] \/ Truncated(p)'
      <3>1. latest'[p] = latest[p] /\ (Writes(p) = {} => file'[p] = latest[p] \/ Truncated(p)')
        BY <1>1, <1>3, <1>16 DEF LatestInv
      <3>. QED BY <1>1, <2>1, <3>1, LatestKept
    <2>. QED BY <2>2 DEF LatestInv
  <1>18. WholeInv'
    BY <1>1, <1>3, <1>16 DEF WholeInv
  <1>19. ReadLatest'
    <2>1. m.path \notin Destinations => file[m.path] = latest[m.path]
      <3>1. ASSUME NEW i \in Writes(m.path) PROVE FALSE
        <4>1. i \in Places(s) /\ Heard(Place(s, i))
          BY <1>6, <3>1 DEF Writes
        <4>2. i = 0
          BY <1>4, <1>6, <4>1
        <4>. QED BY <1>3, <1>4, <4>1, <4>2 DEF Heard
      <3>. QED BY <1>1, <1>6, <1>16, <3>1 DEF LatestInv
    <2>. QED BY <1>1, <1>3, <1>6, <1>8, <2>1 DEF ReadLatest, Pc
  <1>20. CopyInv'
    <2>1. ~Copying(c) /\ ~Copying(c)' /\ cl'[c].op # "copyfile"
      BY <1>6, <1>8 DEF Copying, Pc
    <2>. QED BY <1>1, <1>3, <1>8, <2>1, CopyFrame
  <1>. QED BY <1>9, <1>10, <1>11, <1>14, <1>15, <1>17, <1>18, <1>19, <1>20 DEF DataInv, PathInv

LEMMA OpenWriteStep ==
    ASSUME DataInv, NEW s \in Servers, OpenWrite(s)
    PROVE  DataInv'
  <1>1. /\ Types /\ CommandInv /\ BlockInv /\ QueueInv /\ SlockInv /\ LatestInv /\ WholeInv
        /\ ReadLatest /\ CopyInv
    BY DEF DataInv, PathInv
  <1>2. PICK m : m = runner[s]
    OBVIOUS
  <1>3. /\ m.op = "write" /\ slock[s] = Nobody /\ m # None
        /\ slock' = [slock EXCEPT ![s] = "C_runner"]
        /\ file' = [file EXCEPT ![m.path] = <<>>]
        /\ UNCHANGED <<temp, block, req, rep, waiting, runner, cl, sent, cmds, up, latest, complete>>
    BY <1>2 DEF OpenWrite, None
  <1>4. m \in Connections /\ m.path \in Paths /\ 0 \in Places(s) /\ Place(s, 0) = m
    BY <1>1, <1>2, <1>3 DEF Types, Connections, Places, Place
  <1>5. Home(m.path) = s /\ m.path \in Writable
    BY <1>1, <1>3, <1>4 DEF QueueInv
  <1>6. /\ slock' \in [Servers -> {Nobody, "C_runner"}] /\ slock'[s] = "C_runner"
        /\ \A t \in Servers : t # s => slock'[t] = slock[t]
    BY <1>1, <1>3 DEF Types
  <1>7. /\ file' \in [Paths -> Contents] /\ file'[m.path] = <<>>
        /\ \A p \in Paths : p # m.path => file'[p] = file[p]
    BY <1>1, <1>3, <1>4, IdleIs DEF Types
  <1>8. Types'
    BY <1>1, <1>3, <1>6, <1>7 DEF Types
  <1>9. CommandInv' /\ BlockInv'
    BY <1>1, <1>3 DEF CommandInv, BlockInv, Pc, At
  <1>10. QueueInv'
    <2>1. cmds \in Nat
      BY <1>1, DataPathAssumption DEF Types
    <2>. QED BY <1>1, <1>3, <2>1, QueueFrame DEF Cmds
  <1>11. SlockInv'
    BY <1>1, <1>2, <1>3, <1>6 DEF SlockInv
  <1>12. \A p \in Paths : IF p = m.path THEN Truncated(p)'
                          ELSE Truncated(p)' = Truncated(p)
    BY <1>2, <1>3, <1>5, <1>6, HomeIn DEF Truncated, Nobody
  <1>13. LatestInv'
    <2>1. ASSUME NEW p \in Paths \ Destinations
          PROVE  /\ \A i \in Writes(p)' :
                      (\A j \in Writes(p)' : j <= i) => Outcome(Place(Home(p), i))' = latest'[p]
                 /\ Writes(p)' = {} => file'[p] = latest'[p] \/ Truncated(p)'
      <3>1. /\ Writes(p)' = Writes(p)
            /\ \A i \in Writes(p) : Outcome(Place(Home(p), i))' = Outcome(Place(Home(p), i))
        BY <1>3 DEF Writes, Places, Place, Heard, Outcome
      <3>2. latest'[p] = latest[p] /\ (Writes(p) = {} => file'[p] = latest[p] \/ Truncated(p)')
        BY <1>1, <1>3, <1>7, <1>12 DEF LatestInv
      <3>. QED BY <1>1, <3>1, <3>2, LatestKept
    <2>. QED BY <2>1 DEF LatestInv
  <1>14. WholeInv'
    BY <1>1, <1>3, <1>7, <1>12 DEF WholeInv
  <1>15. ReadLatest'
    BY <1>1, <1>3, ReadFrame
  <1>16. CopyInv'
    BY <1>1, <1>3, <1>5, <1>7, CopyFrame
  <1>. QED BY <1>8, <1>9, <1>10, <1>11, <1>13, <1>14, <1>15, <1>16 DEF DataInv, PathInv

LEMMA CloseWriteStep ==
    ASSUME DataInv, NEW s \in Servers, CloseWrite(s)
    PROVE  DataInv'
  <1>1. /\ Types /\ CommandInv /\ BlockInv /\ QueueInv /\ SlockInv /\ LatestInv /\ WholeInv
        /\ ReadLatest /\ CopyInv
    BY DEF DataInv, PathInv
  <1>2. PICK m : m = runner[s]
    OBVIOUS
  <1>3. /\ m.op = "write" /\ slock[s] = "C_runner" /\ sent[m.n] # "nothing" /\ m # None
        /\ file' = [file EXCEPT ![m.path] = Outcome(m)]
        /\ complete' = [complete EXCEPT ![m.path] = @ \cup {file'[m.path]}]
        /\ slock' = [slock EXCEPT ![s] = Nobody]
        /\ runner' = [runner EXCEPT ![s] = None]
        /\ UNCHANGED <<temp, block, req, rep, waiting, cl, sent, cmds, up, latest>>
    BY <1>2 DEF CloseWrite, WriteText, None, Outcome
  <1>4. /\ runner' \in [Servers -> Connections \cup {None}] /\ runner'[s] = None
        /\ \A t \in Servers : t # s => runner'[t] = runner[t]
        /\ m \in Connections /\ 0 \in Places(s) /\ Place(s, 0) = m
        /\ \A i \in Places(s) : i \in Nat /\ Place(s, i) \in Connections
        /\ \A i : i \in Places(s)' <=> i \in Places(s) /\ i # 0
        /\ \A i \in Places(s)' : Place(s, i)' = Place(s, i)
    BY <1>1, <1>2, <1>3, Leaves
  <1>5. Home(m.path) = s /\ m.path \in Writable /\ m.path \in Paths /\ m.n \in Cmds /\ Heard(m)
    BY <1>1, <1>3, <1>4 DEF QueueInv, Connections, Heard
  <1>6. Outcome(m) \in Contents
    <2>1. m.n \in Texts
      BY <1>5, DataPathAssumption DEF Cmds, Texts
    <2>2. <<m.n>> \in Seq(Texts) /\ <<>> \in Seq(Texts)
      BY <2>1
    <2>. QED BY <2>2 DEF Outcome, Contents
  <1>7. /\ file' \in [Paths -> Contents] /\ file'[m.path] = Outcome(m)
        /\ \A p \in Paths : p # m.path => file'[p] = file[p]
    BY <1>1, <1>3, <1>5, <1>6 DEF Types
  <1>8. /\ complete' \in [Paths -> SUBSET Contents] /\ complete'[m.path] = complete[m.path] \cup {Outcome(m)}
        /\ \A p \in Paths : p # m.path => complete'[p] = complete[p]
    BY <1>1, <1>3, <1>5, <1>6, <1>7 DEF Types
  <1>9. /\ slock' \in [Servers -> {Nobody, "C_runner"}] /\ slock'[s] = Nobody
        /\ \A t \in Servers : t # s => slock'[t] = slock[t]
    BY <1>1, <1>3 DEF Types
  <1>10. Types'
    BY <1>1, <1>3, <1>4, <1>7, <1>8, <1>9 DEF Types
  <1>11. CommandInv' /\ BlockInv'
    BY <1>1, <1>3 DEF CommandInv, BlockInv, Pc, At
  <1>12. \A t \in Servers : t # s => Places(t)' = Places(t) /\ \A i : Place(t, i)' = Place(t, i)
    BY <1>3, <1>4, ElsewhereSame
  <1>13. QueueInv'
    <2>1. ASSUME NEW t \in Servers, NEW i, i \in Places(t)', NEW x, x = Place(t, i)'
          PROVE  /\ Home(x.path) = t /\ x.n <= cmds'
                 /\ x.op = "write" => x.path \in Writable
                 /\ ~Heard(x)' =>
                      /\ Pc(x.client)' = "connected" /\ cl'[x.client].op = x.op
                      /\ cl'[x.client].n = x.n /\ cl'[x.client].path = x.path
                      /\ \A j \in Places(t)' : j <= i
      <3>1. i \in Places(t) /\ x = Place(t, i) /\ \A j \in Places(t)' : j \in Places(t)
        BY <1>4, <1>12, <2>1
      <3>. QED BY <1>1, <1>3, <3>1 DEF QueueInv, Pc, Heard
    <2>2. ASSUME NEW d \in Clients, Pc(d)' = "connected"
          PROVE  \E i \in Places(At(d))' :
                   Place(At(d), i)' = [op |-> cl'[d].op, client |-> d, n |-> cl'[d].n, path |-> cl'[d].path]
      <3>1. cl'[d] = cl[d] /\ Pc(d) = "connected"
        BY <1>3, <2>2 DEF Pc
      <3>2. PICK t \in Servers : t = Home(cl[d].path)
        BY <1>1, <3>1, HomeIn DEF CommandInv
      <3>3. PICK i \in Places(t) :
               Place(t, i) = [op |-> cl[d].op, client |-> d, n |-> cl[d].n, path |-> cl[d].path]
        BY <1>1, <3>1, <3>2 DEF QueueInv, At
      <3>4. t = s => i # 0
        <4>1. ASSUME t = s, i = 0 PROVE FALSE
          <5>1. m.n = cl[d].n
            BY <1>4, <3>3, <4>1
          <5>. QED BY <1>1, <1>3, <3>1, <5>1 DEF CommandInv
        <4>. QED BY <4>1
      <3>5. \E j \in Places(t)' :
              Place(t, j)' = [op |-> cl'[d].op, client |-> d, n |-> cl'[d].n, path |-> cl'[d].path]
        BY <1>4, <1>12, <3>1, <3>3, <3>4
      <3>6. t = Home(cl'[d].path)
        BY <3>1, <3>2
      <3>. QED BY <3>5, <3>6 DEF At
    <2>. QED BY <2>1, <2>2 DEF QueueInv
  <1>14. SlockInv'
    BY <1>1, <1>4, <1>9 DEF SlockInv, Nobody
  <1>15. \A p \in Paths : p # m.path =>
            Truncated(p)' = Truncated(p) /\ (Home(p) = s => ~Truncated(p))
    BY <1>2, <1>3, <1>4, <1>9, HomeIn DEF Truncated, Nobody
  <1>16. LatestInv'
    <2>1. ASSUME NEW p \in Paths \ Destinations
          PROVE  /\ \A i \in Writes(p)' :
                      (\A j \in Writes(p)' : j <= i) => Outcome(Place(Home(p), i))' = latest'[p]
                 /\ Writes(p)' = {} => file'[p] = latest'[p] \/ Truncated(p)'
      <3>1. PICK t \in Servers : t = Home(p)
        BY HomeIn
      <3>2. CASE t # s
        <4>1. p # m.path
          BY <1>5, <3>1, <3>2
        <4>2. /\ Writes(p)' = Writes(p)
              /\ \A i \in Writes(p) : Outcome(Place(Home(p), i))' = Outcome(Place(Home(p), i))
          BY <1>3, <1>12, <3>1, <3>2 DEF Writes, Heard, Outcome
        <4>3. latest'[p] = latest[p] /\ (Writes(p) = {} => file'[p] = latest[p] \/ Truncated(p)')
          BY <1>1, <1>3, <1>7, <1>15, <4>1 DEF LatestInv
        <4>. QED BY <1>1, <4>2, <4>3, LatestKept
      <3>3. CASE t = s
        <4>1. \A i : i \in Writes(p)' <=> i \in Writes(p) /\ i # 0
          BY <1>3, <1>4, <3>1, <3>3 DEF Writes, Heard
        <4>2. ASSUME NEW i \in Writes(p)', \A j \in Writes(p)' : j <= i
              PROVE  Outcome(Place(Home(p), i))' = latest'[p]
          <5>1. i \in Writes(p) /\ i \in Places(s) /\ i \in Places(s)' /\ i \in Nat /\ Place(s, i)' = Place(s, i)
            BY <1>4, <3>1, <3>3, <4>1, <4>2 DEF Writes
          <5>2. \A j \in Writes(p) : j <= i
            BY <4>1, <4>2, <5>1
          <5>3. Outcome(Place(s, i)) = latest[p]
            BY <1>1, <3>1, <3>3, <5>1, <5>2 DEF LatestInv
          <5>. QED BY <1>3, <3>1, <3>3, <5>1, <5>3 DEF Outcome
        <4>3. ASSUME Writes(p)' = {}
              PROVE  file'[p] = latest'[p] \/ Truncated(p)'
          <5>1. \A i \in Writes(p) : i = 0
            BY <4>1, <4>3
          <5>2. CASE p = m.path
            <6>1. 0 \in Writes(p) /\ \A i \in Writes(p) : i <= 0
              BY <1>4, <1>5, <3>1, <3>3, <5>1, <5>2 DEF Writes
            <6>2. Outcome(m) = latest[p]
              BY <1>1, <1>4, <3>1, <3>3, <6>1 DEF LatestInv
            <6>. QED BY <1>3, <1>7, <5>2, <6>2
          <5>3. CASE p # m.path
            <6>1. Writes(p) = {}
              BY <1>4, <3>1, <3>3, <5>1, <5>3 DEF Writes
            <6>. QED BY <1>1, <1>3, <1>7, <1>15, <5>3, <6>1 DEF LatestInv
          <5>. QED BY <5>2, <5>3
        <4>. QED BY <4>2, <4>3
      <3>. QED BY <3>2, <3>3
    <2>. QED BY <2>1 DEF LatestInv
  <1>17. WholeInv'
    BY <1>1, <1>7, <1>8, <1>15 DEF WholeInv
  <1>18. ReadLatest'
    BY <1>1, <1>3, ReadFrame
  <1>19. CopyInv'
    <2>1. \A p \in Paths : /\ file'[p] = file[p] \/ p \in Writable
                           /\ complete[p] \subseteq complete'[p]
      BY <1>5, <1>7, <1>8
    <2>. QED BY <1>1, <1>3, <2>1, CopyFrame
  <1>. QED BY <1>10, <1>11, <1>13, <1>14, <1>16, <1>17, <1>18, <1>19 DEF DataInv, PathInv

-----------------------------------------------------------------------------
(* copyfile's steps.                                                        *)

LEMMA OneItem ==
    ASSUME NEW S, NEW q \in Seq(S), Len(q) = 1
    PROVE  Head(q) = q[1] /\ q[1] \in S /\ Tail(q) = <<>>
  <1>1. Head(q) = q[1] /\ q[1] \in S /\ Tail(q) \in Seq(S) /\ Len(Tail(q)) = 0
    OBVIOUS
  <1>. QED BY <1>1, EmptySeq

\* Nobody else copies: what a step leaves for the client that does is enough.
LEMMA CopyOf ==
    ASSUME OneCopier, CopyInv, NEW c \in Clients, cl[c].op = "copyfile",
           \A d \in Clients : d # c => cl'[d] = cl[d],
           cl'[c].op = "copyfile" => <<cl'[c].path, cl'[c].dst>> \in Copies,
           Copying(c)' => cl'[c].op = "copyfile",
           req' \in [Servers -> Seq(Messages)], rep' \in [Servers -> Seq(Contents \cup {Ack})],
           IF Pc(c)' = "lock2" THEN temp' = cl'[c].got ELSE temp' = Absent,
           \A t \in Servers : Uses(c, t)' \/ (req'[t] = <<>> /\ rep'[t] = <<>>),
           Pc(c)' = "reading" =>
             \/ /\ req'[Home(cl'[c].path)] = <<[op |-> "copyfileread", path |-> cl'[c].path]>>
                /\ rep'[Home(cl'[c].path)] = <<>>
             \/ /\ req'[Home(cl'[c].path)] = <<>> /\ Len(rep'[Home(cl'[c].path)]) = 1
                /\ rep'[Home(cl'[c].path)][1] \in complete'[cl'[c].path],
           Pc(c)' = "written" =>
             \/ /\ WriteRequest(req'[Home(cl'[c].dst)], cl'[c].dst, cl'[c].got)
                /\ rep'[Home(cl'[c].dst)] = <<>>
             \/ /\ req'[Home(cl'[c].dst)] = <<>> /\ Len(rep'[Home(cl'[c].dst)]) = 1
                /\ Apart => file'[cl'[c].dst] = cl'[c].got,
           Apart /\ Pc(c)' = "copied" => file'[cl'[c].dst] = cl'[c].got,
           Pc(c)' \in {"lock2", "written", "copied"} => cl'[c].got \in complete'[cl'[c].path]
    PROVE  CopyInv'
  <1>1. \A d \in Clients : d # c => ~Copying(d)
    BY DEF OneCopier, CopyInv
  <1>2. \A d \in Clients : d # c => Pc(d)' \notin {"reading", "lock2", "written", "copied"}
    BY <1>1 DEF Copying, Pc
  <1>3. \A d \in Clients : cl'[d].op = "copyfile" => d \in Copiers /\ <<cl'[d].path, cl'[d].dst>> \in Copies
    BY DEF CopyInv
  <1>4. \A d \in Clients : Copying(d)' => cl'[d].op = "copyfile"
    BY <1>2 DEF Copying
  <1>5. /\ \A d \in Clients : Pc(d)' = "lock2" => temp' = cl'[d].got
        /\ (\A d \in Clients : Pc(d)' # "lock2") => temp' = Absent
    BY <1>2
  <1>6. \A t \in Servers : (\A d \in Clients : ~Uses(d, t)') => req'[t] = <<>> /\ rep'[t] = <<>>
    OBVIOUS
  <1>7. ASSUME NEW d \in Clients, Pc(d)' = "reading"
        PROVE  \/ /\ req'[At(d)'] = <<[op |-> "copyfileread", path |-> cl'[d].path]>>
                  /\ rep'[At(d)'] = <<>>
               \/ /\ req'[At(d)'] = <<>> /\ Len(rep'[At(d)']) = 1
                  /\ rep'[At(d)'][1] \in complete'[cl'[d].path]
    BY <1>2, <1>7 DEF At
  <1>8. ASSUME NEW d \in Clients, Pc(d)' = "written"
        PROVE  \/ /\ WriteRequest(req'[Home(cl'[d].dst)], cl'[d].dst, cl'[d].got)
                  /\ rep'[Home(cl'[d].dst)] = <<>>
               \/ /\ req'[Home(cl'[d].dst)] = <<>> /\ Len(rep'[Home(cl'[d].dst)]) = 1
                  /\ Apart => file'[cl'[d].dst] = cl'[d].got
    BY <1>2, <1>8
  <1>9. (Apart => CopyExact)' /\ CopyUntorn'
    BY <1>2 DEF CopyExact, CopyUntorn, Apart
  <1>. QED BY <1>3, <1>4, <1>5, <1>6, <1>7, <1>8, <1>9 DEF CopyInv

\* What clients read and write is left alone.
LEMMA PathKept ==
    ASSUME PathInv, NEW c \in Clients, Types', CommandInv', BlockInv',
           Pc(c) # "connected", Pc(c)' \notin {"connected", "stop"},
           \A d \in Clients : d # c => cl'[d] = cl[d],
           UNCHANGED <<file, waiting, slock, runner, sent, cmds, latest, complete>>
    PROVE  PathInv'
  <1>1. QueueInv'
    <2>1. \A d \in Clients : Pc(d) = "connected" \/ Pc(d)' = "connected" => cl'[d] = cl[d]
      OBVIOUS
    <2>2. cmds \in Nat
      BY DataPathAssumption DEF PathInv, Types
    <2>. QED BY <2>1, <2>2, QueueFrame DEF Cmds, PathInv
  <1>2. LatestInv' /\ WholeInv' /\ SlockInv'
    BY LatestFrame, WholeFrame DEF SlockInv, PathInv
  <1>3. ReadLatest'
    BY ReadFrame DEF PathInv
  <1>. QED BY <1>1, <1>2, <1>3 DEF PathInv

LEMMA PathStill ==
    ASSUME PathInv, UNCHANGED <<file, block, waiting, slock, runner, cl, sent, cmds, latest, complete>>
    PROVE  PathInv'
  <1>1. Types'
    BY DEF PathInv, Types
  <1>2. CommandInv' /\ BlockInv'
    BY DEF PathInv, CommandInv, BlockInv, Pc, At
  <1>3. QueueInv'
    BY DEF PathInv, QueueInv, Pc, At, Places, Place, Heard
  <1>4. SlockInv' /\ LatestInv' /\ WholeInv'
    BY LatestFrame, WholeFrame DEF PathInv, SlockInv
  <1>5. ReadLatest'
    BY ReadFrame DEF PathInv
  <1>. QED BY <1>1, <1>2, <1>3, <1>4, <1>5 DEF PathInv

LEMMA CommandMoves ==
    ASSUME PathInv, NEW c \in Clients, Pc(c) # "idle", Pc(c)' \notin {"lock", "told", "connected", "stop"},
           \/ cl'[c].pc = "idle" /\ cl'[c].op = "none"
           \/ cl'[c].n = cl[c].n /\ cl'[c].op = cl[c].op /\ cl'[c].path = cl[c].path,
           \A d \in Clients : d # c => cl'[d] = cl[d], UNCHANGED <<sent, cmds>>
    PROVE  CommandInv'
  <1>1. \A n \in Cmds : sent'[n] = sent[n]
    OBVIOUS
  <1>2. cmds \in 0 .. MaxCmds /\ MaxCmds \in Nat /\ cmds' = cmds
    BY DataPathAssumption DEF PathInv, Types
  <1>3. CommandInv
    BY DEF PathInv
  <1>. QED BY <1>1, <1>2, <1>3, CommandKept DEF Pc

\* A client that is at copyfile, and the storage servers it uses.
LEMMA CopyFacts ==
    ASSUME OneCopier, DataInv, NEW c \in Clients, cl[c].op = "copyfile"
    PROVE  /\ <<cl[c].path, cl[c].dst>> \in Copies
           /\ cl[c].path \in Paths /\ cl[c].dst \in Paths /\ cl[c].dst \in Destinations
           /\ Home(cl[c].path) \in Servers /\ Home(cl[c].dst) \in Servers
           /\ \A s \in Servers : ~Uses(c, s) => req[s] = <<>> /\ rep[s] = <<>>
           /\ Pc(c) # "lock2" => temp = Absent
  <1>1. CopyInv
    BY DEF DataInv
  <1>2. <<cl[c].path, cl[c].dst>> \in Copies
    BY <1>1 DEF CopyInv
  <1>3. \A a, b : <<a, b>> \in Copies => a \in Paths /\ b \in Paths /\ b \in Destinations
    BY DataPathAssumption DEF Destinations
  <1>4. cl[c].path \in Paths /\ cl[c].dst \in Paths /\ cl[c].dst \in Destinations
    BY <1>2, <1>3
  <1>5. \A d \in Clients : d # c => Pc(d) \notin {"reading", "lock2", "written", "copied"}
    BY <1>1 DEF CopyInv, OneCopier, Copying
  <1>6. \A s \in Servers : ~Uses(c, s) => req[s] = <<>> /\ rep[s] = <<>>
    <2>1. \A d \in Clients, s \in Servers : d # c => ~Uses(d, s)
      BY <1>5 DEF Uses
    <2>2. \A s \in Servers : (\A d \in Clients : ~Uses(d, s)) => req[s] = <<>> /\ rep[s] = <<>>
      BY <1>1 DEF CopyInv
    <2>. QED BY <2>1, <2>2
  <1>7. Pc(c) # "lock2" => temp = Absent
    BY <1>1, <1>5 DEF CopyInv
  <1>. QED BY <1>2, <1>4, <1>6, <1>7, HomeIn

LEMMA AskReadStep ==
    ASSUME OneCopier, DataInv, NEW c \in Clients, AskRead(c)
    PROVE  DataInv'
  <1>1. PathInv /\ CopyInv /\ Types /\ CommandInv /\ BlockInv
    BY DEF DataInv, PathInv
  <1>2. /\ Go(c, "reading") /\ Pc(c) = "lock" /\ cl[c].op = "copyfile" /\ Take(c, At(c))
        /\ UNCHANGED <<file, temp, rep, waiting, slock, runner, sent, cmds, up, latest, complete>>
    BY DEF AskRead
  <1>3. PICK s \in Servers : s = At(c) /\ s = Home(cl[c].path)
    BY <1>2, CopyFacts DEF At
  <1>4. /\ cl' \in [Clients -> States]
        /\ cl'[c].pc = "reading" /\ cl'[c].op = cl[c].op /\ cl'[c].n = cl[c].n
        /\ cl'[c].path = cl[c].path /\ cl'[c].dst = cl[c].dst /\ cl'[c].got = cl[c].got
        /\ \A d \in Clients : d # c => cl'[d] = cl[d]
    BY <1>1, <1>2, GoMoves DEF Stages
  <1>5. /\ block' \in [Servers -> Clients \cup {Nobody}] /\ block[s] = Nobody /\ block'[s] = c
        /\ \A t \in Servers : t # s => block'[t] = block[t]
    BY <1>1, <1>2, <1>3, TakeMoves
  <1>6. Types'
    BY <1>1, <1>2, <1>4, <1>5 DEF Types
  <1>7. CommandInv'
    BY <1>1, <1>2, <1>4, CommandMoves DEF Pc
  <1>8. BlockInv'
    <2>1. block'[At(c)'] = c
      BY <1>3, <1>4, <1>5 DEF At
    <2>2. \A t \in Servers : block'[t] = block[t] \/ block[t] \in {c, Nobody}
      BY <1>5
    <2>. QED BY <1>1, <1>4, <2>1, <2>2, BlockKept
  <1>9. PathInv'
    BY <1>1, <1>2, <1>4, <1>6, <1>7, <1>8, PathKept DEF Pc
  <1>10. CopyInv'
    <2>1. req[s] = <<>> /\ rep[s] = <<>> /\ temp = Absent /\ cl[c].path \in Paths
          /\ \A t \in Servers : req[t] = <<>> /\ rep[t] = <<>>
          /\ <<cl[c].path, cl[c].dst>> \in Copies
      BY <1>2, CopyFacts DEF Uses
    <2>2. PICK m \in Messages : m = [op |-> "copyfileread", path |-> cl[c].path]
      BY <2>1 DEF Messages
    <2>3. req' = [req EXCEPT ![s] = Append(@, m)]
      BY <1>3, <2>2 DEF AskRead
    <2>4. /\ req' \in [Servers -> Seq(Messages)] /\ req'[s] = <<m>>
          /\ \A t \in Servers : t # s => req'[t] = req[t]
      BY <1>1, <2>1, <2>3 DEF CopyInv
    <2>5. \A t \in Servers : Uses(c, t)' \/ (req'[t] = <<>> /\ rep'[t] = <<>>)
      BY <1>2, <1>3, <1>4, <2>1, <2>4 DEF Uses, At, Pc
    <2>6. rep' \in [Servers -> Seq(Contents \cup {Ack})] /\ temp' = Absent
      BY <1>1, <1>2, <2>1 DEF CopyInv
    <2>7. req'[Home(cl'[c].path)] = <<[op |-> "copyfileread", path |-> cl'[c].path]>>
          /\ rep'[Home(cl'[c].path)] = <<>>
      BY <1>2, <1>3, <1>4, <2>1, <2>2, <2>4
    <2>. QED BY <1>1, <1>2, <1>4, <2>1, <2>4, <2>5, <2>6, <2>7, CopyOf DEF Pc
  <1>. QED BY <1>9, <1>10 DEF DataInv

LEMMA KeepTextStep ==
    ASSUME OneCopier, DataInv, NEW c \in Clients, KeepText(c)
    PROVE  DataInv'
  <1>1. PathInv /\ CopyInv /\ Types /\ CommandInv /\ BlockInv
    BY DEF DataInv, PathInv
  <1>2. /\ Pc(c) = "reading" /\ rep[At(c)] # <<>> /\ Post(At(c))
        /\ UNCHANGED <<file, req, waiting, slock, runner, sent, cmds, up, latest, complete>>
    BY DEF KeepText
  <1>3. cl[c].op = "copyfile"
    BY <1>1, <1>2 DEF CopyInv, Copying
  <1>4. PICK s \in Servers : s = At(c) /\ s = Home(cl[c].path)
    BY <1>3, CopyFacts DEF At
  <1>5. <<cl[c].path, cl[c].dst>> \in Copies /\ cl[c].path \in Paths /\ temp = Absent
        /\ \A t \in Servers : t # s => req[t] = <<>> /\ rep[t] = <<>>
    BY <1>2, <1>3, <1>4, CopyFacts DEF Uses
  <1>6. req[s] = <<>> /\ Len(rep[s]) = 1 /\ rep[s][1] \in complete[cl[c].path]
        /\ rep[s] \in Seq(Contents \cup {Ack})
    BY <1>1, <1>2, <1>4 DEF CopyInv
  <1>7. PICK text \in Contents : text = rep[s][1] /\ Head(rep[s]) = text /\ Tail(rep[s]) = <<>>
                                  /\ text \in complete[cl[c].path]
    <2>1. complete[cl[c].path] \subseteq Contents
      BY <1>1, <1>5 DEF Types
    <2>. QED BY <1>6, <2>1, OneItem
  <1>8. /\ temp' = text /\ rep' = [rep EXCEPT ![s] = Tail(@)]
        /\ cl' = [cl EXCEPT ![c].pc = "lock2", ![c].got = text]
    BY <1>4, <1>5, <1>7 DEF KeepText
  <1>9. /\ cl' \in [Clients -> States]
        /\ cl'[c].pc = "lock2" /\ cl'[c].op = cl[c].op /\ cl'[c].n = cl[c].n
        /\ cl'[c].path = cl[c].path /\ cl'[c].dst = cl[c].dst /\ cl'[c].got = text
        /\ \A d \in Clients : d # c => cl'[d] = cl[d]
    BY <1>1, <1>8, GotMoves DEF Stages
  <1>10. /\ block' \in [Servers -> Clients \cup {Nobody}] /\ block[s] = c
         /\ \A t \in Servers : t # s => block'[t] = block[t]
    BY <1>1, <1>2, <1>4, PostMoves DEF BlockInv
  <1>11. Types'
    BY <1>1, <1>2, <1>9, <1>10 DEF Types
  <1>12. CommandInv'
    BY <1>1, <1>2, <1>9, CommandMoves DEF Pc
  <1>13. BlockInv'
    <2>1. \A t \in Servers : block'[t] = block[t] \/ block[t] \in {c, Nobody}
      BY <1>10
    <2>. QED BY <1>1, <1>9, <2>1, BlockKept DEF Pc
  <1>14. PathInv'
    BY <1>1, <1>2, <1>9, <1>11, <1>12, <1>13, PathKept DEF Pc
  <1>15. CopyInv'
    <2>. <<>> \in Seq(Contents \cup {Ack}) /\ rep \in [Servers -> Seq(Contents \cup {Ack})]
      BY <1>1 DEF CopyInv
    <2>1. /\ rep' \in [Servers -> Seq(Contents \cup {Ack})] /\ rep'[s] = <<>>
          /\ \A t \in Servers : t # s => rep'[t] = rep[t]
      BY <1>7, <1>8
    <2>2. \A t \in Servers : req'[t] = <<>> /\ rep'[t] = <<>>
      BY <1>2, <1>5, <1>6, <2>1
    <2>3. req' \in [Servers -> Seq(Messages)]
      BY <1>1, <1>2 DEF CopyInv
    <2>4. temp' = cl'[c].got /\ cl'[c].got \in complete'[cl'[c].path]
      BY <1>2, <1>7, <1>8, <1>9
    <2>. QED BY <1>1, <1>3, <1>5, <1>9, <2>1, <2>2, <2>3, <2>4, CopyOf DEF Pc
  <1>. QED BY <1>14, <1>15 DEF DataInv

LEMMA CopyDoneStep ==
    ASSUME OneCopier, DataInv, NEW c \in Clients, CopyDone(c)
    PROVE  DataInv'
  <1>1. PathInv /\ CopyInv /\ Types /\ CommandInv /\ BlockInv
    BY DEF DataInv, PathInv
  <1>2. /\ Pc(c) = "written" /\ rep[Home(cl[c].dst)] # <<>> /\ Go(c, "copied")
        /\ rep' = [rep EXCEPT ![Home(cl[c].dst)] = Tail(@)]
        /\ UNCHANGED <<file, temp, block, req, waiting, slock, runner, sent, cmds, up, latest, complete>>
    BY DEF CopyDone
  <1>3. cl[c].op = "copyfile"
    BY <1>1, <1>2 DEF CopyInv, Copying
  <1>4. PICK s \in Servers : s = Home(cl[c].dst)
    BY <1>3, CopyFacts
  <1>5. <<cl[c].path, cl[c].dst>> \in Copies /\ cl[c].path \in Paths /\ temp = Absent
        /\ \A t \in Servers : t # s => req[t] = <<>> /\ rep[t] = <<>>
    BY <1>2, <1>3, <1>4, CopyFacts DEF Uses
  <1>6. req[s] = <<>> /\ Len(rep[s]) = 1 /\ (Apart => file[cl[c].dst] = cl[c].got)
        /\ rep[s] \in Seq(Contents \cup {Ack}) /\ cl[c].got \in complete[cl[c].path]
    BY <1>1, <1>2, <1>4 DEF CopyInv, CopyUntorn
  <1>7. /\ cl' \in [Clients -> States]
        /\ cl'[c].pc = "copied" /\ cl'[c].op = cl[c].op /\ cl'[c].n = cl[c].n
        /\ cl'[c].path = cl[c].path /\ cl'[c].dst = cl[c].dst /\ cl'[c].got = cl[c].got
        /\ \A d \in Clients : d # c => cl'[d] = cl[d]
    BY <1>1, <1>2, GoMoves DEF Stages
  <1>8. Types'
    BY <1>1, <1>2, <1>7 DEF Types
  <1>9. CommandInv'
    BY <1>1, <1>2, <1>7, CommandMoves DEF Pc
  <1>10. BlockInv'
    BY <1>1, <1>2, <1>7, BlockKept DEF Pc
  <1>11. PathInv'
    BY <1>1, <1>2, <1>7, <1>8, <1>9, <1>10, PathKept DEF Pc
  <1>12. CopyInv'
    <2>1. Tail(rep[s]) = <<>>
      BY <1>6, OneItem
    <2>2. /\ rep' \in [Servers -> Seq(Contents \cup {Ack})] /\ rep'[s] = <<>>
          /\ \A t \in Servers : t # s => rep'[t] = rep[t]
      BY <1>1, <1>2, <1>4, <2>1 DEF CopyInv
    <2>3. \A t \in Servers : req'[t] = <<>> /\ rep'[t] = <<>>
      BY <1>2, <1>5, <1>6, <2>2
    <2>4. req' \in [Servers -> Seq(Messages)] /\ temp' = Absent
      BY <1>1, <1>2, <1>5 DEF CopyInv
    <2>5. /\ cl'[c].got \in complete'[cl'[c].path]
          /\ Apart => file'[cl'[c].dst] = cl'[c].got
      BY <1>2, <1>6, <1>7
    <2>. QED BY <1>1, <1>3, <1>5, <1>7, <2>2, <2>3, <2>4, <2>5, CopyOf DEF Pc
  <1>. QED BY <1>11, <1>12 DEF DataInv

LEMMA AnsweredStep ==
    ASSUME OneCopier, DataInv, NEW c \in Clients, Answered(c)
    PROVE  DataInv'
  <1>1. PathInv /\ CopyInv /\ Types /\ CommandInv /\ BlockInv
    BY DEF DataInv, PathInv
  <1>2. /\ Pc(c) = "copied" /\ cl' = [cl EXCEPT ![c] = Idle]
        /\ UNCHANGED <<file, temp, block, req, rep, waiting, slock, runner, sent, cmds, up, latest, complete>>
    BY DEF Answered
  <1>3. cl[c].op = "copyfile"
    BY <1>1, <1>2 DEF CopyInv, Copying
  <1>4. /\ cl' \in [Clients -> States] /\ cl'[c].pc = "idle" /\ cl'[c].op = "none"
        /\ \A d \in Clients : d # c => cl'[d] = cl[d]
    BY <1>1, <1>2, ClMoves, IdleIs
  <1>5. Types'
    BY <1>1, <1>2, <1>4 DEF Types
  <1>6. CommandInv'
    BY <1>1, <1>2, <1>4, CommandMoves DEF Pc
  <1>7. BlockInv'
    BY <1>1, <1>2, <1>4, BlockKept DEF Pc
  <1>8. PathInv'
    BY <1>1, <1>2, <1>4, <1>5, <1>6, <1>7, PathKept DEF Pc
  <1>9. CopyInv'
    <2>1. \A t \in Servers : req'[t] = <<>> /\ rep'[t] = <<>>
      BY <1>2, <1>3, CopyFacts DEF Uses
    <2>2. /\ req' \in [Servers -> Seq(Messages)] /\ temp' = Absent
          /\ rep' \in [Servers -> Seq(Contents \cup {Ack})]
      BY <1>1, <1>2, <1>3, CopyFacts DEF CopyInv
    <2>3. Pc(c)' = "idle" /\ ~Copying(c)'
      BY <1>4 DEF Pc, Copying
    <2>. QED BY <1>1, <1>3, <1>4, <2>1, <2>2, <2>3, CopyOf
  <1>. QED BY <1>8, <1>9 DEF DataInv

LEMMA AbsentIs == Absent \notin Contents
  <1>1. SUFFICES ASSUME <<-1>> \in Seq(Texts) PROVE FALSE
    BY DEF Absent, Contents
  <1>2. <<-1>>[1] \in Texts
    BY <1>1
  <1>. QED BY <1>2, DataPathAssumption DEF Texts

LEMMA TextSent ==
    ASSUME NEW p \in Paths, NEW text \in Contents, NEW q,
           q = Append(<<>>, [op |-> "copyfilewrite", path |-> p, size |-> Len(text)])
                 \o [k \in DOMAIN text |-> [op |-> "text", n |-> text[k]]]
    PROVE  q \in Seq(Messages) /\ WriteRequest(q, p, text)
  <1>1. text \in Seq(Texts) /\ Len(text) \in Nat /\ DOMAIN text = 1 .. Len(text)
        /\ \A k \in 1 .. Len(text) : text[k] \in Texts
    BY DEF Contents
  <1>2. PICK h \in Messages : h = [op |-> "copyfilewrite", path |-> p, size |-> Len(text)]
    BY <1>1 DEF Messages
  <1>3. PICK t : t = [k \in 1 .. Len(text) |-> [op |-> "text", n |-> text[k]]]
    OBVIOUS
  <1>4. \A k \in 1 .. Len(text) : [op |-> "text", n |-> text[k]] \in Messages
    BY <1>1 DEF Messages
  <1>5. t \in Seq(Messages) /\ Len(t) = Len(text) /\ \A k \in 1 .. Len(text) : t[k].n = text[k]
    <2>1. t \in [1 .. Len(text) -> Messages]
      BY <1>3, <1>4
    <2>2. \A k \in 1 .. Len(text) : t[k].n = text[k]
      BY <1>3
    <2>3. t \in Seq(Messages)
      BY <1>1, <2>1
    <2>4. DOMAIN t = 1 .. Len(text)
      BY <2>1
    <2>5. Len(t) = Len(text)
      BY <1>1, <2>3, <2>4, LenProperties
    <2>. QED BY <2>2, <2>3, <2>5
  <1>6. q = <<h>> \o t
    BY <1>1, <1>2, <1>3
  <1>7. <<h>> \in Seq(Messages) /\ Len(<<h>>) = 1
    OBVIOUS
  <1>8. /\ q \in Seq(Messages) /\ Len(q) = 1 + Len(text)
        /\ \A i \in 1 .. Len(q) : q[i] = IF i <= 1 THEN <<h>>[i] ELSE t[i - 1]
    <2>1. /\ <<h>> \o t \in Seq(Messages) /\ Len(<<h>> \o t) = Len(<<h>>) + Len(t)
          /\ \A i \in 1 .. Len(<<h>>) + Len(t) :
                (<<h>> \o t)[i] = IF i <= Len(<<h>>) THEN <<h>>[i] ELSE t[i - Len(<<h>>)]
      BY <1>5, <1>7, ConcatProperties
    <2>. QED BY <1>5, <1>6, <1>7, <2>1
  <1>9. q[1] = h
    <2>1. 1 \in 1 .. Len(q)
      BY <1>1, <1>8
    <2>2. q[1] = IF 1 <= 1 THEN <<h>>[1] ELSE t[1 - 1]
      BY <1>8, <2>1
    <2>3. 1 <= 1 /\ <<h>>[1] = h
      OBVIOUS
    <2>. QED BY <2>2, <2>3
  <1>10. \A k \in 1 .. Len(text) : q[k + 1].n = text[k]
    <2>1. \A k \in 1 .. Len(text) : k + 1 \in 1 .. Len(q) /\ ~(k + 1 <= 1) /\ (k + 1) - 1 = k
      BY <1>1, <1>8
    <2>2. \A k \in 1 .. Len(text) : q[k + 1] = t[k]
      BY <1>8, <2>1
    <2>. QED BY <1>5, <2>2
  <1>. QED BY <1>1, <1>2, <1>8, <1>9, <1>10 DEF WriteRequest

\* What was sent is what is received.
LEMMA TextReceived ==
    ASSUME NEW s, NEW p, NEW text \in Contents, WriteRequest(req[s], p, text)
    PROVE  Received(s, Len(text)) = text
  <1>1. text \in Seq(Texts) /\ Len(text) \in Nat
    BY DEF Contents
  <1>2. text = [k \in 1 .. Len(text) |-> text[k]]
    BY <1>1, LenProperties
  <1>3. \A k \in 1 .. Len(text) : req[s][k + 1].n = text[k]
    BY DEF WriteRequest
  <1>. QED BY <1>2, <1>3 DEF Received

LEMMA SendTextStep ==
    ASSUME OneCopier, DataInv, NEW c \in Clients, SendText(c)
    PROVE  DataInv'
  <1>1. PathInv /\ CopyInv /\ Types /\ CommandInv /\ BlockInv
    BY DEF DataInv, PathInv
  <1>2. /\ Pc(c) = "lock2" /\ Go(c, "written") /\ block' = block /\ temp' = Absent
        /\ UNCHANGED <<file, rep, waiting, slock, runner, sent, cmds, latest, complete>>
    BY DEF SendText, Removed
  <1>3. cl[c].op = "copyfile" /\ temp = cl[c].got /\ cl[c].got \in complete[cl[c].path]
    BY <1>1, <1>2 DEF CopyInv, Copying, CopyUntorn
  <1>4. PICK s \in Servers : s = Home(cl[c].dst)
    BY <1>3, CopyFacts
  <1>5. <<cl[c].path, cl[c].dst>> \in Copies /\ cl[c].path \in Paths /\ cl[c].dst \in Paths
        /\ \A t \in Servers : req[t] = <<>> /\ rep[t] = <<>>
    BY <1>2, <1>3, CopyFacts DEF Uses
  <1>6. temp \in Contents /\ temp # Absent
    <2>1. cl[c].got \in Contents
      BY <1>1 DEF Types, States
    <2>. QED BY <1>3, <2>1, AbsentIs
  <1>7. PICK p \in Paths : p = cl[c].dst
    BY <1>5
  <1>8. PICK text \in Contents : text = temp
    BY <1>6
  <1>9. PICK q : q = Append(<<>>, [op |-> "copyfilewrite", path |-> p, size |-> Len(text)])
                      \o [k \in DOMAIN text |-> [op |-> "text", n |-> text[k]]]
    OBVIOUS
  <1>10. q \in Seq(Messages) /\ WriteRequest(q, p, text)
    BY <1>9, TextSent
  <1>11. req' = [req EXCEPT ![s] = q]
    BY <1>3, <1>4, <1>5, <1>6, <1>7, <1>8, <1>9 DEF SendText
  <1>12. /\ cl' \in [Clients -> States]
         /\ cl'[c].pc = "written" /\ cl'[c].op = cl[c].op /\ cl'[c].n = cl[c].n
         /\ cl'[c].path = cl[c].path /\ cl'[c].dst = cl[c].dst /\ cl'[c].got = cl[c].got
         /\ \A d \in Clients : d # c => cl'[d] = cl[d]
    BY <1>1, <1>2, GoMoves DEF Stages
  <1>13. Types'
    BY <1>1, <1>2, <1>12 DEF Types
  <1>14. CommandInv'
    BY <1>1, <1>2, <1>12, CommandMoves DEF Pc
  <1>15. BlockInv'
    BY <1>1, <1>2, <1>12, BlockKept DEF Pc
  <1>16. PathInv'
    BY <1>1, <1>2, <1>12, <1>13, <1>14, <1>15, PathKept DEF Pc
  <1>17. CopyInv'
    <2>. req \in [Servers -> Seq(Messages)] /\ rep \in [Servers -> Seq(Contents \cup {Ack})]
      BY <1>1 DEF CopyInv
    <2>1. /\ req' \in [Servers -> Seq(Messages)] /\ req'[s] = q
          /\ \A t \in Servers : t # s => req'[t] = req[t]
      BY <1>10, <1>11
    <2>2. rep' \in [Servers -> Seq(Contents \cup {Ack})] /\ \A t \in Servers : rep'[t] = <<>>
      BY <1>2, <1>5
    <2>3. \A t \in Servers : Uses(c, t)' \/ (req'[t] = <<>> /\ rep'[t] = <<>>)
      BY <1>4, <1>5, <1>12, <2>1, <2>2 DEF Uses, Pc
    <2>4. WriteRequest(req'[Home(cl'[c].dst)], cl'[c].dst, cl'[c].got) /\ rep'[Home(cl'[c].dst)] = <<>>
      BY <1>3, <1>4, <1>7, <1>8, <1>10, <1>12, <2>1, <2>2
    <2>5. cl'[c].got \in complete'[cl'[c].path]
      BY <1>2, <1>3, <1>12
    <2>. QED BY <1>1, <1>2, <1>3, <1>5, <1>12, <2>1, <2>2, <2>3, <2>4, <2>5, CopyOf DEF Pc
  <1>. QED BY <1>16, <1>17 DEF DataInv

\* NM_runner.
LEMMA NmServeStep ==
    ASSUME OneCopier, DataInv, NEW s \in Servers, NmServe(s)
    PROVE  DataInv'
  <1>1. PathInv /\ CopyInv /\ Types /\ WholeInv
    BY DEF DataInv, PathInv
  <1>2. /\ req[s] # <<>> /\ slock[s] = Nobody
        /\ UNCHANGED <<temp, block, waiting, slock, runner, cl, sent, cmds, up, latest>>
    BY DEF NmServe, Free
  <1>. req \in [Servers -> Seq(Messages)] /\ rep \in [Servers -> Seq(Contents \cup {Ack})]
    BY <1>1 DEF CopyInv
  <1>3. PICK c \in Clients : Uses(c, s)
    BY <1>1, <1>2 DEF CopyInv
  <1>4. Pc(c) \in {"reading", "written"} /\ cl[c].op = "copyfile"
    BY <1>1, <1>3 DEF CopyInv, Copying, Uses
  <1>5. PICK p \in Paths, x \in Paths : p = cl[c].path /\ x = cl[c].dst
    BY <1>4, CopyFacts
  <1>6. x \in Destinations /\ <<cl[c].path, cl[c].dst>> \in Copies /\ temp = Absent
        /\ \A t \in Servers : ~Uses(c, t) => req[t] = <<>> /\ rep[t] = <<>>
    BY <1>4, <1>5, CopyFacts
  <1>7. CASE Pc(c) = "reading"
    <2>1. s = Home(p)
      BY <1>3, <1>5, <1>7 DEF Uses, At
    <2>2. req[s] = <<[op |-> "copyfileread", path |-> p]>> /\ rep[s] = <<>>
      BY <1>1, <1>2, <1>5, <1>7, <2>1 DEF CopyInv, At
    <2>3. Head(req[s]) = [op |-> "copyfileread", path |-> p] /\ Tail(req[s]) = <<>>
      BY <2>2
    <2>4. /\ rep' = [rep EXCEPT ![s] = Append(@, file[p])]
          /\ req' = [req EXCEPT ![s] = <<>>]
          /\ UNCHANGED <<file, complete>>
      <3>1. Head(req[s]).op = "copyfileread" /\ Head(req[s]).path = p
        BY <2>3
      <3>2. /\ rep' = [rep EXCEPT ![s] = Append(@, file[Head(req[s]).path])]
            /\ req' = [req EXCEPT ![s] = Tail(@)]
            /\ UNCHANGED <<file, complete>>
        BY <3>1 DEF NmServe
      <3>. QED BY <2>3, <3>1, <3>2
    <2>5. PICK text \in Contents : text = file[p] /\ text \in complete[p]
      <3>1. ~Truncated(p)
        BY <1>2, <2>1 DEF Truncated, Nobody
      <3>. QED BY <1>1, <3>1 DEF WholeInv, Types
    <2>6. /\ req' \in [Servers -> Seq(Messages)] /\ req'[s] = <<>>
          /\ \A t \in Servers : t # s => req'[t] = req[t]
      BY <2>4
    <2>7. /\ rep' \in [Servers -> Seq(Contents \cup {Ack})] /\ Len(rep'[s]) = 1 /\ rep'[s][1] = text
          /\ \A t \in Servers : t # s => rep'[t] = rep[t]
      BY <2>2, <2>4, <2>5
    <2>8. PathInv'
      <3>1. UNCHANGED <<file, block, waiting, slock, runner, cl, sent, cmds, latest, complete>>
        BY <1>2, <2>4
      <3>. QED BY <1>1, <3>1, PathStill
    <2>9. CopyInv'
      <3>1. \A t \in Servers : Uses(c, t)' \/ (req'[t] = <<>> /\ rep'[t] = <<>>)
        BY <1>2, <1>3, <1>6, <2>6, <2>7 DEF Uses, Pc, At
      <3>2. /\ req'[Home(cl'[c].path)] = <<>> /\ Len(rep'[Home(cl'[c].path)]) = 1
            /\ rep'[Home(cl'[c].path)][1] \in complete'[cl'[c].path]
        BY <1>2, <1>5, <2>1, <2>4, <2>5, <2>6, <2>7
      <3>3. Pc(c)' = "reading"
        BY <1>2, <1>7 DEF Pc
      <3>. QED BY <1>1, <1>2, <1>4, <1>6, <2>6, <2>7, <3>1, <3>2, <3>3, CopyOf
    <2>. QED BY <2>8, <2>9 DEF DataInv
  <1>8. CASE Pc(c) = "written"
    <2>1. s = Home(x)
      BY <1>3, <1>5, <1>8 DEF Uses
    <2>2. PICK text \in Contents : text = cl[c].got
      BY <1>1 DEF Types, States
    <2>3. WriteRequest(req[s], x, text) /\ rep[s] = <<>>
      BY <1>1, <1>2, <1>5, <1>8, <2>1, <2>2 DEF CopyInv
    <2>4. Head(req[s]) = [op |-> "copyfilewrite", path |-> x, size |-> Len(text)]
          /\ Len(req[s]) = Len(text) + 1 /\ Len(text) \in Nat
      <3>1. Head(req[s]) = req[s][1]
        BY <1>2
      <3>2. Len(text) \in Nat
        BY DEF Contents
      <3>. QED BY <2>3, <3>1, <3>2 DEF WriteRequest
    <2>5. Received(s, Len(text)) = text
      BY <2>3, TextReceived
    <2>6. SubSeq(req[s], Len(text) + 2, Len(req[s])) = <<>>
      BY <2>4, SubSeqEmpty
    <2>7. /\ file' = [file EXCEPT ![x] = text]
          /\ complete' = [complete EXCEPT ![x] = @ \cup {file'[x]}]
          /\ rep' = [rep EXCEPT ![s] = Append(@, Ack)]
          /\ req' = [req EXCEPT ![s] = <<>>]
      BY <2>4, <2>5, <2>6 DEF NmServe
    <2>8. /\ req' \in [Servers -> Seq(Messages)] /\ req'[s] = <<>>
          /\ \A t \in Servers : t # s => req'[t] = req[t]
      BY <2>7
    <2>9. /\ rep' \in [Servers -> Seq(Contents \cup {Ack})] /\ rep'[s] = <<Ack>>
          /\ \A t \in Servers : t # s => rep'[t] = rep[t]
      BY <2>3, <2>7
    <2>10. /\ file' \in [Paths -> Contents] /\ file'[x] = text
           /\ \A q \in Paths : q # x => file'[q] = file[q]
      BY <1>1, <2>7 DEF Types
    <2>11. /\ complete' \in [Paths -> SUBSET Contents] /\ complete'[x] = complete[x] \cup {text}
           /\ \A q \in Paths : q # x => complete'[q] = complete[q]
      BY <1>1, <2>7, <2>10 DEF Types
    <2>12. PathInv'
      <3>1. Types'
        BY <1>1, <1>2, <2>10, <2>11 DEF Types
      <3>2. CommandInv' /\ BlockInv' /\ QueueInv' /\ SlockInv'
        BY <1>1, <1>2 DEF PathInv, CommandInv, BlockInv, QueueInv, SlockInv, Pc, At, Places, Place, Heard
      <3>3. LatestInv'
        BY <1>1, <1>2, <1>6, <2>10, LatestFrame DEF PathInv
      <3>4. WholeInv'
        <4>1. \A q \in Paths : /\ file'[q] = file[q] \/ file'[q] \in complete'[q]
                               /\ complete[q] \subseteq complete'[q]
          BY <2>10, <2>11
        <4>. QED BY <1>1, <1>2, <4>1, WholeFrame
      <3>5. ReadLatest'
        BY <1>1, <1>2, ReadFrame DEF PathInv
      <3>. QED BY <3>1, <3>2, <3>3, <3>4, <3>5 DEF PathInv
    <2>13. CopyInv'
      <3>1. \A t \in Servers : Uses(c, t)' \/ (req'[t] = <<>> /\ rep'[t] = <<>>)
        BY <1>2, <1>3, <1>6, <2>8, <2>9 DEF Uses, Pc, At
      <3>2. /\ req'[Home(cl'[c].dst)] = <<>> /\ Len(rep'[Home(cl'[c].dst)]) = 1
            /\ file'[cl'[c].dst] = cl'[c].got
        BY <1>2, <1>5, <2>1, <2>2, <2>8, <2>9, <2>10
      <3>3. cl'[c].got \in complete'[cl'[c].path]
        <4>1. cl[c].got \in complete[p]
          BY <1>1, <1>5, <1>8 DEF CopyInv, CopyUntorn
        <4>. QED BY <1>2, <1>5, <2>11, <4>1
      <3>4. Pc(c)' = "written"
        BY <1>2, <1>8 DEF Pc
      <3>. QED BY <1>1, <1>2, <1>4, <1>6, <2>8, <2>9, <3>1, <3>2, <3>3, <3>4, CopyOf
    <2>. QED BY <2>12, <2>13 DEF DataInv
  <1>. QED BY <1>4, <1>7, <1>8

-----------------------------------------------------------------------------
(* The theorems.                                                            *)

LEMMA InitData == Init => DataInv
  <1>. SUFFICES ASSUME Init PROVE DataInv
    OBVIOUS
  <1>1. \A c \in Clients : cl[c] = Idle /\ Pc(c) = "idle" /\ cl[c].op = "none"
    BY IdleIs DEF Init, Pc
  <1>2. <<0>> \in Contents /\ 0 \in 0 .. MaxCmds
    BY DataPathAssumption DEF Contents, Texts
  <1>3. Types
    <2>1. [p \in Paths |-> {<<0>>}] \in [Paths -> SUBSET Contents]
      BY <1>2
    <2>2. [p \in Paths |-> <<0>>] \in [Paths -> Contents]
      BY <1>2
    <2>3. [s \in Servers |-> <<>>] \in [Servers -> Seq(Connections)]
      OBVIOUS
    <2>4. [c \in Clients |-> Idle] \in [Clients -> States]
      BY IdleIs
    <2>. QED BY <1>2, <2>1, <2>2, <2>3, <2>4 DEF Init, Types
  <1>4. CommandInv /\ BlockInv /\ ReadLatest
    BY <1>1 DEF Init, CommandInv, BlockInv, ReadLatest, Pc
  <1>5. \A s \in Servers : Places(s) = {}
    BY DEF Init, Places
  <1>6. QueueInv /\ SlockInv
    BY <1>1, <1>5 DEF QueueInv, SlockInv, Init, Nobody
  <1>7. LatestInv
    BY <1>5, HomeIn DEF LatestInv, Writes, Init
  <1>8. WholeInv
    BY DEF Init, WholeInv
  <1>9. CopyInv
    <2>1. req \in [Servers -> Seq(Messages)] /\ rep \in [Servers -> Seq(Contents \cup {Ack})]
      BY DEF Init
    <2>. QED BY <1>1, <2>1 DEF Init, CopyInv, CopyExact, CopyUntorn, Copying
  <1>. QED BY <1>3, <1>4, <1>6, <1>7, <1>8, <1>9 DEF DataInv, PathInv

LEMMA DataStutters ==
    ASSUME DataInv, UNCHANGED vars
    PROVE  DataInv'
BY PathStill, CopyFrame DEF vars, DataInv

LEMMA DataStep ==
    ASSUME OneCopier, DataInv, [Next]_vars
    PROVE  DataInv'
  <1>1. ASSUME NEW c \in Clients, Begin(c) PROVE DataInv'
    BY <1>1, BeginStep
  <1>2. ASSUME NEW c \in Clients, Client(c) PROVE DataInv'
    <2>1. CASE Connect(c)
      BY <2>1, ConnectStep
    <2>2. CASE Write(c)
      BY <2>2, SpeakStep DEF Write
    <2>3. CASE Exit(c)
      BY <2>3, SpeakStep DEF Exit
    <2>. QED BY <1>2, <2>1, <2>2, <2>3 DEF Client
  <1>3. ASSUME NEW c \in Clients, Handler(c) PROVE DataInv'
    BY <1>3, ToldStep, StopStep, AskReadStep, KeepTextStep, SendTextStep, CopyDoneStep, AnsweredStep
       DEF Handler
  <1>4. ASSUME NEW s \in Servers, NmServe(s) \/ CRunner(s) PROVE DataInv'
    BY <1>4, NmServeStep, AcceptStep, ServeReadStep, OpenWriteStep, CloseWriteStep DEF CRunner
  <1>. QED BY <1>1, <1>2, <1>3, <1>4, DataStutters DEF Next

\* What the storage servers have before them, what was sent and what the paths
\* hold stay together (C_runner, NM_runner, copyfunctionality).
THEOREM DataStays == ASSUME OneCopier PROVE Spec => []DataInv
  <1>1. DataInv /\ [Next]_vars => DataInv'
    BY DataStep
  <1>. QED BY InitData, <1>1, PTL DEF Spec

\* A read returns what the last write to the path sent: C_runner takes connections
\* in turn, and block_server lets no read in before the client that writes has sent
\* its text, or has gone (Writefunctionality, write_function).
THEOREM ReadLatestHolds == ASSUME OneCopier PROVE Spec => []ReadLatest
  <1>1. DataInv => ReadLatest
    BY DEF DataInv, PathInv
  <1>. QED BY DataStays, <1>1, PTL

\* What a copy reads was never half written: NM_runner and C_runner have the lock.
THEOREM CopyUntornHolds == ASSUME OneCopier PROVE Spec => []CopyUntorn
  <1>1. DataInv => CopyUntorn
    BY DEF DataInv, CopyInv
  <1>. QED BY DataStays, <1>1, PTL

\* A copy of a file no client writes to is exact when it is answered
\* (copyfunctionality, receive_file).
THEOREM CopyExactHolds == ASSUME OneCopier, Apart PROVE Spec => []CopyExact
  <1>1. DataInv => CopyExact
    BY DEF DataInv, CopyInv
  <1>. QED BY DataStays, <1>1, PTL

=============================================================================
