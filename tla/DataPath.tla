------------------------------ MODULE DataPath ------------------------------
(***************************************************************************)
(* How the contents of files move.                                         *)
(*                                                                         *)
(* For read and write the naming server keeps block_server while the       *)
(* client talks to the storage server itself: C_runner takes the clients'  *)
(* connections one after the other.  A client that writes says stop as     *)
(* soon as it has sent its text, without hearing from the storage server.  *)
(* For copyfile the naming server reads one file and writes the other over *)
(* its own connections, which NM_runner serves, by way of its file         *)
(* temp.txt.  The two runners of a storage server share its semaphore.     *)
(*                                                                         *)
(* A text is at most one chunk and is named by the command that wrote it.  *)
(***************************************************************************)
EXTENDS Integers, Sequences

CONSTANTS
    Clients,
    Copiers,    \* clients that issue copyfile
    Paths,
    Home(_),    \* the storage server of a path
    Writable,   \* paths that clients write
    Copies,     \* pairs of a source and a destination of copyfile
    Quit,       \* clients that write may exit in between
    MaxCmds     \* bound: commands in a behaviour

ASSUME DataPathAssumption ==
    /\ Copiers \subseteq Clients /\ Writable \subseteq Paths
    /\ Copies \subseteq Paths \X Paths /\ \A pq \in Copies : pq[1] # pq[2]
    /\ Quit \in BOOLEAN /\ MaxCmds \in Nat

Servers == {Home(p) : p \in Paths}
Nobody == "nobody"
ASSUME NobodyIsNoClient == Nobody \notin Clients
Absent == <<-1>>                \* there is no temp.txt
Ack == <<-2>>                   \* an acknowledgement, or what it reads as in place of a text
None == [op |-> "none"]

Cmds == 1 .. MaxCmds
Texts == 0 .. MaxCmds           \* 0: what files hold at the start

VARIABLES
    file,       \* contents of each path, a sequence of chunks
    temp,       \* temp.txt of the naming server
    block,      \* block_server[s]: who holds it
    req, rep,   \* the naming server's connection to s, per direction
    waiting,    \* clients' connections to s that C_runner has not accepted
    slock,      \* lock of s: who holds it
    runner,     \* C_runner of s: the connection it is serving
    cl,         \* per client: its command and how far it is
    sent,       \* per command: what its client sent to the storage server
    cmds,
    up,         \* the naming server has not crashed
    latest,     \* history: what the last write to a path left there
    complete    \* history: contents a path had when nobody was writing it

vars == <<file, temp, block, req, rep, waiting, slock, runner, cl, sent, cmds, up,
          latest, complete>>

Idle == [pc |-> "idle", op |-> "none", n |-> 0, path |-> "", dst |-> "", got |-> <<>>]

Contents == Seq(Texts)

TypeOK ==
    /\ file \in [Paths -> Contents]
    /\ temp \in Contents \cup {Absent}
    /\ block \in [Servers -> Clients \cup {Nobody}]
    /\ slock \in [Servers -> {Nobody, "C_runner"}]
    /\ \A c \in Clients : cl[c].op \in {"none", "read", "write", "copyfile"} /\ cl[c].n \in 0 .. MaxCmds
    /\ sent \in [Cmds -> {"nothing", "text", "end"}]
    /\ cmds \in 0 .. MaxCmds /\ up \in BOOLEAN

Init ==
    /\ file = [p \in Paths |-> <<0>>]
    /\ temp = Absent
    /\ block = [s \in Servers |-> Nobody]
    /\ req = [s \in Servers |-> <<>>] /\ rep = [s \in Servers |-> <<>>]
    /\ waiting = [s \in Servers |-> <<>>]
    /\ slock = [s \in Servers |-> Nobody]
    /\ runner = [s \in Servers |-> None]
    /\ cl = [c \in Clients |-> Idle]
    /\ sent = [n \in Cmds |-> "nothing"]
    /\ cmds = 0
    /\ up = TRUE
    /\ latest = [p \in Paths |-> <<0>>]
    /\ complete = [p \in Paths |-> {<<0>>}]

Pc(c) == cl[c].pc
At(c) == Home(cl[c].path)
Go(c, pc) == cl' = [cl EXCEPT ![c].pc = pc]

-----------------------------------------------------------------------------
(* A command, up to the lock.                                               *)

Begin(c) ==
    /\ up /\ Pc(c) = "idle" /\ cmds < MaxCmds
    /\ cmds' = cmds + 1
    /\ \/ \E p \in Paths, op \in {"read", "write"} :
            /\ op = "write" => p \in Writable
            /\ cl' = [cl EXCEPT ![c] = [Idle EXCEPT !.pc = "lock", !.op = op, !.n = cmds + 1, !.path = p]]
       \/ \E pq \in Copies :
            /\ c \in Copiers
            /\ cl' = [cl EXCEPT ![c] = [Idle EXCEPT !.pc = "lock", !.op = "copyfile", !.n = cmds + 1,
                                                    !.path = pq[1], !.dst = pq[2]]]
    /\ UNCHANGED <<file, temp, block, req, rep, waiting, slock, runner, sent, up, latest, complete>>

Take(c, s) ==
    /\ up /\ block[s] = Nobody
    /\ block' = [block EXCEPT ![s] = c]

Post(s) == block' = [block EXCEPT ![s] = Nobody]

\* read, write: the client is told where to go.
Told(c) ==
    /\ Pc(c) = "lock" /\ cl[c].op # "copyfile"
    /\ Take(c, At(c))
    /\ Go(c, "told")
    /\ UNCHANGED <<file, temp, req, rep, waiting, slock, runner, sent, cmds, up, latest, complete>>

-----------------------------------------------------------------------------
(* read_function and write_function of the client.                          *)

\* It connects to the storage server and sends the command.
Connect(c) ==
    /\ Pc(c) = "told"
    /\ waiting' = [waiting EXCEPT ![At(c)] =
                      Append(@, [op |-> cl[c].op, client |-> c, n |-> cl[c].n, path |-> cl[c].path])]
    /\ Go(c, "connected")
    /\ UNCHANGED <<file, temp, block, req, rep, slock, runner, sent, cmds, up, latest, complete>>

\* The user has typed the text: it is sent, and stop after it.
Write(c) ==
    /\ Pc(c) = "connected" /\ cl[c].op = "write"
    /\ sent' = [sent EXCEPT ![cl[c].n] = "text"]
    /\ latest' = [latest EXCEPT ![cl[c].path] = <<cl[c].n>>]
    /\ Go(c, "stop")
    /\ UNCHANGED <<file, temp, block, req, rep, waiting, slock, runner, cmds, up, complete>>

\* Or the client exits before that.  The naming server's recv returns 0.
Exit(c) ==
    /\ Quit
    /\ Pc(c) = "connected" /\ cl[c].op = "write"
    /\ sent' = [sent EXCEPT ![cl[c].n] = "end"]
    /\ latest' = [latest EXCEPT ![cl[c].path] = <<>>]
    /\ Go(c, "stop")
    /\ UNCHANGED <<file, temp, block, req, rep, waiting, slock, runner, cmds, up, complete>>

\* Mutant: the lock is given back as soon as the client knows the address.
PostWhenTold(c) ==
    /\ up /\ Pc(c) \in {"told", "stop"} /\ block[At(c)] = c
    /\ Post(At(c))
    /\ IF Pc(c) = "told" THEN cl' = cl ELSE cl' = [cl EXCEPT ![c] = Idle]
    /\ UNCHANGED <<file, temp, req, rep, waiting, slock, runner, sent, cmds, up, latest, complete>>

\* The naming server hears stop, or the end of the connection.
Stop(c) ==
    /\ up /\ Pc(c) = "stop"
    /\ Post(At(c))
    /\ cl' = [cl EXCEPT ![c] = Idle]
    /\ UNCHANGED <<file, temp, req, rep, waiting, slock, runner, sent, cmds, up, latest, complete>>

-----------------------------------------------------------------------------
(* copyfunctionality.                                                       *)

\* The lock of the source's server, and copyfileread.
AskRead(c) ==
    /\ Pc(c) = "lock" /\ cl[c].op = "copyfile"
    /\ Take(c, At(c))
    /\ req' = [req EXCEPT ![At(c)] = Append(@, [op |-> "copyfileread", path |-> cl[c].path])]
    /\ Go(c, "reading")
    /\ UNCHANGED <<file, temp, rep, waiting, slock, runner, sent, cmds, up, latest, complete>>

\* What comes back is appended to temp.txt.
KeepText(c) ==
    /\ up /\ Pc(c) = "reading" /\ rep[At(c)] # <<>>
    /\ LET text == Head(rep[At(c)]) IN
        /\ temp' = IF temp = Absent THEN text ELSE temp \o text
        /\ cl' = [cl EXCEPT ![c].pc = "lock2", ![c].got = text]
    /\ rep' = [rep EXCEPT ![At(c)] = Tail(@)]
    /\ Post(At(c))
    /\ UNCHANGED <<file, req, waiting, slock, runner, sent, cmds, up, latest, complete>>

\* Mutant: temp.txt is not removed.
Kept == temp

Removed == Absent

\* The lock of the destination's server; copyfilewrite, and all of temp.txt, which
\* is removed.  Without a temp.txt fopen returns NULL and fread crashes.
SendText(c) ==
    LET s == Home(cl[c].dst) IN
    /\ Pc(c) = "lock2"
    /\ up /\ block[s] = Nobody /\ block' = block
    /\ up' = (temp # Absent)
    /\ req' = [req EXCEPT ![s] =
                  Append(@, [op |-> "copyfilewrite", path |-> cl[c].dst, size |-> Len(cl[c].got)])
                    \o (IF temp = Absent THEN <<>> ELSE [k \in DOMAIN temp |-> [op |-> "text", n |-> temp[k]]])]
    /\ temp' = Removed
    /\ Go(c, "written")
    /\ UNCHANGED <<file, rep, waiting, slock, runner, sent, cmds, latest, complete>>

\* The storage server's acknowledgement, without the lock; the client is told YES.
CopyDone(c) ==
    LET s == Home(cl[c].dst) IN
    /\ up /\ Pc(c) = "written" /\ rep[s] # <<>>
    /\ rep' = [rep EXCEPT ![s] = Tail(@)]
    /\ Go(c, "copied")
    /\ UNCHANGED <<file, temp, block, req, waiting, slock, runner, sent, cmds, up, latest, complete>>

Answered(c) ==
    /\ Pc(c) = "copied"
    /\ cl' = [cl EXCEPT ![c] = Idle]
    /\ UNCHANGED <<file, temp, block, req, rep, waiting, slock, runner, sent, cmds, up, latest, complete>>

-----------------------------------------------------------------------------
(* The storage server.                                                      *)

\* Mutant: NM_runner does not wait for the semaphore.
NoWait(s) == TRUE

Free(s) == slock[s] = Nobody

\* receive_file: the next size chunks of the connection are the file.
Received(s, m) == [k \in 1 .. m |-> req[s][k + 1].n]

\* NM_runner: one request with the semaphore.
NmServe(s) ==
    /\ req[s] # <<>> /\ Free(s)
    /\ LET m == Head(req[s]) IN
       \/ /\ m.op = "copyfileread"
          /\ rep' = [rep EXCEPT ![s] = Append(@, file[m.path])]
          /\ req' = [req EXCEPT ![s] = Tail(@)]
          /\ UNCHANGED <<file, complete>>
       \/ /\ m.op = "copyfilewrite" /\ Len(req[s]) > m.size
          /\ file' = [file EXCEPT ![m.path] = Received(s, m.size)]
          /\ complete' = [complete EXCEPT ![m.path] = @ \cup {file'[m.path]}]
          /\ rep' = [rep EXCEPT ![s] = Append(@, Ack)]
          /\ req' = [req EXCEPT ![s] = SubSeq(@, m.size + 2, Len(@))]
    /\ UNCHANGED <<temp, block, waiting, slock, runner, cl, sent, cmds, up, latest>>

\* C_runner accepts a connection and reads the command.
Accept(s) ==
    /\ runner[s] = None /\ waiting[s] # <<>>
    /\ runner' = [runner EXCEPT ![s] = Head(waiting[s])]
    /\ waiting' = [waiting EXCEPT ![s] = Tail(@)]
    /\ UNCHANGED <<file, temp, block, req, rep, slock, cl, sent, cmds, up, latest, complete>>

\* process_file for a client, which then says stop.
ServeRead(s) ==
    LET m == runner[s] IN
    /\ m.op = "read" /\ slock[s] = Nobody
    /\ cl' = [cl EXCEPT ![m.client].pc = "stop", ![m.client].got = file[m.path]]
    /\ runner' = [runner EXCEPT ![s] = None]
    /\ UNCHANGED <<file, temp, block, req, rep, waiting, slock, sent, cmds, up, latest, complete>>

\* client_receive_file: fopen truncates the file; then it waits for the text.
OpenWrite(s) ==
    LET m == runner[s] IN
    /\ m.op = "write" /\ slock[s] = Nobody
    /\ slock' = [slock EXCEPT ![s] = "C_runner"]
    /\ file' = [file EXCEPT ![m.path] = <<>>]
    /\ UNCHANGED <<temp, block, req, rep, waiting, runner, cl, sent, cmds, up, latest, complete>>

WriteText(s, holder) ==
    LET m == runner[s] IN
    /\ m.op = "write" /\ slock[s] = "C_runner" /\ sent[m.n] # "nothing"
    /\ file' = [file EXCEPT ![m.path] = IF sent[m.n] = "text" THEN <<m.n>> ELSE <<>>]
    /\ complete' = [complete EXCEPT ![m.path] = @ \cup {file'[m.path]}]
    /\ slock' = [slock EXCEPT ![s] = holder]
    /\ runner' = [runner EXCEPT ![s] = None]
    /\ UNCHANGED <<temp, block, req, rep, waiting, cl, sent, cmds, up, latest>>

\* Mutant: it goes back to accept without sem_post.
WriteAndKeep(s) == WriteText(s, "C_runner")

CloseWrite(s) == WriteText(s, Nobody)

-----------------------------------------------------------------------------

Client(c) == Connect(c) \/ Write(c) \/ Exit(c)
Handler(c) == Told(c) \/ Stop(c) \/ AskRead(c) \/ KeepText(c) \/ SendText(c) \/ CopyDone(c) \/ Answered(c)
CRunner(s) == Accept(s) \/ ServeRead(s) \/ OpenWrite(s) \/ CloseWrite(s)

Next ==
    \/ \E c \in Clients : Begin(c) \/ Client(c) \/ Handler(c)
    \/ \E s \in Servers : NmServe(s) \/ CRunner(s)

Spec == Init /\ [][Next]_vars

\* Threads and programs go on; the user types in the end (or leaves), and a semaphore
\* is not always lost to others.
FairSpec ==
    /\ Spec
    /\ \A c \in Clients : WF_vars(Client(c)) /\ SF_vars(Handler(c))
    /\ \A s \in Servers : SF_vars(NmServe(s)) /\ SF_vars(CRunner(s))

-----------------------------------------------------------------------------
(* Properties.                                                              *)

Destinations == {pq[2] : pq \in Copies}

\* A read returns what the last write to the path sent, though nobody waited for that
\* write to be carried out; or nothing, if its client left without a text.
\* (write_function and its stop, Writefunctionality, C_runner)
ReadLatest ==
    \A c \in Clients :
        cl[c].op = "read" /\ Pc(c) = "stop" /\ cl[c].path \notin Destinations =>
            cl[c].got = latest[cl[c].path]

\* When copyfile is answered, the destination holds what was read from the source:
\* no chunk of another copy, none missing. (copyfunctionality, temp.txt)
CopyExact ==
    \A c \in Clients : Pc(c) = "copied" => file[cl[c].dst] = cl[c].got

\* A copy never reads a file in the middle of a write. (NM_runner, C_runner: lock)
CopyUntorn ==
    \A c \in Clients : Pc(c) \in {"lock2", "written", "copied"} => cl[c].got \in complete[cl[c].path]

\* Every read, write and copy comes to its end. (lock, block_server)
CommandEnds == \A c \in Clients : Pc(c) = "lock" ~> (Pc(c) = "idle" \/ ~up)
=============================================================================
