---------------------------- MODULE Replication -----------------------------
(***************************************************************************)
(* What a round of redundant_copy writes.  The three servers of a group    *)
(* keep their own files in "main" and each other's in "copy1" and "copy2". *)
(* A round wipes the two replica folders of its server, asks the server    *)
(* for its list of paths, and copies them one by one.  The naming server   *)
(* waits for the server it reads; what it sends to the hosts is never      *)
(* acknowledged and waits in their connections until they get to it.       *)
(*                                                                         *)
(* A round has all three servers' block_server (NamingServer,              *)
(* RoundIsolated), so a group has one round at a time.                     *)
(***************************************************************************)
EXTENDS Placement, Sequences, FiniteSets

CONSTANTS
    NPaths,      \* bound: paths a server may have
    Dirs,        \* those of them that are directories
    Sources,     \* servers with files; a round of another one copies nothing
    Mortal,      \* servers whose process may exit
    Events,      \* conditions of the environment that may occur
    MaxVersion,  \* bound: changes of files in a behaviour
    BufMax       \* bound: requests a connection buffers before send blocks

\* "late":     a client's write reaches its storage server after the client
\*             told the naming server that it was done
\* "coalesce": one recv returns a text together with the requests behind it
AllEvents == {"late", "coalesce"}

Paths == 1 .. NPaths     \* in the order in which the trie lists them

ASSUME OneGroup == NServers = 3
ASSUME ReplicationBounds == NPaths \in Nat /\ MaxVersion \in Nat /\ BufMax \in Nat \ {0}
ASSUME ReplicationSets ==
    /\ Dirs \subseteq Paths /\ Events \subseteq AllEvents
    /\ Sources \subseteq Servers /\ Mortal \subseteq Servers

Folders == {"copy1", "copy2"}

\* A text is the pieces written to it: version ver of a file of server of, or
\* the bytes of requests taken for text.
Pieces == [of : Servers, ver : 0 .. MaxVersion]
Junk == 0
Absent == [there |-> FALSE, text |-> <<>>]
Empty  == [there |-> TRUE, text |-> <<>>]
Values == [there : BOOLEAN, text : Seq(Pieces)]
NoFiles == [p \in Paths |-> Absent]

VARIABLES
    main,       \* per server: its own files
    copy,       \* per server: its replica folders
    wire,       \* per server: redundancy requests it has not got to
    alive,      \* its process runs
    available,  \* server_available
    due,        \* its redundancy thread woke up, saw it available, waits for locks
    round,      \* the round under way
    version,    \* changes of files so far
    stale,      \* history: main changed since the server's last round began
    kept        \* history: paths its last completed round copied, unchanged since

vars == <<main, copy, wire, alive, available, due, round, version, stale, kept>>

Requests == [op : {"wipe", "make", "append"}, folder : Folders, path : Paths \cup {0},
             piece : Pieces]

TypeOK ==
    /\ main \in [Servers -> [Paths -> Values]]
    /\ copy \in [Servers -> [Folders -> [Paths -> Values]]]
    /\ wire \in [Servers -> Seq(Requests)]
    /\ alive \in [Servers -> BOOLEAN] /\ available \in [Servers -> BOOLEAN]
    /\ due \in [Servers -> BOOLEAN]
    /\ round \in [src : Servers, pc : {"idle", "wipe", "list", "entry", "text"},
                  todo : SUBSET Paths]
    /\ version \in 0 .. MaxVersion
    /\ stale \in [Servers -> BOOLEAN] /\ kept \in [Servers -> SUBSET Paths]

Init ==
    /\ main = [s \in Servers |-> NoFiles]
    /\ copy = [s \in Servers |-> [f \in Folders |-> NoFiles]]
    /\ wire = [s \in Servers |-> <<>>]
    /\ alive = [s \in Servers |-> TRUE]
    /\ available = alive
    /\ due = [s \in Servers |-> FALSE]
    /\ round = [src |-> 0, pc |-> "idle", todo |-> {}]
    /\ version = 0
    /\ stale = alive
    /\ kept = [s \in Servers |-> {}]

Hosts(s) == {Host1(s), Host2(s)}
Idle == round.pc = "idle"

-----------------------------------------------------------------------------
(* A server's own files change.                                             *)

Put(s, p, v) ==
    /\ version < MaxVersion
    /\ version' = version + 1
    /\ main' = [main EXCEPT ![s] = [@ EXCEPT ![p] = v]]
    /\ stale' = [stale EXCEPT ![s] = TRUE]
    /\ kept' = [kept EXCEPT ![s] = @ \ {p}]

\* create and delete are exchanges under block_server: not during a round.
Create(s, p) ==
    /\ Idle /\ alive[s] /\ s \in Sources
    /\ ~main[s][p].there
    /\ Put(s, p, Empty)
    /\ UNCHANGED <<copy, wire, alive, available, due, round>>

Delete(s, p) ==
    /\ Idle /\ alive[s]
    /\ main[s][p].there
    /\ Put(s, p, Absent)
    /\ UNCHANGED <<copy, wire, alive, available, due, round>>

\* A client writes to the storage server itself, while the naming server holds
\* block_server for it, or later: it sends its text, then "stop", and never
\* hears from the storage server.
Write(s, p) ==
    /\ Idle \/ "late" \in Events
    /\ alive[s] /\ p \notin Dirs
    /\ main[s][p].there
    /\ Put(s, p, [there |-> TRUE, text |-> <<[of |-> s, ver |-> version + 1]>>])
    /\ UNCHANGED <<copy, wire, alive, available, due, round>>

-----------------------------------------------------------------------------
(* A round.                                                                 *)

\* Requests to the hosts of the round's server: q[h] to host h.  send blocks
\* while a host's connection is full; what is sent to a dead host is lost.
ToHosts(q) ==
    /\ \A h \in Hosts(round.src) : alive[h] => Len(wire[h]) < BufMax
    /\ wire' = [h \in Servers |->
                  IF h \in Hosts(round.src) /\ alive[h] THEN wire[h] \o q[h] ELSE wire[h]]

Request(op, folder, p, piece) ==
    <<[op |-> op, folder |-> folder, path |-> p, piece |-> piece]>>

NoPiece == [of |-> 0, ver |-> 0]

\* The folder of server s's replica on host h: p1 or p2.
FolderOn(s, h) == IF h = Host1(s) THEN Folder1(s) ELSE Folder2(s)

\* The two minutes are over and the server is up: on to the semaphores.
Timer(s) ==
    /\ s \in Sources /\ ~due[s] /\ available[s]
    /\ round.src = s => Idle
    /\ due' = [due EXCEPT ![s] = TRUE]
    /\ UNCHANGED <<main, copy, wire, alive, available, round, version, stale, kept>>

Start(s) ==
    /\ due[s] /\ Idle
    /\ due' = [due EXCEPT ![s] = FALSE]
    /\ round' = [src |-> s, pc |-> "wipe", todo |-> {}]
    /\ stale' = [stale EXCEPT ![s] = FALSE]
    /\ UNCHANGED <<main, copy, wire, alive, available, version, kept>>

\* Mutant: the replica folders are not emptied.
WipeNothing ==
    /\ round.pc = "wipe"
    /\ round' = [round EXCEPT !.pc = "list"]
    /\ UNCHANGED <<main, copy, wire, alive, available, due, version, stale, kept>>

\* deletereddir, only to hosts believed to be up.
Wipe ==
    LET s == round.src IN
    /\ round.pc = "wipe"
    /\ ToHosts([h \in Servers |->
                  IF available[h] THEN Request("wipe", FolderOn(s, h), 0, NoPiece) ELSE <<>>])
    /\ round' = [round EXCEPT !.pc = "list"]
    /\ UNCHANGED <<main, copy, alive, available, due, version, stale, kept>>

\* getMain.  From a server that just died nothing comes, and the listing is
\* whatever the uninitialised buffer holds; one already marked down is not
\* asked, and the round goes on with no paths.
List ==
    LET s == round.src IN
    /\ round.pc = "list"
    /\ \E ps \in SUBSET Paths :
        /\ available[s] /\ alive[s] => ps = {p \in Paths : main[s][p].there}
        /\ ~available[s] => ps = {}
        /\ round' = [round EXCEPT !.pc = "entry", !.todo = ps]
    /\ UNCHANGED <<main, copy, wire, alive, available, due, version, stale, kept>>

Next1(ps) == CHOOSE p \in ps : \A q \in ps : p <= q

\* getsizdir, then createREDdir or createREDfile on both hosts.  If the server
\* is gone nothing is read: the path is made as an empty file.
Entry ==
    LET s == round.src
        p == Next1(round.todo)
    IN
    /\ round.pc = "entry" /\ round.todo # {}
    /\ ToHosts([h \in Servers |-> Request("make", FolderOn(s, h), p, NoPiece)])
    /\ round' = IF alive[s] /\ p \notin Dirs
                THEN [round EXCEPT !.pc = "text"]
                ELSE [round EXCEPT !.todo = @ \ {p}]
    /\ UNCHANGED <<main, copy, alive, available, due, version, stale, kept>>

\* Mutant: the text goes to the first host only.
TextToFirstHost ==
    LET s == round.src
        p == Next1(round.todo)
    IN
    /\ round.pc = "text"
    /\ ToHosts([h \in Servers |->
                  IF alive[s] /\ main[s][p].text # <<>> /\ h = Host1(s)
                  THEN Request("append", Folder1(s), p, main[s][p].text[1]) ELSE <<>>])
    /\ round' = [round EXCEPT !.pc = "entry", !.todo = @ \ {p}]
    /\ UNCHANGED <<main, copy, alive, available, due, version, stale, kept>>

\* copyfileread, then copyREDfile and the text to both hosts.  The request to
\* the second host is the one made for the first, with the first's folder.
Text ==
    LET s == round.src
        p == Next1(round.todo)
    IN
    /\ round.pc = "text"
    /\ ToHosts([h \in Servers |->
                  IF alive[s] /\ main[s][p].text # <<>>
                  THEN Request("append", Folder1(s), p, main[s][p].text[1]) ELSE <<>>])
    /\ round' = [round EXCEPT !.pc = "entry", !.todo = @ \ {p}]
    /\ UNCHANGED <<main, copy, alive, available, due, version, stale, kept>>

End ==
    LET s == round.src IN
    /\ round.pc = "entry" /\ round.todo = {}
    /\ round' = [round EXCEPT !.pc = "idle"]
    /\ kept' = [kept EXCEPT ![s] = IF alive[s] /\ ~stale[s] THEN {p \in Paths : main[s][p].there} ELSE @]
    /\ UNCHANGED <<main, copy, wire, alive, available, due, version, stale>>

-----------------------------------------------------------------------------
(* The hosts.                                                               *)

\* What folder contents d become by request m.
Done(d, m) ==
    CASE m.op = "wipe"   -> NoFiles
      [] m.op = "make"   -> [d EXCEPT ![m.path] = Empty]
      [] m.op = "append" -> [d EXCEPT ![m.path] = [there |-> TRUE, text |-> Append(@.text, m.piece)]]

\* The bytes of requests that ended up in the file m appends to.
Spilt(m) == [m EXCEPT !.piece = [@ EXCEPT !.ver = Junk]]

\* A host processes its oldest request.  The recv that reads a text takes up to
\* 8192 bytes: requests queued behind it may end up in the file.
Serve(h) ==
    LET m == Head(wire[h])
        d == copy[h][m.folder]
    IN
    /\ alive[h] /\ wire[h] # <<>>
    /\ \E n \in IF m.op = "append" /\ "coalesce" \in Events THEN 0 .. Len(wire[h]) - 1 ELSE {0} :
        /\ copy' = [copy EXCEPT ![h] = [@ EXCEPT ![m.folder] =
                     IF n = 0 THEN Done(d, m) ELSE Done(Done(d, m), Spilt(m))]]
        /\ wire' = [wire EXCEPT ![h] = SubSeq(@, n + 2, Len(@))]
    /\ UNCHANGED <<main, alive, available, due, round, version, stale, kept>>

Crash(s) ==
    /\ s \in Mortal /\ alive[s]
    /\ alive' = [alive EXCEPT ![s] = FALSE]
    /\ wire' = [wire EXCEPT ![s] = <<>>]
    /\ UNCHANGED <<main, copy, available, due, round, version, stale, kept>>

\* empty_func, under the server's block_server: not during a round.
MarkDown(s) ==
    /\ ~alive[s] /\ available[s] /\ Idle
    /\ available' = [available EXCEPT ![s] = FALSE]
    /\ UNCHANGED <<main, copy, wire, alive, due, round, version, stale, kept>>

-----------------------------------------------------------------------------
Round == Wipe \/ List \/ Entry \/ Text \/ End

Next ==
    \/ \E s \in Servers, p \in Paths : Create(s, p) \/ Delete(s, p) \/ Write(s, p)
    \/ \E s \in Servers : Timer(s) \/ Start(s) \/ Serve(s) \/ Crash(s) \/ MarkDown(s)
    \/ Round

Spec == Init /\ [][Next]_vars

\* The naming server's threads run, and so do the storage servers'.  A redundancy
\* thread gets its turn: the others sleep two minutes after a round.
Fairness ==
    /\ WF_vars(Round)
    /\ \A s \in Sources : WF_vars(Timer(s)) /\ SF_vars(Start(s))
    /\ \A s \in Servers : WF_vars(Serve(s))

FairSpec == Spec /\ Fairness

-----------------------------------------------------------------------------
(* Properties.                                                              *)

Replica(s, h) == copy[h][FolderOn(s, h)]
AllAlive == \A s \in Servers : alive[s]
Drained(s) == \A h \in Hosts(s) : wire[h] = <<>>

\* Once a round is over and its hosts have caught up, both replicas are what the
\* server has, unless its files changed meanwhile (README.md:12: the data "is
\* Redundantly Stored" on two other fixed storage servers).
ReplicaExact ==
    \A s \in Sources :
        AllAlive /\ ~stale[s] /\ (round.src = s => Idle) /\ Drained(s) =>
            \A h \in Hosts(s) : Replica(s, h) = main[s]

\* A file of a replica is one text of the server the folder belongs to: rounds
\* never append to what an earlier round, or another server's, left there.
ReplicaUnmixed ==
    \A s \in Servers : \A h \in Hosts(s), p \in Paths :
        LET text == Replica(s, h)[p].text IN
        Len(text) <= 1 /\ (text # <<>> => text[1].of = s /\ text[1].ver # Junk)

\* When a server is gone, what its last completed round copied can still be read
\* from a replica: that is what Readfunctionality counts on.
ReplicaSurvives ==
    \A s \in Sources :
        ~alive[s] /\ Idle /\ Drained(s) /\ (\A h \in Hosts(s) : alive[h]) =>
            \A p \in kept[s] : \E h \in Hosts(s) : Replica(s, h)[p] = main[s][p]

\* As long as all servers run, every change is followed by a round, and each replica
\* becomes what the server has again and again, unless the files keep changing.
ReplicasConverge ==
    \A s \in Sources :
        /\ []<>(~stale[s] \/ ~AllAlive)
        /\ \A h \in {Host1(s), Host2(s)} : []<>(Replica(s, h) = main[s] \/ stale[s] \/ ~AllAlive)
=============================================================================
