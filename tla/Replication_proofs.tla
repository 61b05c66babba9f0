-------------------------- MODULE Replication_proofs ---------------------------
(***************************************************************************)
(* Rounds write exact copies, each into a folder of its own, whatever the  *)
(* number and the kind of paths and however full the connections are, as   *)
(* long as no request is taken for text and the middle server of a group,  *)
(* whose texts go to a folder that is not its own, has no files.           *)
(*                                                                         *)
(* What a host will hold when it has got to everything sent to it is       *)
(* settled when it is sent; the proof follows that fate of each host.      *)
(***************************************************************************)
EXTENDS Replication, SequenceTheorems, WellFoundedInduction, TLAPS

-----------------------------------------------------------------------------
(* Placement, for any number of groups.                                     *)

LEMMA HostsOf ==
    ASSUME NEW i \in Servers
    PROVE  /\ Host1(i) \in Servers /\ Host2(i) \in Servers
           /\ Host1(i) # i /\ Host2(i) # i /\ Host1(i) # Host2(i)
  <1>1. i \in Nat /\ i < NServers /\ NServers \in Nat /\ NServers % 3 = 0
    BY NServersAssumption DEF Servers
  <1>2. i % 3 \in {0, 1, 2}
    BY <1>1
  <1>3. CASE i % 3 = 0
    BY <1>1, <1>3 DEF Host1, Host2, Servers
  <1>4. CASE i % 3 = 1
    BY <1>1, <1>4 DEF Host1, Host2, Servers
  <1>5. CASE i % 3 = 2
    BY <1>1, <1>5 DEF Host1, Host2, Servers
  <1>. QED BY <1>2, <1>3, <1>4, <1>5

LEMMA FoldersOf ==
    ASSUME NEW i \in Servers, NEW h
    PROVE  FolderOn(i, h) \in Folders
BY DEF FolderOn, Folder1, Folder2, Folders

\* No two servers have their replicas in one folder of a host, in redundant_copy.
THEOREM FoldersApart ==
    ASSUME NEW i \in Servers, NEW j \in Servers, i # j,
           NEW h \in Hosts(i) \cap Hosts(j)
    PROVE  FolderOn(i, h) # FolderOn(j, h)
  <1>1. i \in Nat /\ j \in Nat
    BY DEF Servers
  <1>2. i % 3 \in {0, 1, 2} /\ j % 3 \in {0, 1, 2}
    BY <1>1
  <1>3. h \in {Host1(i), Host2(i)} /\ h \in {Host1(j), Host2(j)}
    BY DEF Hosts
  <1>. QED BY <1>1, <1>2, <1>3 DEF Host1, Host2, FolderOn, Folder1, Folder2

\* A client that reads a file of a server that is down is sent to a host that is
\* up, to the folder redundant_copy fills there: Readfunctionality computes both
\* anew.
THEOREM ReadsReplica ==
    ASSUME NEW i \in Servers, NEW up \in SUBSET Servers, i \notin up,
           up \cap Hosts(i) # {}
    PROVE  /\ ReadPlace(i, up)[1] \in up \cap Hosts(i)
           /\ ReadPlace(i, up)[2] = FolderOn(i, ReadPlace(i, up)[1])
BY HostsOf DEF ReadPlace, FolderOn, Hosts

-----------------------------------------------------------------------------
(* Numbers.                                                                 *)

Below == OpToRel(<, Nat)

LEMMA BelowWellFounded == IsWellFoundedOn(Below, Nat)
BY NatLessThanWellFounded, Zenon DEF Below

LEMMA BelowIsLess == \A m, n \in Nat : n < m => <<n, m>> \in Below
BY DEF OpToRel, Below

LEMMA Smallest ==
    ASSUME NEW S, S \subseteq Nat, S # {}
    PROVE  \E m \in S : \A n \in S : m <= n
  <1>1. PICK m \in S : \A n \in S : ~ (<<n, m>> \in Below)
    BY BelowWellFounded, WFMin, Zenon
  <1>2. \A n \in S : ~ (n < m)
    BY <1>1, BelowIsLess, Zenon
  <1>. QED BY <1>2

LEMMA Next1In ==
    ASSUME NEW ps \in SUBSET Paths, ps # {}
    PROVE  Next1(ps) \in ps /\ Next1(ps) \in Paths
  <1>1. ps \subseteq Nat
    BY ReplicationBounds DEF Paths
  <1>2. \E p \in ps : \A q \in ps : p <= q
    BY <1>1, Smallest
  <1>. QED BY <1>2 DEF Next1

-----------------------------------------------------------------------------
(* Types.                                                                   *)

Disks == [Folders -> [Paths -> Values]]

\* What a host's folders become by request m.
Then(d, m) == [d EXCEPT ![m.folder] = Done(@, m)]

LEMMA ValuesAre ==
    /\ Absent \in Values /\ Empty \in Values /\ NoFiles \in [Paths -> Values]
    /\ Absent.text = <<>> /\ Empty.text = <<>> /\ Absent.there = FALSE /\ Empty.there = TRUE
    /\ \A p \in Paths : NoFiles[p] = Absent
BY EmptySeq DEF Absent, Empty, NoFiles, Values

LEMMA ThereIs ==
    ASSUME NEW v \in Values, v.there
    PROVE  v = [there |-> TRUE, text |-> v.text] /\ v.text \in Seq(Pieces)
           /\ (v.text = <<>> => v = Empty)
BY DEF Values, Empty

LEMMA DoneType ==
    ASSUME NEW f \in [Paths -> Values], NEW m \in Requests
    PROVE  Done(f, m) \in [Paths -> Values]
  <1>1. m.op \in {"wipe", "make", "append"} /\ m.piece \in Pieces
    BY DEF Requests
  <1>2. CASE m.op = "wipe"
    BY <1>2, ValuesAre DEF Done
  <1>3. CASE m.op = "make"
    <2>1. Done(f, m) = [f EXCEPT ![m.path] = Empty]
      BY <1>3 DEF Done
    <2>. QED BY <2>1, ValuesAre
  <1>4. CASE m.op = "append"
    <2>1. Done(f, m) = [f EXCEPT ![m.path] = [there |-> TRUE, text |-> Append(f[m.path].text, m.piece)]]
      BY <1>4 DEF Done
    <2>2. CASE m.path \in Paths
      <3>1. f[m.path].text \in Seq(Pieces)
        BY <2>2 DEF Values
      <3>2. Append(f[m.path].text, m.piece) \in Seq(Pieces)
        BY <1>1, <3>1, AppendProperties
      <3>3. [there |-> TRUE, text |-> Append(f[m.path].text, m.piece)] \in Values
        BY <3>2 DEF Values
      <3>. QED BY <2>1, <3>3
    <2>3. CASE m.path \notin Paths
      BY <2>1, <2>3
    <2>. QED BY <2>2, <2>3
  <1>. QED BY <1>1, <1>2, <1>3, <1>4

LEMMA ThenType ==
    ASSUME NEW d \in Disks, NEW m \in Requests
    PROVE  /\ Then(d, m) \in Disks
           /\ Then(d, m)[m.folder] = Done(d[m.folder], m)
           /\ \A g \in Folders : g # m.folder => Then(d, m)[g] = d[g]
  <1>1. m.folder \in Folders /\ Done(d[m.folder], m) \in [Paths -> Values]
    BY DoneType DEF Requests, Disks
  <1>. QED BY <1>1 DEF Then, Disks

-----------------------------------------------------------------------------
(* The invariant.                                                           *)

\* A text of at most one chunk, and of server s.
TextOf(s, text) == Len(text) <= 1 /\ (text # <<>> => text[1].of = s /\ text[1].ver # Junk)

Unmixed(h, d) ==
    \A s \in Servers, p \in Paths : h \in Hosts(s) => TextOf(s, d[FolderOn(s, h)][p].text)

\* Host h has folders d when it has got to everything that is on its way to it,
\* and neither then nor before a text of two servers or two rounds.
Fate(h, d) ==
    \E t \in Seq(Disks) :
        /\ Len(t) = Len(wire[h]) + 1
        /\ t[1] = copy[h] /\ t[Len(t)] = d
        /\ \A n \in 1 .. Len(wire[h]) : t[n + 1] = Then(t[n], wire[h][n])
        /\ \A n \in 1 .. Len(t) : Unmixed(h, t[n])

RoundInv ==
    /\ \A s \in Servers : (alive[s] => available[s]) /\ (due[s] => s \in Sources)
    /\ ~Idle => round.src \in Sources
    /\ round.pc = "text" => round.todo # {}

MainInv ==
    \A s \in Servers, p \in Paths :
        /\ TextOf(s, main[s][p].text)
        /\ ~main[s][p].there => main[s][p] = Absent
        /\ p \in Dirs => main[s][p].text = <<>>

\* Between making a file and sending its text, the file is empty.
Ready(h, d) ==
    round.pc = "text" /\ h \in Hosts(round.src) /\ alive[h] =>
        /\ d[FolderOn(round.src, h)][Next1(round.todo)].text = <<>>
        /\ Next1(round.todo) \notin Dirs

\* What a round of server s has made so far of the paths it has listed.
Halfway(s, f) ==
    \A p \in Paths :
        /\ p \in round.todo => main[s][p].there
        /\ p \notin round.todo => f[p] = main[s][p]
        /\ p \in round.todo => f[p] = IF round.pc = "text" /\ p = Next1(round.todo)
                                      THEN Empty ELSE Absent

Copied(s, f) ==
    /\ Idle \/ round.src # s => f = main[s]
    /\ round.src = s /\ round.pc = "list" => f = NoFiles
    /\ round.src = s /\ round.pc \in {"entry", "text"} => Halfway(s, f)

Exact(h, d) ==
    \A s \in Sources :
        AllAlive /\ ~stale[s] /\ h \in Hosts(s) => Copied(s, d[FolderOn(s, h)])

FateInv == \A h \in Servers : \E d \in Disks : Fate(h, d) /\ Ready(h, d) /\ Exact(h, d)

CopiesInv == TypeOK /\ RoundInv /\ MainInv /\ FateInv

-----------------------------------------------------------------------------
(* What becomes of a host.                                                  *)

LEMMA FateStays ==
    ASSUME NEW h, NEW d, Fate(h, d), wire'[h] = wire[h], copy'[h] = copy[h]
    PROVE  Fate(h, d)'
BY DEF Fate

LEMMA FateOfIdle ==
    ASSUME NEW h \in Servers, NEW d \in Disks, Unmixed(h, d), wire'[h] = <<>>, copy'[h] = d
    PROVE  Fate(h, d)'
  <1>. DEFINE t == <<d>>
  <1>1. t \in Seq(Disks) /\ Len(t) = 1 /\ t[1] = d /\ Len(wire'[h]) = 0
    OBVIOUS
  <1>. HIDE DEF t
  <1>2. \A n \in 1 .. Len(t) : Unmixed(h, t[n])
    BY <1>1
  <1>3. \A n \in 1 .. Len(wire'[h]) : t[n + 1] = Then(t[n], wire'[h][n])
    BY <1>1
  <1>. QED BY <1>1, <1>2, <1>3 DEF Fate

LEMMA FateSends ==
    ASSUME TypeOK, NEW h \in Servers, NEW d \in Disks, Fate(h, d), NEW m \in Requests,
           wire'[h] = Append(wire[h], m), copy'[h] = copy[h], Unmixed(h, Then(d, m))
    PROVE  Fate(h, Then(d, m))'
  <1>1. PICK t \in Seq(Disks) :
            /\ Len(t) = Len(wire[h]) + 1
            /\ t[1] = copy[h] /\ t[Len(t)] = d
            /\ \A n \in 1 .. Len(wire[h]) : t[n + 1] = Then(t[n], wire[h][n])
            /\ \A n \in 1 .. Len(t) : Unmixed(h, t[n])
    BY DEF Fate
  <1>2. wire[h] \in Seq(Requests) /\ Len(wire[h]) \in Nat /\ Then(d, m) \in Disks
    BY ThenType, LenProperties DEF TypeOK
  <1>3. /\ Len(wire'[h]) = Len(wire[h]) + 1 /\ wire'[h][Len(wire[h]) + 1] = m
        /\ \A n \in 1 .. Len(wire[h]) : wire'[h][n] = wire[h][n]
    BY <1>2, AppendProperties
  <1>. DEFINE u == Append(t, Then(d, m))
  <1>4. /\ u \in Seq(Disks) /\ Len(u) = Len(t) + 1 /\ u[Len(t) + 1] = Then(d, m)
        /\ \A n \in 1 .. Len(t) : u[n] = t[n]
    BY <1>2, AppendProperties
  <1>. HIDE DEF u
  <1>5. Len(u) = Len(wire'[h]) + 1 /\ u[1] = copy'[h] /\ u[Len(u)] = Then(d, m)
    BY <1>1, <1>2, <1>3, <1>4
  <1>6. ASSUME NEW n \in 1 .. Len(wire'[h])
        PROVE  u[n + 1] = Then(u[n], wire'[h][n])
    <2>1. CASE n \in 1 .. Len(wire[h])
      BY <1>1, <1>2, <1>3, <1>4, <2>1
    <2>2. CASE n = Len(wire[h]) + 1
      BY <1>1, <1>2, <1>3, <1>4, <2>2
    <2>. QED BY <1>2, <1>3, <2>1, <2>2
  <1>7. ASSUME NEW n \in 1 .. Len(u)
        PROVE  Unmixed(h, u[n])
    <2>1. CASE n \in 1 .. Len(t)
      BY <1>1, <1>4, <2>1
    <2>2. CASE n = Len(t) + 1
      BY <1>4, <2>2
    <2>. QED BY <1>1, <1>2, <1>4, <2>1, <2>2
  <1>. QED BY <1>4, <1>5, <1>6, <1>7 DEF Fate

LEMMA FateServes ==
    ASSUME TypeOK, NEW h \in Servers, NEW d \in Disks, Fate(h, d), wire[h] # <<>>,
           wire'[h] = Tail(wire[h]), copy'[h] = Then(copy[h], wire[h][1])
    PROVE  Fate(h, d)'
  <1>1. PICK t \in Seq(Disks) :
            /\ Len(t) = Len(wire[h]) + 1
            /\ t[1] = copy[h] /\ t[Len(t)] = d
            /\ \A n \in 1 .. Len(wire[h]) : t[n + 1] = Then(t[n], wire[h][n])
            /\ \A n \in 1 .. Len(t) : Unmixed(h, t[n])
    BY DEF Fate
  <1>2. wire[h] \in Seq(Requests) /\ Len(wire[h]) \in Nat \ {0}
    BY EmptySeq DEF TypeOK
  <1>3. /\ Len(wire'[h]) = Len(wire[h]) - 1
        /\ \A n \in 1 .. Len(wire'[h]) : wire'[h][n] = wire[h][n + 1]
    BY <1>2, HeadTailProperties
  <1>. DEFINE u == Tail(t)
  <1>4. /\ u \in Seq(Disks) /\ Len(u) = Len(t) - 1
        /\ \A n \in 1 .. Len(u) : u[n] = t[n + 1]
    <2>1. t # <<>>
      BY <1>1, <1>2
    <2>. QED BY <2>1, HeadTailProperties
  <1>. HIDE DEF u
  <1>5. Len(u) = Len(wire'[h]) + 1 /\ u[1] = copy'[h] /\ u[Len(u)] = d
    BY <1>1, <1>2, <1>3, <1>4
  <1>6. ASSUME NEW n \in 1 .. Len(wire'[h])
        PROVE  u[n + 1] = Then(u[n], wire'[h][n])
    <2>1. n + 1 \in 1 .. Len(wire[h]) /\ n \in 1 .. Len(u) /\ n + 1 \in 1 .. Len(u)
      BY <1>1, <1>2, <1>3, <1>4
    <2>2. t[(n + 1) + 1] = Then(t[n + 1], wire[h][n + 1])
      BY <1>1, <2>1
    <2>. QED BY <1>3, <1>4, <2>1, <2>2
  <1>7. \A n \in 1 .. Len(u) : Unmixed(h, u[n])
    BY <1>1, <1>2, <1>4
  <1>. QED BY <1>4, <1>5, <1>6, <1>7 DEF Fate

LEMMA FateNow ==
    ASSUME TypeOK, NEW h \in Servers, NEW d, Fate(h, d)
    PROVE  Unmixed(h, copy[h]) /\ (wire[h] = <<>> => d = copy[h])
  <1>1. Len(wire[h]) \in Nat /\ (wire[h] = <<>> => Len(wire[h]) = 0)
    BY LenProperties, EmptySeq DEF TypeOK
  <1>. QED BY <1>1 DEF Fate

-----------------------------------------------------------------------------
(* A server's files change, and the other actions that send nothing.        *)

LEMMA FatesStay ==
    ASSUME FateInv, UNCHANGED <<copy, wire>>,
           \A h \in Servers, d \in Disks : Ready(h, d) /\ Exact(h, d) => Ready(h, d)' /\ Exact(h, d)'
    PROVE  FateInv'
  <1>1. \A h \in Servers, d \in Disks : Fate(h, d) => Fate(h, d)'
    BY FateStays
  <1>. QED BY <1>1 DEF FateInv

LEMMA PutStep ==
    ASSUME CopiesInv, NEW s \in Servers, NEW p \in Paths, NEW v \in Values, Put(s, p, v),
           TextOf(s, v.text), ~v.there => v = Absent, p \in Dirs => v.text = <<>>,
           UNCHANGED <<copy, wire, alive, available, due, round>>
    PROVE  CopiesInv'
  <1>. USE DEF CopiesInv
  <1>1. /\ main' = [main EXCEPT ![s] = [@ EXCEPT ![p] = v]]
        /\ stale' = [stale EXCEPT ![s] = TRUE]
        /\ kept' = [kept EXCEPT ![s] = @ \ {p}]
        /\ version' \in 0 .. MaxVersion
    BY ReplicationBounds DEF Put, TypeOK
  <1>2. TypeOK'
    BY <1>1 DEF TypeOK
  <1>3. /\ main'[s][p] = v /\ stale'[s]
        /\ \A q \in Paths : q # p => main'[s][q] = main[s][q]
        /\ \A t \in Servers : t # s => main'[t] = main[t] /\ stale'[t] = stale[t]
    BY <1>1 DEF TypeOK
  <1>4. RoundInv'
    BY DEF RoundInv, Idle
  <1>5. MainInv'
    BY <1>3 DEF MainInv
  <1>6. ASSUME NEW h \in Servers, NEW d \in Disks, Ready(h, d), Exact(h, d)
        PROVE  Ready(h, d)' /\ Exact(h, d)'
    <2>1. Ready(h, d)'
      BY <1>6 DEF Ready
    <2>2. ASSUME NEW t \in Sources, AllAlive, ~stale'[t], h \in Hosts(t)
          PROVE  Copied(t, d[FolderOn(t, h)])'
      <3>1. t \in Servers /\ t # s /\ main'[t] = main[t] /\ ~stale[t]
        BY <1>3, <2>2, ReplicationSets
      <3>2. Copied(t, d[FolderOn(t, h)])
        BY <1>6, <2>2, <3>1 DEF Exact
      <3>. QED BY <3>1, <3>2 DEF Copied, Halfway, Idle
    <2>. QED BY <2>1, <2>2 DEF Exact, AllAlive
  <1>7. FateInv'
    BY <1>6, FatesStay
  <1>. QED BY <1>2, <1>4, <1>5, <1>7

LEMMA CreateStep ==
    ASSUME CopiesInv, NEW s \in Servers, NEW p \in Paths, Create(s, p)
    PROVE  CopiesInv'
  <1>1. TextOf(s, Empty.text)
    BY ValuesAre, EmptySeq DEF TextOf
  <1>. QED BY <1>1, ValuesAre, PutStep DEF Create

LEMMA DeleteStep ==
    ASSUME CopiesInv, NEW s \in Servers, NEW p \in Paths, Delete(s, p)
    PROVE  CopiesInv'
  <1>1. TextOf(s, Absent.text)
    BY ValuesAre, EmptySeq DEF TextOf
  <1>. QED BY <1>1, ValuesAre, PutStep DEF Delete

LEMMA WriteStep ==
    ASSUME CopiesInv, NEW s \in Servers, NEW p \in Paths, Write(s, p)
    PROVE  CopiesInv'
  <1>. DEFINE piece == [of |-> s, ver |-> version + 1]
              v == [there |-> TRUE, text |-> <<piece>>]
  <1>1. /\ p \notin Dirs /\ Put(s, p, v)
        /\ UNCHANGED <<copy, wire, alive, available, due, round>>
    BY DEF Write
  <1>2. version \in 0 .. MaxVersion /\ version < MaxVersion
    BY <1>1 DEF Put, CopiesInv, TypeOK
  <1>3. piece \in Pieces /\ piece.of = s /\ piece.ver # Junk
    BY <1>2, ReplicationBounds DEF Pieces, Junk
  <1>4. v \in Values /\ v.there = TRUE /\ v.text = <<piece>>
    BY <1>3 DEF Values
  <1>5. TextOf(s, v.text)
    BY <1>3, <1>4 DEF TextOf
  <1>. HIDE DEF v
  <1>. QED BY <1>1, <1>4, <1>5, PutStep

LEMMA TimerStep ==
    ASSUME CopiesInv, NEW s \in Servers, Timer(s)
    PROVE  CopiesInv'
  <1>. USE DEF CopiesInv
  <1>1. /\ due' = [due EXCEPT ![s] = TRUE] /\ s \in Sources
        /\ UNCHANGED <<main, copy, wire, alive, available, round, version, stale, kept>>
    BY DEF Timer
  <1>2. TypeOK' /\ RoundInv' /\ MainInv'
    BY <1>1 DEF TypeOK, RoundInv, MainInv, Idle
  <1>3. FateInv'
    BY <1>1, FatesStay DEF Ready, Exact, Copied, Halfway, Idle, AllAlive
  <1>. QED BY <1>2, <1>3

LEMMA StartStep ==
    ASSUME CopiesInv, NEW s \in Servers, Start(s)
    PROVE  CopiesInv'
  <1>. USE DEF CopiesInv
  <1>1. /\ due' = [due EXCEPT ![s] = FALSE] /\ due[s] /\ Idle
        /\ round' = [src |-> s, pc |-> "wipe", todo |-> {}]
        /\ stale' = [stale EXCEPT ![s] = FALSE]
        /\ UNCHANGED <<main, copy, wire, alive, available, version, kept>>
    BY DEF Start
  <1>2. TypeOK'
    BY <1>1 DEF TypeOK
  <1>3. RoundInv' /\ MainInv'
    BY <1>1 DEF TypeOK, RoundInv, MainInv, Idle
  <1>4. ASSUME NEW h \in Servers, NEW d \in Disks, Exact(h, d)
        PROVE  Ready(h, d)' /\ Exact(h, d)'
    <2>1. Ready(h, d)'
      BY <1>1 DEF Ready
    <2>2. ASSUME NEW t \in Sources, AllAlive, ~stale'[t], h \in Hosts(t)
          PROVE  Copied(t, d[FolderOn(t, h)])'
      <3>1. CASE t = s
        BY <1>1, <3>1 DEF Copied, Idle
      <3>2. CASE t # s
        <4>1. ~stale[t]
          BY <1>1, <2>2, <3>2, ReplicationSets DEF TypeOK
        <4>2. d[FolderOn(t, h)] = main[t]
          BY <1>1, <1>4, <2>2, <4>1 DEF Exact, Copied
        <4>. QED BY <1>1, <3>2, <4>2 DEF Copied, Idle
      <3>. QED BY <3>1, <3>2
    <2>. QED BY <1>1, <2>1, <2>2 DEF Exact, AllAlive
  <1>5. FateInv'
    BY <1>1, <1>4, FatesStay
  <1>. QED BY <1>2, <1>3, <1>5

LEMMA MarkDownStep ==
    ASSUME CopiesInv, NEW s \in Servers, MarkDown(s)
    PROVE  CopiesInv'
  <1>. USE DEF CopiesInv
  <1>1. /\ available' = [available EXCEPT ![s] = FALSE] /\ ~alive[s]
        /\ UNCHANGED <<main, copy, wire, alive, due, round, version, stale, kept>>
    BY DEF MarkDown
  <1>2. TypeOK'
    BY <1>1 DEF TypeOK
  <1>3. RoundInv' /\ MainInv'
    BY <1>1 DEF TypeOK, RoundInv, MainInv, Idle
  <1>4. FateInv'
    BY <1>1, FatesStay DEF Ready, Exact, Copied, Halfway, Idle, AllAlive
  <1>. QED BY <1>2, <1>3, <1>4

LEMMA ListStep ==
    ASSUME CopiesInv, List
    PROVE  CopiesInv'
  <1>. USE DEF CopiesInv
  <1>1. PICK ps \in SUBSET Paths :
            /\ available[round.src] /\ alive[round.src] =>
                 ps = {p \in Paths : main[round.src][p].there}
            /\ round' = [round EXCEPT !.pc = "entry", !.todo = ps]
    BY DEF List
  <1>2. /\ round.pc = "list" /\ round.src \in Sources /\ round.src \in Servers
        /\ round'.src = round.src /\ round'.pc = "entry" /\ round'.todo = ps
        /\ UNCHANGED <<main, copy, wire, alive, available, due, version, stale, kept>>
    BY <1>1, ReplicationSets DEF List, TypeOK, RoundInv, Idle
  <1>3. TypeOK'
    BY <1>1, <1>2 DEF TypeOK
  <1>4. RoundInv' /\ MainInv'
    BY <1>2 DEF RoundInv, MainInv, Idle
  <1>5. ASSUME NEW h \in Servers, NEW d \in Disks, Exact(h, d)
        PROVE  Ready(h, d)' /\ Exact(h, d)'
    <2>1. Ready(h, d)'
      BY <1>2 DEF Ready
    <2>2. ASSUME NEW t \in Sources, AllAlive, ~stale[t], h \in Hosts(t)
          PROVE  Copied(t, d[FolderOn(t, h)])'
      <3>1. Copied(t, d[FolderOn(t, h)])
        BY <1>5, <2>2 DEF Exact
      <3>2. CASE t = round.src
        <4>1. ps = {p \in Paths : main[t][p].there} /\ d[FolderOn(t, h)] = NoFiles
          BY <1>1, <1>2, <2>2, <3>1, <3>2 DEF RoundInv, AllAlive, Copied
        <4>2. Halfway(t, d[FolderOn(t, h)])'
          BY <1>2, <3>2, <4>1, ValuesAre, ReplicationSets DEF Halfway, MainInv
        <4>. QED BY <1>2, <3>2, <4>2 DEF Copied, Idle
      <3>3. CASE t # round.src
        BY <1>2, <3>1, <3>3 DEF Copied, Idle
      <3>. QED BY <3>2, <3>3
    <2>. QED BY <1>2, <2>1, <2>2 DEF Exact, AllAlive
  <1>6. FateInv'
    BY <1>2, <1>5, FatesStay
  <1>. QED BY <1>3, <1>4, <1>6

LEMMA EndStep ==
    ASSUME CopiesInv, End
    PROVE  CopiesInv'
  <1>. USE DEF CopiesInv
  <1>1. /\ round.pc = "entry" /\ round.todo = {} /\ round.src \in Servers
        /\ round' = [round EXCEPT !.pc = "idle"]
        /\ kept' = [kept EXCEPT ![round.src] =
                      IF alive[round.src] /\ ~stale[round.src]
                      THEN {p \in Paths : main[round.src][p].there} ELSE @]
        /\ UNCHANGED <<main, copy, wire, alive, available, due, version, stale>>
    BY DEF End, TypeOK
  <1>2. round'.src = round.src /\ round'.pc = "idle" /\ round'.todo = {}
    BY <1>1 DEF TypeOK
  <1>3. round' \in [src : Servers, pc : {"idle", "wipe", "list", "entry", "text"},
                    todo : SUBSET Paths]
    BY <1>1 DEF TypeOK
  <1>4. kept' \in [Servers -> SUBSET Paths]
    BY <1>1 DEF TypeOK
  <1>5. TypeOK'
    BY <1>1, <1>3, <1>4 DEF TypeOK
  <1>6. RoundInv' /\ MainInv'
    BY <1>1, <1>2 DEF RoundInv, MainInv, Idle
  <1>7. ASSUME NEW h \in Servers, NEW d \in Disks, Exact(h, d)
        PROVE  Ready(h, d)' /\ Exact(h, d)'
    <2>1. Ready(h, d)'
      BY <1>2 DEF Ready
    <2>2. ASSUME NEW t \in Sources, AllAlive, ~stale[t], h \in Hosts(t)
          PROVE  Copied(t, d[FolderOn(t, h)])'
      <3>1. Copied(t, d[FolderOn(t, h)]) /\ t \in Servers
        BY <1>7, <2>2, ReplicationSets DEF Exact
      <3>2. d[FolderOn(t, h)] = main[t]
        <4>1. CASE t = round.src
          <5>1. \A p \in Paths : d[FolderOn(t, h)][p] = main[t][p]
            BY <1>1, <3>1, <4>1 DEF Copied, Halfway
          <5>2. d[FolderOn(t, h)] \in [Paths -> Values] /\ main[t] \in [Paths -> Values]
            BY <3>1, FoldersOf DEF Disks, TypeOK
          <5>. QED BY <5>1, <5>2
        <4>2. CASE t # round.src
          BY <3>1, <4>2 DEF Copied
        <4>. QED BY <4>1, <4>2
      <3>. QED BY <1>1, <1>2, <3>2 DEF Copied
    <2>. QED BY <1>1, <2>1, <2>2 DEF Exact, AllAlive
  <1>8. FateInv'
    BY <1>1, <1>7, FatesStay
  <1>. QED BY <1>5, <1>6, <1>8

-----------------------------------------------------------------------------
(* A host does what it was asked, or dies.                                  *)

LEMMA ServeStep ==
    ASSUME "coalesce" \notin Events, CopiesInv, NEW h \in Servers, Serve(h)
    PROVE  CopiesInv'
  <1>. USE DEF CopiesInv
  <1>. DEFINE m == wire[h][1]
  <1>1. /\ wire[h] # <<>> /\ wire[h] \in Seq(Requests)
        /\ UNCHANGED <<main, alive, available, due, round, version, stale, kept>>
    BY DEF Serve, TypeOK
  <1>2. /\ Head(wire[h]) = m /\ m \in Requests
        /\ Tail(wire[h]) \in Seq(Requests) /\ SubSeq(wire[h], 2, Len(wire[h])) = Tail(wire[h])
    BY <1>1, HeadTailProperties, TailIsSubSeq
  <1>3. PICK n \in {0} :
          /\ copy' = [copy EXCEPT ![h] = [@ EXCEPT ![m.folder] =
                        IF n = 0 THEN Done(copy[h][m.folder], m)
                        ELSE Done(Done(copy[h][m.folder], m), Spilt(m))]]
          /\ wire' = [wire EXCEPT ![h] = SubSeq(@, n + 2, Len(@))]
    BY <1>2 DEF Serve
  <1>4. /\ copy' = [copy EXCEPT ![h] = Then(copy[h], m)]
        /\ wire' = [wire EXCEPT ![h] = Tail(@)]
    <2>1. n = 0
      BY <1>3
    <2>2. wire' = [wire EXCEPT ![h] = SubSeq(@, 2, Len(@))]
      BY <1>3, <2>1
    <2>3. copy' = [copy EXCEPT ![h] = [@ EXCEPT ![m.folder] = Done(copy[h][m.folder], m)]]
      BY <1>3, <2>1
    <2>4. wire' = [wire EXCEPT ![h] = Tail(@)]
      BY <1>2, <2>2
    <2>5. Then(copy[h], m) = [copy[h] EXCEPT ![m.folder] = Done(@, m)]
      BY DEF Then
    <2>. QED BY <2>3, <2>4, <2>5, Zenon
  <1>5. copy \in [Servers -> Disks] /\ Then(copy[h], m) \in Disks
    BY <1>2, ThenType DEF TypeOK, Disks
  <1>6. copy' \in [Servers -> Disks] /\ wire' \in [Servers -> Seq(Requests)]
    BY <1>2, <1>4, <1>5 DEF TypeOK
  <1>7. TypeOK'
    BY <1>1, <1>6 DEF TypeOK, Disks
  <1>8. RoundInv' /\ MainInv'
    BY <1>1 DEF RoundInv, MainInv, Idle
  <1>9. ASSUME NEW g \in Servers, NEW d \in Disks, Fate(g, d)
        PROVE  Fate(g, d)'
    <2>1. CASE g = h
      <3>1. wire'[h] = Tail(wire[h]) /\ copy'[h] = Then(copy[h], wire[h][1])
        BY <1>4, <1>5 DEF TypeOK
      <3>. QED BY <1>1, <1>9, <2>1, <3>1, FateServes
    <2>2. CASE g # h
      <3>1. wire'[g] = wire[g] /\ copy'[g] = copy[g]
        BY <1>4, <2>2 DEF TypeOK
      <3>. QED BY <1>9, <3>1, FateStays
    <2>. QED BY <2>1, <2>2
  <1>10. \A g \in Servers, d \in Disks : Ready(g, d) /\ Exact(g, d) => Ready(g, d)' /\ Exact(g, d)'
    BY <1>1 DEF Ready, Exact, Copied, Halfway, Idle, AllAlive
  <1>11. FateInv'
    BY <1>9, <1>10 DEF FateInv
  <1>. QED BY <1>7, <1>8, <1>11

LEMMA CrashStep ==
    ASSUME CopiesInv, NEW s \in Servers, Crash(s)
    PROVE  CopiesInv'
  <1>. USE DEF CopiesInv
  <1>1. /\ alive' = [alive EXCEPT ![s] = FALSE] /\ wire' = [wire EXCEPT ![s] = <<>>]
        /\ UNCHANGED <<main, copy, available, due, round, version, stale, kept>>
    BY DEF Crash
  <1>2. ~alive'[s] /\ wire'[s] = <<>> /\ \A h \in Servers : h # s => wire'[h] = wire[h] /\ alive'[h] = alive[h]
    BY <1>1 DEF TypeOK
  <1>3. TypeOK'
    BY <1>1, EmptySeq DEF TypeOK
  <1>4. RoundInv' /\ MainInv'
    BY <1>1, <1>2 DEF RoundInv, MainInv, Idle
  <1>5. \A h \in Servers, d \in Disks : Exact(h, d)'
    BY <1>2 DEF Exact, AllAlive
  <1>6. ASSUME NEW h \in Servers
        PROVE  \E d \in Disks : Fate(h, d)' /\ Ready(h, d)'
    <2>1. PICK d \in Disks : Fate(h, d) /\ Ready(h, d)
      BY DEF FateInv
    <2>2. CASE h = s
      <3>1. copy[h] \in Disks /\ Unmixed(h, copy[h])
        BY <2>1, FateNow DEF TypeOK, Disks
      <3>2. Fate(h, copy[h])'
        <4>1. ASSUME NEW e \in Disks, e = copy[h] PROVE Fate(h, e)'
          BY <1>1, <1>2, <2>2, <3>1, <4>1, FateOfIdle
        <4>. QED BY <1>1, <3>1, <4>1
      <3>. QED BY <1>1, <1>2, <2>2, <3>1, <3>2 DEF Ready
    <2>3. CASE h # s
      <3>1. Fate(h, d)'
        BY <1>1, <1>2, <2>1, <2>3, FateStays
      <3>2. Ready(h, d)'
        BY <1>1, <1>2, <2>1, <2>3 DEF Ready
      <3>. QED BY <3>1, <3>2
    <2>. QED BY <2>2, <2>3
  <1>7. FateInv'
    BY <1>5, <1>6 DEF FateInv
  <1>. QED BY <1>3, <1>4, <1>7

-----------------------------------------------------------------------------
(* The round sends.                                                         *)

LEMMA ToHostsSends ==
    ASSUME TypeOK, NEW q, ToHosts(q),
           \A h \in Servers : q[h] = <<>> \/ \E m \in Requests : q[h] = <<m>>
    PROVE  /\ wire' \in [Servers -> Seq(Requests)]
           /\ \A h \in Servers : q[h] = <<>> \/ h \notin Hosts(round.src) \/ ~alive[h] => wire'[h] = wire[h]
           /\ \A h \in Servers, m \in Requests :
                h \in Hosts(round.src) /\ alive[h] /\ q[h] = <<m>> => wire'[h] = Append(wire[h], m)
  <1>1. \A h \in Servers : wire[h] \in Seq(Requests)
    BY DEF TypeOK
  <1>2. wire' = [h \in Servers |->
                  IF h \in Hosts(round.src) /\ alive[h] THEN wire[h] \o q[h] ELSE wire[h]]
    BY DEF ToHosts
  <1>3. \A h \in Servers : wire[h] \o <<>> = wire[h]
    BY <1>1, ConcatEmptySeq
  <1>4. \A h \in Servers, m \in Requests :
          wire[h] \o <<m>> = Append(wire[h], m) /\ Append(wire[h], m) \in Seq(Requests)
    BY <1>1, AppendIsConcat, AppendProperties
  <1>5. \A h \in Servers : wire'[h] \in Seq(Requests)
    <2>1. TAKE h \in Servers
    <2>2. CASE q[h] = <<>>
      BY <1>1, <1>2, <1>3, <2>2
    <2>3. CASE \E m \in Requests : q[h] = <<m>>
      BY <1>1, <1>2, <1>4, <2>3
    <2>. QED BY <2>2, <2>3
  <1>6. wire' \in [Servers -> Seq(Requests)]
    BY <1>2, <1>5
  <1>7. \A h \in Servers : q[h] = <<>> \/ h \notin Hosts(round.src) \/ ~alive[h] => wire'[h] = wire[h]
    BY <1>2, <1>3
  <1>8. \A h \in Servers, m \in Requests :
          h \in Hosts(round.src) /\ alive[h] /\ q[h] = <<m>> => wire'[h] = Append(wire[h], m)
    BY <1>2, <1>4
  <1>. QED BY <1>6, <1>7, <1>8

LEMMA FateClean ==
    ASSUME TypeOK, NEW h \in Servers, NEW d, Fate(h, d)
    PROVE  Unmixed(h, d)
  <1>1. Len(wire[h]) \in Nat
    BY LenProperties DEF TypeOK
  <1>. QED BY <1>1 DEF Fate

LEMMA ThenApart ==
    ASSUME NEW h \in Servers, NEW s \in Servers, NEW t \in Servers, s # t,
           h \in Hosts(s), h \in Hosts(t),
           NEW d \in Disks, NEW m \in Requests, m.folder = FolderOn(s, h)
    PROVE  Then(d, m)[FolderOn(t, h)] = d[FolderOn(t, h)]
BY ThenType, FoldersOf, FoldersApart

\* One more request to a host of the round's server.
LEMMA SentFate ==
    ASSUME TypeOK, NEW h \in Servers, NEW s \in Servers, h \in Hosts(s),
           NEW d \in Disks, Fate(h, d), NEW m \in Requests, m.folder = FolderOn(s, h),
           \A p \in Paths : TextOf(s, Done(d[FolderOn(s, h)], m)[p].text),
           wire'[h] = Append(wire[h], m), copy'[h] = copy[h]
    PROVE  Fate(h, Then(d, m))'
  <1>1. Unmixed(h, d)
    BY FateClean
  <1>2. Unmixed(h, Then(d, m))
    <2>1. SUFFICES ASSUME NEW t \in Servers, NEW p \in Paths, h \in Hosts(t)
                   PROVE  TextOf(t, Then(d, m)[FolderOn(t, h)][p].text)
      BY DEF Unmixed
    <2>2. CASE t = s
      BY <2>2, ThenType
    <2>3. CASE t # s
      BY <1>1, <2>1, <2>3, ThenApart DEF Unmixed
    <2>. QED BY <2>2, <2>3
  <1>. QED BY <1>2, FateSends

\* The other servers' replicas on that host stay what they were to become.
LEMMA SentElsewhere ==
    ASSUME RoundInv, ~Idle, NEW h \in Servers, h \in Hosts(round.src),
           NEW d \in Disks, Exact(h, d),
           NEW m \in Requests, m.folder = FolderOn(round.src, h),
           round'.src = round.src,
           UNCHANGED <<main, alive, stale>>
    PROVE  \A t \in Sources : t # round.src /\ AllAlive /\ ~stale[t] /\ h \in Hosts(t) =>
             Copied(t, Then(d, m)[FolderOn(t, h)])'
  <1>1. TAKE t \in Sources
  <1>2. HAVE t # round.src /\ AllAlive /\ ~stale[t] /\ h \in Hosts(t)
  <1>3. t \in Servers /\ round.src \in Servers
    BY ReplicationSets DEF RoundInv
  <1>4. d[FolderOn(t, h)] = main[t]
    BY <1>2 DEF Exact, Copied
  <1>5. Then(d, m)[FolderOn(t, h)] = main[t]
    BY <1>2, <1>3, <1>4, ThenApart
  <1>. QED BY <1>2, <1>5 DEF Copied

\* A host to which nothing is sent.
LEMMA UnsentElsewhere ==
    ASSUME ~Idle, NEW h \in Servers, NEW d, Exact(h, d), round'.src = round.src,
           UNCHANGED <<main, alive, stale>>
    PROVE  \A t \in Sources : t # round.src /\ AllAlive /\ ~stale[t] /\ h \in Hosts(t) =>
             Copied(t, d[FolderOn(t, h)])'
BY DEF Exact, Copied

LEMMA RequestsAre ==
    ASSUME NEW op \in {"wipe", "make", "append"}, NEW f \in Folders, NEW p \in Paths \cup {0},
           NEW piece \in Pieces
    PROVE  /\ Request(op, f, p, piece)[1] \in Requests
           /\ Request(op, f, p, piece) = <<Request(op, f, p, piece)[1]>>
           /\ Request(op, f, p, piece)[1] = [op |-> op, folder |-> f, path |-> p, piece |-> piece]
BY DEF Request, Requests

LEMMA NoPieceIs == NoPiece \in Pieces
BY OneGroup, ReplicationBounds DEF NoPiece, Pieces, Servers

LEMMA WipeStep ==
    ASSUME CopiesInv, Wipe
    PROVE  CopiesInv'
  <1>. USE DEF CopiesInv
  <1>. DEFINE s == round.src
              r(h) == Request("wipe", FolderOn(s, h), 0, NoPiece)
              q == [h \in Servers |-> IF available[h] THEN r(h) ELSE <<>>]
  <1>1. /\ round.pc = "wipe" /\ s \in Sources /\ s \in Servers
        /\ round' = [round EXCEPT !.pc = "list"]
        /\ round'.src = s /\ round'.pc = "list" /\ round'.todo = round.todo
        /\ UNCHANGED <<main, copy, alive, available, due, version, stale, kept>>
    BY ReplicationSets DEF Wipe, TypeOK, RoundInv, Idle
  <1>2. \A h \in Servers :
          /\ r(h)[1] \in Requests /\ r(h) = <<r(h)[1]>>
          /\ r(h)[1].op = "wipe" /\ r(h)[1].folder = FolderOn(s, h)
    <2>1. TAKE h \in Servers
    <2>2. FolderOn(s, h) \in Folders /\ 0 \in Paths \cup {0} /\ "wipe" \in {"wipe", "make", "append"}
      BY <1>1, FoldersOf
    <2>3. /\ r(h)[1] \in Requests /\ r(h) = <<r(h)[1]>>
          /\ r(h)[1] = [op |-> "wipe", folder |-> FolderOn(s, h), path |-> 0, piece |-> NoPiece]
      BY <2>2, RequestsAre, NoPieceIs, Zenon
    <2>. QED BY <2>3
  <1>3. ToHosts(q)
    BY DEF Wipe
  <1>. HIDE DEF r
  <1>4. \A h \in Servers : q[h] = <<>> \/ \E m \in Requests : q[h] = <<m>>
    BY <1>2
  <1>5. /\ wire' \in [Servers -> Seq(Requests)]
        /\ \A h \in Servers : ~available[h] \/ h \notin Hosts(s) \/ ~alive[h] => wire'[h] = wire[h]
        /\ \A h \in Servers :
             available[h] /\ h \in Hosts(s) /\ alive[h] => wire'[h] = Append(wire[h], r(h)[1])
    BY <1>2, <1>3, <1>4, ToHostsSends
  <1>6. TypeOK'
    BY <1>1, <1>5 DEF TypeOK
  <1>7. RoundInv' /\ MainInv'
    BY <1>1 DEF RoundInv, MainInv, Idle
  <1>8. ASSUME NEW h \in Servers
        PROVE  (\E d \in Disks : Fate(h, d) /\ Ready(h, d) /\ Exact(h, d))'
    <2>1. PICK d \in Disks : Fate(h, d) /\ Ready(h, d) /\ Exact(h, d)
      BY DEF FateInv
    <2>2. CASE available[h] /\ h \in Hosts(s) /\ alive[h]
      <3>1. PICK m \in Requests : /\ m.op = "wipe" /\ m.folder = FolderOn(s, h)
                                  /\ wire'[h] = Append(wire[h], m)
        BY <1>2, <1>5, <2>2
      <3>2. \A f : Done(f, m) = NoFiles
        BY <3>1 DEF Done
      <3>3. \A p \in Paths : TextOf(s, NoFiles[p].text)
        BY ValuesAre, EmptySeq DEF TextOf
      <3>4. Fate(h, Then(d, m))'
        BY <1>1, <2>1, <2>2, <3>1, <3>2, <3>3, SentFate
      <3>5. Ready(h, Then(d, m))'
        BY <1>1 DEF Ready
      <3>6. Then(d, m) \in Disks /\ Then(d, m)[FolderOn(s, h)] = NoFiles
        BY <3>1, <3>2, ThenType
      <3>7. ASSUME NEW t \in Sources, AllAlive, ~stale[t], h \in Hosts(t)
            PROVE  Copied(t, Then(d, m)[FolderOn(t, h)])'
        <4>1. CASE t = s
          BY <1>1, <3>6, <4>1 DEF Copied, Idle
        <4>2. CASE t # s
          BY <1>1, <2>1, <2>2, <3>1, <3>7, <4>2, SentElsewhere DEF Idle
        <4>. QED BY <4>1, <4>2
      <3>8. Exact(h, Then(d, m))'
        BY <1>1, <3>7 DEF Exact, AllAlive
      <3>. QED BY <3>4, <3>5, <3>6, <3>8
    <2>3. CASE ~(available[h] /\ h \in Hosts(s) /\ alive[h])
      <3>1. Fate(h, d)'
        BY <1>1, <1>5, <2>1, <2>3, FateStays
      <3>2. Ready(h, d)'
        BY <1>1 DEF Ready
      <3>3. ASSUME NEW t \in Sources, AllAlive, ~stale[t], h \in Hosts(t)
            PROVE  Copied(t, d[FolderOn(t, h)])'
        <4>1. t # s
          BY <2>3, <3>3 DEF AllAlive, RoundInv
        <4>. QED BY <1>1, <2>1, <3>3, <4>1, UnsentElsewhere DEF Idle
      <3>4. Exact(h, d)'
        BY <1>1, <3>3 DEF Exact, AllAlive
      <3>. QED BY <2>1, <3>1, <3>2, <3>4
    <2>. QED BY <2>2, <2>3
  <1>9. FateInv'
    BY <1>8 DEF FateInv
  <1>. QED BY <1>6, <1>7, <1>9

LEMMA EntryStep ==
    ASSUME CopiesInv, Entry
    PROVE  CopiesInv'
  <1>. USE DEF CopiesInv
  <1>. DEFINE s == round.src
              p == Next1(round.todo)
              r(h) == Request("make", FolderOn(s, h), p, NoPiece)
              q == [h \in Servers |-> r(h)]
  <1>1. /\ round.pc = "entry" /\ s \in Sources /\ s \in Servers
        /\ round.todo \in SUBSET Paths /\ round.todo # {}
        /\ round' = IF alive[s] /\ p \notin Dirs
                    THEN [round EXCEPT !.pc = "text"] ELSE [round EXCEPT !.todo = @ \ {p}]
        /\ UNCHANGED <<main, copy, alive, available, due, version, stale, kept>>
    BY ReplicationSets DEF Entry, TypeOK, RoundInv, Idle
  <1>2. p \in round.todo /\ p \in Paths
    BY <1>1, Next1In
  <1>3. /\ round'.src = s
        /\ alive[s] /\ p \notin Dirs => round'.pc = "text" /\ round'.todo = round.todo
        /\ ~(alive[s] /\ p \notin Dirs) => round'.pc = "entry" /\ round'.todo = round.todo \ {p}
        /\ round' \in [src : Servers, pc : {"idle", "wipe", "list", "entry", "text"},
                       todo : SUBSET Paths]
    BY <1>1 DEF TypeOK
  <1>4. \A h \in Servers :
          /\ r(h)[1] \in Requests /\ r(h) = <<r(h)[1]>>
          /\ r(h)[1].op = "make" /\ r(h)[1].folder = FolderOn(s, h) /\ r(h)[1].path = p
    <2>1. TAKE h \in Servers
    <2>2. FolderOn(s, h) \in Folders /\ p \in Paths \cup {0} /\ "make" \in {"wipe", "make", "append"}
      BY <1>1, <1>2, FoldersOf
    <2>. HIDE DEF p
    <2>3. /\ r(h)[1] \in Requests /\ r(h) = <<r(h)[1]>>
          /\ r(h)[1] = [op |-> "make", folder |-> FolderOn(s, h), path |-> p, piece |-> NoPiece]
      BY <2>2, RequestsAre, NoPieceIs, Zenon
    <2>. QED BY <2>3
  <1>5. ToHosts(q)
    BY DEF Entry
  <1>. HIDE DEF r, p
  <1>6. \A h \in Servers : q[h] = <<>> \/ \E m \in Requests : q[h] = <<m>>
    BY <1>4
  <1>7. /\ wire' \in [Servers -> Seq(Requests)]
        /\ \A h \in Servers : h \notin Hosts(s) \/ ~alive[h] => wire'[h] = wire[h]
        /\ \A h \in Servers : h \in Hosts(s) /\ alive[h] => wire'[h] = Append(wire[h], r(h)[1])
    BY <1>4, <1>5, <1>6, ToHostsSends
  <1>8. TypeOK'
    BY <1>1, <1>3, <1>7 DEF TypeOK
  <1>9. RoundInv' /\ MainInv'
    BY <1>1, <1>3 DEF RoundInv, MainInv, Idle
  <1>10. round'.pc \in {"entry", "text"} /\ (round'.pc = "text" => p = Next1(round'.todo) /\ p \notin Dirs)
    BY <1>3 DEF p
  <1>11. ASSUME NEW h \in Servers
         PROVE  (\E d \in Disks : Fate(h, d) /\ Ready(h, d) /\ Exact(h, d))'
    <2>1. PICK d \in Disks : Fate(h, d) /\ Ready(h, d) /\ Exact(h, d)
      BY DEF FateInv
    <2>2. CASE h \in Hosts(s) /\ alive[h]
      <3>1. PICK m \in Requests : /\ m.op = "make" /\ m.folder = FolderOn(s, h) /\ m.path = p
                                  /\ wire'[h] = Append(wire[h], m)
        BY <1>4, <1>7, <2>2
      <3>2. PICK f \in [Paths -> Values] : f = d[FolderOn(s, h)]
        BY <1>1, FoldersOf DEF Disks
      <3>3. PICK g : g = Done(f, m)
        OBVIOUS
      <3>10. g[p] = Empty /\ \A o \in Paths : o # p => g[o] = f[o]
        BY <1>2, <3>1, <3>2, <3>3 DEF Done
      <3>4. \A o \in Paths : TextOf(s, g[o].text)
        <4>1. TextOf(s, Empty.text)
          BY ValuesAre, EmptySeq DEF TextOf
        <4>2. \A o \in Paths : TextOf(s, f[o].text)
          BY <1>1, <2>1, <2>2, <3>2, FateClean DEF Unmixed
        <4>. QED BY <3>10, <4>1, <4>2
      <3>5. Fate(h, Then(d, m))'
        BY <1>1, <2>1, <2>2, <3>1, <3>2, <3>3, <3>4, SentFate
      <3>6. Then(d, m) \in Disks /\ Then(d, m)[FolderOn(s, h)] = g
        BY <3>1, <3>2, <3>3, ThenType
      <3>7. Ready(h, Then(d, m))'
        BY <1>1, <1>3, <1>10, <3>10, <3>6, ValuesAre DEF Ready
      <3>8. ASSUME NEW t \in Sources, AllAlive, ~stale[t], h \in Hosts(t)
            PROVE  Copied(t, Then(d, m)[FolderOn(t, h)])'
        <4>1. CASE t = s
          <5>1. Halfway(t, f) /\ alive[t]
            BY <1>1, <2>1, <3>2, <3>8, <4>1 DEF Exact, Copied, AllAlive
          <5>2. \A o \in Paths :
                  /\ o \in round.todo => main[t][o].there /\ f[o] = Absent
                  /\ o \notin round.todo => f[o] = main[t][o]
            BY <1>1, <5>1 DEF Halfway
          <5>3. p \in Dirs => main[t][p] = Empty
            BY <1>1, <1>2, <4>1, <5>2, ThereIs DEF MainInv, TypeOK
          <5>4. ASSUME NEW o \in Paths
                PROVE  /\ o \in round'.todo => main[t][o].there
                       /\ o \notin round'.todo => g[o] = main[t][o]
                       /\ o \in round'.todo => g[o] = IF round'.pc = "text" /\ o = p
                                                      THEN Empty ELSE Absent
            <6>1. CASE alive[s] /\ p \notin Dirs
              BY <1>1, <1>2, <1>3, <3>10, <5>2, <6>1
            <6>2. CASE ~(alive[s] /\ p \notin Dirs)
              BY <1>1, <1>2, <1>3, <3>10, <4>1, <5>1, <5>2, <5>3, <6>2
            <6>. QED BY <6>1, <6>2
          <5>5. Halfway(t, g)'
            BY <1>1, <1>10, <5>4 DEF Halfway
          <5>6. Then(d, m)[FolderOn(t, h)] = g
            BY <3>6, <4>1
          <5>. QED BY <1>3, <1>10, <4>1, <5>5, <5>6 DEF Copied, Idle
        <4>2. CASE t # s
          BY <1>1, <1>3, <2>1, <2>2, <3>1, <3>8, <4>2, SentElsewhere DEF Idle
        <4>. QED BY <4>1, <4>2
      <3>9. Exact(h, Then(d, m))'
        BY <1>1, <3>8 DEF Exact, AllAlive
      <3>. QED BY <3>5, <3>6, <3>7, <3>9
    <2>3. CASE ~(h \in Hosts(s) /\ alive[h])
      <3>1. Fate(h, d)'
        BY <1>1, <1>7, <2>1, <2>3, FateStays
      <3>2. Ready(h, d)'
        BY <1>1, <1>3, <2>3 DEF Ready
      <3>3. ASSUME NEW t \in Sources, AllAlive, ~stale[t], h \in Hosts(t)
            PROVE  Copied(t, d[FolderOn(t, h)])'
        <4>1. t # s
          BY <2>3, <3>3 DEF AllAlive
        <4>. QED BY <1>1, <1>3, <2>1, <3>3, <4>1, UnsentElsewhere DEF Idle
      <3>4. Exact(h, d)'
        BY <1>1, <3>3 DEF Exact, AllAlive
      <3>. QED BY <2>1, <3>1, <3>2, <3>4
    <2>. QED BY <2>2, <2>3
  <1>12. FateInv'
    BY <1>11 DEF FateInv
  <1>. QED BY <1>8, <1>9, <1>12

\* The text of every host goes to the first host's folder, which is the second
\* host's too unless s is the middle server of the group.
LEMMA OneFolder ==
    ASSUME NEW s \in Servers, s # 1, NEW h \in Hosts(s)
    PROVE  Folder1(s) = FolderOn(s, h)
  <1>1. s \in {0, 2}
    BY OneGroup DEF Servers
  <1>. QED BY <1>1 DEF FolderOn, Folder1, Folder2

LEMMA OneChunk ==
    ASSUME NEW s, NEW text \in Seq(Pieces), TextOf(s, text), text # <<>>
    PROVE  text[1] \in Pieces /\ text = <<text[1]>>
  <1>1. Len(text) \in Nat /\ Len(text) # 0
    BY EmptySeq
  <1>2. Len(text) = 1 /\ text[1] \in Pieces
    <2>1. PICK n \in Nat : n = Len(text) /\ n # 0 /\ n <= 1
      BY <1>1 DEF TextOf
    <2>2. n = 1
      BY <2>1
    <2>. QED BY <2>1, <2>2, ElementOfSeq
  <1>3. <<text[1]>> \in Seq(Pieces) /\ Len(<<text[1]>>) = 1 /\ <<text[1]>>[1] = text[1]
    BY <1>2
  <1>. QED BY <1>2, <1>3, SeqEqual

LEMMA TextStep ==
    ASSUME 1 \notin Sources, CopiesInv, Text
    PROVE  CopiesInv'
  <1>. USE DEF CopiesInv
  <1>. DEFINE s == round.src
              p == Next1(round.todo)
              text == main[s][p].text
              r == Request("append", Folder1(s), p, text[1])
              q == [h \in Servers |-> IF alive[s] /\ text # <<>> THEN r ELSE <<>>]
  <1>1. /\ round.pc = "text" /\ s \in Sources /\ s \in Servers /\ s # 1
        /\ round.todo \in SUBSET Paths /\ round.todo # {}
        /\ round' = [round EXCEPT !.pc = "entry", !.todo = @ \ {p}]
        /\ UNCHANGED <<main, copy, alive, available, due, version, stale, kept>>
    BY ReplicationSets DEF Text, TypeOK, RoundInv, Idle
  <1>2. p \in round.todo /\ p \in Paths
    BY <1>1, Next1In
  <1>3. /\ round'.src = s /\ round'.pc = "entry" /\ round'.todo = round.todo \ {p}
        /\ round' \in [src : Servers, pc : {"idle", "wipe", "list", "entry", "text"},
                       todo : SUBSET Paths]
    BY <1>1 DEF TypeOK
  <1>4. main[s][p] \in Values /\ TextOf(s, text)
    BY <1>1, <1>2 DEF TypeOK, MainInv
  <1>5. text # <<>> => text[1] \in Pieces /\ text = <<text[1]>>
    <2>1. text \in Seq(Pieces)
      BY <1>4 DEF Values
    <2>. HIDE DEF text
    <2>. QED BY <1>4, <2>1, OneChunk
  <1>6. text # <<>> =>
          /\ r[1] \in Requests /\ r = <<r[1]>>
          /\ r[1].op = "append" /\ r[1].folder = Folder1(s) /\ r[1].path = p /\ r[1].piece = text[1]
    <2>1. Folder1(s) \in Folders /\ p \in Paths \cup {0} /\ "append" \in {"wipe", "make", "append"}
      BY <1>1, <1>2 DEF Folder1, Folders
    <2>. HIDE DEF p, text
    <2>2. ASSUME text # <<>>
          PROVE  /\ r[1] \in Requests /\ r = <<r[1]>>
                 /\ r[1] = [op |-> "append", folder |-> Folder1(s), path |-> p, piece |-> text[1]]
      <3>1. text[1] \in Pieces
        BY <1>5, <2>2
      <3>. HIDE DEF s
      <3>. QED BY <2>1, <3>1 DEF Request, Requests
    <2>. QED BY <2>2
  <1>7. ToHosts(q)
    BY DEF Text
  <1>. HIDE DEF r, text, p
  <1>8. \A h \in Servers : q[h] = <<>> \/ \E m \in Requests : q[h] = <<m>>
    BY <1>6
  <1>9. /\ wire' \in [Servers -> Seq(Requests)]
        /\ \A h \in Servers : ~alive[s] \/ text = <<>> \/ h \notin Hosts(s) \/ ~alive[h] =>
                                wire'[h] = wire[h]
        /\ \A h \in Servers : alive[s] /\ text # <<>> /\ h \in Hosts(s) /\ alive[h] =>
                                wire'[h] = Append(wire[h], r[1])
    <2>1. \A h \in Servers : q[h] = IF alive[s] /\ text # <<>> THEN <<r[1]>> ELSE <<>>
      BY <1>6
    <2>. HIDE DEF q
    <2>. QED BY <1>6, <1>7, <1>8, <2>1, ToHostsSends
  <1>10. TypeOK'
    BY <1>1, <1>3, <1>9 DEF TypeOK
  <1>11. RoundInv' /\ MainInv'
    BY <1>1, <1>3 DEF RoundInv, MainInv, Idle
  <1>12. ASSUME NEW t \in Sources, t = s, NEW f, NEW g, AllAlive, Halfway(t, f),
                g[p] = main[t][p], \A o \in Paths : o # p => g[o] = f[o]
         PROVE  Copied(t, g)'
    <2>1. \A o \in Paths :
            /\ o \in round.todo \ {p} => main[t][o].there /\ g[o] = Absent
            /\ o \notin round.todo \ {p} => g[o] = main[t][o]
      BY <1>2, <1>12 DEF Halfway, p
    <2>2. Halfway(t, g)'
      BY <1>1, <1>3, <2>1 DEF Halfway
    <2>. QED BY <1>3, <1>12, <2>2 DEF Copied, Idle
  <1>13. ASSUME NEW h \in Servers
         PROVE  (\E d \in Disks : Fate(h, d) /\ Ready(h, d) /\ Exact(h, d))'
    <2>1. PICK d \in Disks : Fate(h, d) /\ Ready(h, d) /\ Exact(h, d)
      BY DEF FateInv
    <2>2. \A e : Ready(h, e)'
      BY <1>3 DEF Ready
    <2>3. PICK f : f = d[FolderOn(s, h)]
      OBVIOUS
    <2>4. f \in [Paths -> Values]
      BY <1>1, <2>3, FoldersOf DEF Disks
    <2>5. h \in Hosts(s) /\ alive[h] => f[p].text = <<>>
      BY <1>1, <2>1, <2>3 DEF Ready, p
    <2>6. ASSUME NEW t \in Sources, t = s, AllAlive, ~stale[t], h \in Hosts(t)
          PROVE  Halfway(t, f) /\ main[t][p].there /\ f[p] = Empty /\ alive[t]
      BY <1>1, <1>2, <2>1, <2>3, <2>6 DEF Exact, Copied, Halfway, AllAlive, p
    <2>7. CASE alive[s] /\ text # <<>> /\ h \in Hosts(s) /\ alive[h]
      <3>1. PICK m \in Requests : /\ m.op = "append" /\ m.folder = FolderOn(s, h) /\ m.path = p
                                  /\ m.piece = text[1] /\ wire'[h] = Append(wire[h], m)
        BY <1>1, <1>6, <1>9, <2>7, OneFolder
      <3>2. PICK g : g = Done(f, m)
        OBVIOUS
      <3>3. /\ g[p] = [there |-> TRUE, text |-> <<text[1]>>]
            /\ \A o \in Paths : o # p => g[o] = f[o]
        <4>1. Append(f[p].text, m.piece) = <<text[1]>>
          <5>1. Append(<<>>, text[1]) = <<text[1]>>
            OBVIOUS
          <5>. QED BY <2>5, <2>7, <3>1, <5>1
        <4>2. g = [f EXCEPT ![p] = [there |-> TRUE, text |-> Append(f[p].text, m.piece)]]
          BY <3>1, <3>2 DEF Done
        <4>. QED BY <1>2, <2>4, <4>1, <4>2
      <3>4. \A o \in Paths : TextOf(s, g[o].text)
        <4>1. TextOf(s, g[p].text)
          BY <1>4, <1>5, <2>7, <3>3
        <4>2. \A o \in Paths : TextOf(s, f[o].text)
          BY <1>1, <2>1, <2>3, <2>7, FateClean DEF Unmixed
        <4>. QED BY <3>3, <4>1, <4>2
      <3>5. Fate(h, Then(d, m))'
        BY <1>1, <2>1, <2>3, <2>7, <3>1, <3>2, <3>4, SentFate
      <3>6. Then(d, m) \in Disks /\ Then(d, m)[FolderOn(s, h)] = g
        BY <2>3, <3>1, <3>2, ThenType
      <3>7. ASSUME NEW t \in Sources, AllAlive, ~stale[t], h \in Hosts(t)
            PROVE  Copied(t, Then(d, m)[FolderOn(t, h)])'
        <4>1. CASE t = s
          <5>1. Halfway(t, f) /\ main[t][p].there
            BY <2>6, <3>7, <4>1
          <5>2. g[p] = main[t][p]
            BY <1>4, <1>5, <2>7, <3>3, <4>1, <5>1, ThereIs DEF text
          <5>3. Then(d, m)[FolderOn(t, h)] = g
            BY <3>6, <4>1
          <5>. QED BY <1>12, <3>3, <3>7, <4>1, <5>1, <5>2, <5>3
        <4>2. CASE t # s
          BY <1>1, <1>3, <2>1, <2>7, <3>1, <3>7, <4>2, SentElsewhere DEF Idle
        <4>. QED BY <4>1, <4>2
      <3>8. Exact(h, Then(d, m))'
        BY <1>1, <3>7 DEF Exact, AllAlive
      <3>. QED BY <2>2, <3>5, <3>6, <3>8
    <2>8. CASE ~(alive[s] /\ text # <<>> /\ h \in Hosts(s) /\ alive[h])
      <3>1. Fate(h, d)'
        BY <1>1, <1>9, <2>1, <2>8, FateStays
      <3>2. ASSUME NEW t \in Sources, AllAlive, ~stale[t], h \in Hosts(t)
            PROVE  Copied(t, d[FolderOn(t, h)])'
        <4>1. CASE t = s
          <5>1. Halfway(t, f) /\ main[t][p].there /\ f[p] = Empty /\ text = <<>>
            BY <2>6, <2>8, <3>2, <4>1 DEF AllAlive
          <5>2. f[p] = main[t][p]
            BY <1>4, <4>1, <5>1, ThereIs DEF text
          <5>3. d[FolderOn(t, h)] = f
            BY <2>3, <4>1
          <5>. QED BY <1>12, <3>2, <4>1, <5>1, <5>2, <5>3
        <4>2. CASE t # s
          BY <1>1, <1>3, <2>1, <3>2, <4>2, UnsentElsewhere DEF Idle
        <4>. QED BY <4>1, <4>2
      <3>3. Exact(h, d)'
        BY <1>1, <3>2 DEF Exact, AllAlive
      <3>. QED BY <2>1, <2>2, <3>1, <3>3
    <2>. QED BY <2>7, <2>8
  <1>14. FateInv'
    BY <1>13 DEF FateInv
  <1>. QED BY <1>10, <1>11, <1>14

-----------------------------------------------------------------------------
(* The behaviours.                                                          *)

LEMMA InitCopies == Init => CopiesInv
  <1>. SUFFICES ASSUME Init PROVE CopiesInv
    OBVIOUS
  <1>1. 0 \in Servers /\ 0 \in 0 .. MaxVersion
    BY OneGroup, ReplicationBounds DEF Servers
  <1>2. TypeOK
    BY <1>1, ValuesAre, EmptySeq DEF Init, TypeOK
  <1>3. RoundInv
    BY DEF Init, RoundInv, Idle
  <1>4. MainInv
    BY ValuesAre, EmptySeq DEF Init, MainInv, TextOf
  <1>5. ASSUME NEW h \in Servers
        PROVE  \E d \in Disks : Fate(h, d) /\ Ready(h, d) /\ Exact(h, d)
    <2>. DEFINE d == copy[h]
                t == <<d>>
    <2>1. wire[h] = <<>> /\ d \in Disks /\ \A f \in Folders : d[f] = NoFiles
      BY ValuesAre DEF Init, Disks
    <2>2. Unmixed(h, d)
      BY <2>1, FoldersOf, ValuesAre, EmptySeq DEF Unmixed, TextOf
    <2>. HIDE DEF d
    <2>3. t \in Seq(Disks) /\ Len(t) = 1 /\ t[1] = d /\ Len(wire[h]) = 0
      BY <2>1
    <2>4. Fate(h, d)
      <3>. HIDE DEF t
      <3>1. \A n \in 1 .. Len(t) : Unmixed(h, t[n])
        BY <2>2, <2>3
      <3>2. \A n \in 1 .. Len(wire[h]) : t[n + 1] = Then(t[n], wire[h][n])
        BY <2>3
      <3>. QED BY <2>3, <3>1, <3>2 DEF Fate, d
    <2>5. Ready(h, d) /\ Exact(h, d)
      BY ReplicationSets DEF Init, Ready, Exact
    <2>. QED BY <2>1, <2>4, <2>5
  <1>. QED BY <1>2, <1>3, <1>4, <1>5 DEF CopiesInv, FateInv

LEMMA StutterCopies == CopiesInv /\ UNCHANGED vars => CopiesInv'
  <1>. SUFFICES ASSUME CopiesInv, UNCHANGED vars PROVE CopiesInv'
    OBVIOUS
  <1>. USE DEF CopiesInv, vars
  <1>1. TypeOK' /\ RoundInv' /\ MainInv'
    BY DEF TypeOK, RoundInv, MainInv, Idle
  <1>2. FateInv'
    BY FatesStay DEF Ready, Exact, Copied, Halfway, Idle, AllAlive
  <1>. QED BY <1>1, <1>2

LEMMA NextCopies ==
    ASSUME "coalesce" \notin Events, 1 \notin Sources, CopiesInv, [Next]_vars
    PROVE  CopiesInv'
  <1>1. ASSUME NEW s \in Servers, NEW p \in Paths, Create(s, p) \/ Delete(s, p) \/ Write(s, p)
        PROVE  CopiesInv'
    BY <1>1, CreateStep, DeleteStep, WriteStep, Zenon
  <1>2. ASSUME NEW s \in Servers, Timer(s) \/ Start(s) \/ Serve(s) \/ Crash(s) \/ MarkDown(s)
        PROVE  CopiesInv'
    BY <1>2, TimerStep, StartStep, ServeStep, CrashStep, MarkDownStep, Zenon
  <1>3. CASE Round
    BY <1>3, WipeStep, ListStep, EntryStep, TextStep, EndStep, Zenon DEF Round
  <1>4. CASE UNCHANGED vars
    BY <1>4, StutterCopies
  <1>. QED BY <1>1, <1>2, <1>3, <1>4, Zenon DEF Next

\* The fates of the hosts are settled by what is sent to them (redundant_copy,
\* deletereddir, createREDdir, createREDfile, copyREDfile).
THEOREM CopiesStay ==
    ASSUME "coalesce" \notin Events, 1 \notin Sources
    PROVE  Spec => []CopiesInv
  <1>1. CopiesInv /\ [Next]_vars => CopiesInv'
    BY NextCopies
  <1>. QED BY InitCopies, <1>1, PTL DEF Spec

LEMMA CopiesUnmixed == CopiesInv => ReplicaUnmixed
  <1>. SUFFICES ASSUME CopiesInv PROVE ReplicaUnmixed
    OBVIOUS
  <1>1. \A h \in Servers : Unmixed(h, copy[h])
    BY FateNow DEF CopiesInv, FateInv
  <1>2. \A s \in Servers : Hosts(s) \subseteq Servers
    BY HostsOf DEF Hosts
  <1>. QED BY <1>1, <1>2 DEF ReplicaUnmixed, Replica, Unmixed, TextOf

LEMMA CopiesExact == CopiesInv => ReplicaExact
  <1>. SUFFICES ASSUME CopiesInv, NEW s \in Sources, AllAlive, ~stale[s],
                       round.src = s => Idle, Drained(s), NEW h \in Hosts(s)
                PROVE  Replica(s, h) = main[s]
    BY DEF ReplicaExact
  <1>1. h \in Servers /\ wire[h] = <<>>
    BY HostsOf, ReplicationSets DEF Hosts, Drained
  <1>2. PICK d \in Disks : Fate(h, d) /\ Exact(h, d)
    BY <1>1 DEF CopiesInv, FateInv
  <1>3. d = copy[h]
    BY <1>1, <1>2, FateNow DEF CopiesInv
  <1>4. Copied(s, d[FolderOn(s, h)])
    BY <1>2 DEF Exact
  <1>. QED BY <1>3, <1>4 DEF Copied, Replica

\* No file of a replica is ever a text of two rounds or of two servers, whichever
\* servers die and however late clients write (redundant_copy, copyREDfile).
THEOREM ReplicaUnmixedHolds ==
    ASSUME "coalesce" \notin Events, 1 \notin Sources
    PROVE  Spec => []ReplicaUnmixed
  <1>. QED BY CopiesStay, CopiesUnmixed, PTL

\* When a round is over and the hosts have got to its requests, both replicas are
\* what the server has, unless its files changed meanwhile (README.md:12).
THEOREM ReplicaExactHolds ==
    ASSUME "coalesce" \notin Events, 1 \notin Sources
    PROVE  Spec => []ReplicaExact
  <1>. QED BY CopiesStay, CopiesExact, PTL

=============================================================================
