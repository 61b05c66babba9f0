------------------------- MODULE ServerRegistry_proofs -------------------------
(***************************************************************************)
(* A storage server that is marked available is connected and watched, and *)
(* descriptors that are closed by number are its own, for any number of    *)
(* storage servers, runs of their programs, clients and descriptors, as    *)
(* long as a storage server comes back after its watcher has run and does  *)
(* not exit before it has been accepted.                                   *)
(***************************************************************************)
EXTENDS ServerRegistry, SequenceTheorems, WellFoundedInduction, TLAPS

-----------------------------------------------------------------------------
(* The invariant.                                                           *)

Watchers == [pc : {"read", "recv", "lock", "done"}, on : Conns \cup {None}]

Types ==
    /\ ss \in [Servers -> [run : 0 .. MaxRuns, pc : {"off", "asked", "half", "up"}]]
    /\ masterQ \in Seq(Servers)
    /\ waiting \in [Servers -> [1 .. 2 -> Seq(Conns)]]
    /\ fds \in [Fds -> Conns \cup {None}]
    /\ sock \in [Servers -> [1 .. 2 -> Fds \cup {Invalid}]]
    /\ available \in [Servers -> BOOLEAN]
    /\ master \in [pc : {"wait", "lock", "accept", "accept2"}, index : Servers]
    /\ watch \in [Servers -> Seq(Watchers)]
    /\ red \in [Servers -> Nat]
    /\ others \in [1 .. NOthers -> [fd : Fds \cup {Invalid}, st : {"new", "in", "left"}]]

\* Storage servers whose index the loop of server_master_starter has yet to read, or
\* whose connections it is accepting.
Asking(i) == \E n \in 1 .. Len(masterQ) : masterQ[n] = i
Joining(i) == Asking(i) \/ Registering(i)

Second(i) == master.pc = "accept2" /\ master.index = i

QueueInv ==
    /\ \A m, n \in 1 .. Len(masterQ) : masterQ[m] = masterQ[n] => m = n
    /\ \A i \in Servers : ~(Asking(i) /\ Registering(i))

\* A storage server's program runs: it is joining, or it is being watched.
PhaseInv ==
    /\ \A i \in Servers : Joining(i) <=> Quiet(i) /\ ss[i].pc # "off"
    /\ \A i \in Servers : ~Quiet(i) => ss[i].pc \in {"up", "off"} /\ available[i] /\ red[i] > 0
    /\ \A i \in Servers : ss[i].pc # "off" => ss[i].run > 0
    /\ \A i \in Servers : Registering(i) => available[i]
    /\ \A i \in Servers : available[i] => Registering(i) \/ ~Quiet(i)

WaitInv ==
    \A i \in Servers :
        /\ waiting[i][1] = IF ss[i].pc \in {"half", "up"} /\ Joining(i) /\ ~Second(i)
                           THEN <<Current(i, 1)>> ELSE <<>>
        /\ waiting[i][2] = IF ss[i].pc = "up" /\ Joining(i) THEN <<Current(i, 2)>> ELSE <<>>
        /\ Second(i) => ss[i].pc \in {"half", "up"}

WatchInv ==
    \A i \in Servers :
        /\ \A m, n \in DOMAIN watch[i] : watch[i][m].pc # "done" /\ watch[i][n].pc # "done" => m = n
        /\ \A n \in DOMAIN watch[i] :
             /\ watch[i][n].on = IF watch[i][n].pc = "recv" THEN Current(i, 2) ELSE None
             /\ watch[i][n].pc = "lock" => ss[i].pc = "off"

ByeInv == \A i \in Servers : \A k \in Nat :
    <<i, k>> \in bye => k <= ss[i].run /\ (k = ss[i].run => ss[i].pc = "off")

\* The connection on port p of i is open, at the number that the array has.
Holding(i, p) == ~Quiet(i) \/ (Second(i) /\ p = 1)

FdInv ==
    /\ \A f \in Fds : fds[f] # None =>
         \/ \E n \in 1 .. NOthers : fds[f] = OfClient(n) /\ others[n].st = "in" /\ others[n].fd = f
         \/ \E i \in Servers, p \in 1 .. 2 : fds[f] = Current(i, p) /\ sock[i][p] = f /\ Holding(i, p)
    /\ \A i \in Servers, p \in 1 .. 2 : Holding(i, p) => sock[i][p] \in Fds /\ fds[sock[i][p]] = Current(i, p)
    /\ \A n \in 1 .. NOthers : others[n].st = "in" => others[n].fd \in Fds /\ fds[others[n].fd] = OfClient(n)

Regular == Types /\ QueueInv /\ PhaseInv /\ WaitInv /\ WatchInv /\ ByeInv /\ FdInv

\* It is stated of the naming server's run: Shutdown ends every connection.
RegInv == up => Regular

-----------------------------------------------------------------------------
(* Numbers: the lowest free descriptor, the last run.                       *)

Below == OpToRel(<, Nat)

LEMMA BelowWellFounded == IsWellFoundedOn(Below, Nat)
BY NatLessThanWellFounded, Zenon DEF Below

LEMMA BelowIsLess == \A m, n \in Nat : n < m => <<n, m>> \in Below
BY DEF OpToRel, Below

LEMMA Smallest ==
    ASSUME NEW S, S \subseteq Nat, S # {}
    PROVE  \E m \in S : \A n \in S : m <= n
  <1>1. PICK m \in S : \A n \in S : ~ (<<n, m>> \in Below)
    BY BelowWellFounded, WFMin, Zenon
  <1>2. \A n \in S : ~ (n < m)
    BY <1>1, BelowIsLess, Zenon
  <1>. QED BY <1>2

LEMMA LowestFree ==
    ASSUME FreeFds # {}
    PROVE  Lowest \in Fds /\ fds[Lowest] = None
  <1>1. FreeFds \subseteq Nat
    BY RegistryAssumption DEF FreeFds, Fds
  <1>2. \E f \in FreeFds : \A g \in FreeFds : f <= g
    BY <1>1, Smallest
  <1>3. Lowest \in FreeFds
    BY <1>2 DEF Lowest
  <1>. QED BY <1>3 DEF FreeFds

LEMMA LastRun ==
    ASSUME Types
    PROVE  Runs \in 0 .. MaxRuns /\ \A i \in Servers : ss[i].run <= Runs
  <1> DEFINE U == {k \in Nat : \A i \in Servers : ss[i].run <= k}
             V == {ss[i].run : i \in Servers}
  <1>1. MaxRuns \in Nat /\ Servers # {} /\ \A i \in Servers : ss[i].run \in 0 .. MaxRuns
    BY RegistryAssumption DEF Types
  <1>2. U \subseteq Nat /\ MaxRuns \in U
    BY <1>1
  <1>3. PICK k \in U : \A l \in U : k <= l
    BY <1>2, Smallest
  <1>4. k \in V
    <2>1. SUFFICES ASSUME k \notin V PROVE FALSE
      OBVIOUS
    <2>2. ASSUME NEW i \in Servers PROVE ss[i].run < k
      <3>1. ss[i].run # k
        BY <2>1
      <3>2. ss[i].run <= k /\ k \in Nat /\ ss[i].run \in 0 .. MaxRuns
        BY <1>1, <1>3
      <3>. QED BY <1>1, <3>1, <3>2
    <2>3. k - 1 \in Nat /\ k - 1 \in U
      BY <1>1, <1>3, <2>2
    <2>. QED BY <1>3, <2>3
  <1>5. \E l \in V : \A i \in Servers : ss[i].run <= l
    BY <1>3, <1>4
  <1>6. Runs \in V /\ \A i \in Servers : ss[i].run <= Runs
    BY <1>5 DEF Runs
  <1>. QED BY <1>1, <1>6

-----------------------------------------------------------------------------
(* Connections.                                                             *)

LEMMA ConnsApart ==
    /\ \A i, j \in Servers, k, l \in Nat, p, q \in 1 .. 2 : Conn(i, k, p) = Conn(j, l, q) => i = j /\ k = l /\ p = q
    /\ \A i \in Servers, k \in Nat, p \in 1 .. 2 : Conn(i, k, p) # None
    /\ \A i \in Servers, k \in Nat, p \in 1 .. 2, n \in Nat : Conn(i, k, p) # OfClient(n)
    /\ \A n \in 1 .. NOthers : OfClient(n) # None
    /\ \A m, n \in 1 .. NOthers : OfClient(m) = OfClient(n) => m = n
  <1>1. \A i \in Servers : i # -1
    BY RegistryAssumption
  <1>2. \A i, j, k, l, p, q : Conn(i, k, p) = Conn(j, l, q) => i = j /\ k = l /\ p = q
    <2>. TAKE i, j, k, l, p, q
    <2>1. Conn(i, k, p).peer = i /\ Conn(i, k, p).run = k /\ Conn(i, k, p).port = p
      BY DEF Conn
    <2>2. Conn(j, l, q).peer = j /\ Conn(j, l, q).run = l /\ Conn(j, l, q).port = q
      BY DEF Conn
    <2>. QED BY <2>1, <2>2
  <1>3. None = Conn(-1, 0, 0) /\ \A n : OfClient(n) = Conn(-1, n, 0)
    BY DEF None, OfClient, Conn, Client
  <1>. QED BY <1>1, <1>2, <1>3

LEMMA CurrentIs ==
    ASSUME Types, NEW i \in Servers, NEW p \in 1 .. 2
    PROVE  /\ ss[i].run \in Nat /\ Current(i, p) # None /\ (ss[i].run > 0 => Current(i, p) \in Conns)
           /\ \A j \in Servers, q \in 1 .. 2 : Current(j, q) = Current(i, p) => j = i /\ q = p
           /\ \A n \in 1 .. NOthers : Current(i, p) # OfClient(n)
  <1>1. \A j \in Servers : ss[j].run \in 0 .. MaxRuns /\ ss[j].run \in Nat
    BY RegistryAssumption DEF Types
  <1>2. ss[i].run > 0 => Current(i, p) \in Conns
    BY <1>1, RegistryAssumption DEF Current, Conns
  <1>. QED BY <1>1, <1>2, ConnsApart, RegistryAssumption DEF Current

-----------------------------------------------------------------------------
(* What a step leaves alone.                                                *)

LEMMA QueueFrame ==
    ASSUME QueueInv, masterQ' = masterQ, \A i \in Servers : Registering(i)' => Registering(i)
    PROVE  QueueInv'
BY DEF QueueInv, Asking

LEMMA PhaseFrame ==
    ASSUME PhaseInv, UNCHANGED <<available, red>>,
           \A i \in Servers :
             /\ Joining(i)' <=> Joining(i)
             /\ Quiet(i)' <=> Quiet(i)
             /\ Registering(i)' <=> Registering(i)
             /\ ss'[i] = ss[i]
    PROVE  PhaseInv'
BY DEF PhaseInv

LEMMA WaitFrame ==
    ASSUME WaitInv,
           \A i \in Servers :
             /\ waiting'[i] = waiting[i]
             /\ Joining(i)' <=> Joining(i)
             /\ Second(i)' <=> Second(i)
             /\ ss'[i] = ss[i]
    PROVE  WaitInv'
BY DEF WaitInv, Current

LEMMA WatchFrame ==
    ASSUME WatchInv, watch' = watch,
           \A i \in Servers : ~Quiet(i) => ss'[i].run = ss[i].run /\ (ss[i].pc = "off" => ss'[i].pc = "off")
    PROVE  WatchInv'
BY DEF WatchInv, Quiet, Current

LEMMA ByeFrame ==
    ASSUME ByeInv, bye' \subseteq bye, ss' = ss
    PROVE  ByeInv'
BY DEF ByeInv

LEMMA FdFrame ==
    ASSUME FdInv, UNCHANGED <<fds, sock, others>>,
           \A i \in Servers, p \in 1 .. 2 : Holding(i, p)' <=> Holding(i, p),
           \A i \in Servers, p \in 1 .. 2 : Holding(i, p) => Current(i, p)' = Current(i, p)
    PROVE  FdInv'
BY DEF FdInv

\* Who is neither joining nor watched holds nothing, and whoever joins is not watched.
LEMMA Phases ==
    ASSUME PhaseInv, NEW i \in Servers
    PROVE  /\ Second(i) => Registering(i)
           /\ Registering(i) => Joining(i)
           /\ Joining(i) => Quiet(i) /\ ss[i].pc # "off"
           /\ ~Joining(i) /\ Quiet(i) => \A p \in 1 .. 2 : ~Holding(i, p)
           /\ ~Quiet(i) => ~Second(i) /\ \A p \in 1 .. 2 : Holding(i, p)
BY DEF PhaseInv, Joining, Second, Registering, Holding

-----------------------------------------------------------------------------
(* The storage servers' steps.                                              *)

LEMMA AskKeeps ==
    ASSUME "soon" \notin Events, Regular, NEW i \in Servers, Ask(i)
    PROVE  Regular'
  <1>1. Types /\ QueueInv /\ PhaseInv /\ WaitInv /\ WatchInv /\ ByeInv /\ FdInv
    BY DEF Regular
  <1>2. /\ ss[i].pc = "off" /\ Quiet(i) /\ Runs < MaxRuns
        /\ ss' = [ss EXCEPT ![i] = [run |-> Runs + 1, pc |-> "asked"]]
        /\ masterQ' = Append(masterQ, i)
        /\ UNCHANGED <<bye, waiting, fds, sock, available, holder, master, watch, red, others, up>>
    BY DEF Ask
  <1>3. Runs + 1 \in 1 .. MaxRuns /\ \A j \in Servers : ss[j].run \in Nat /\ ss[j].run < Runs + 1
    <2>1. /\ Runs \in 0 .. MaxRuns /\ Runs < MaxRuns /\ MaxRuns \in Nat
          /\ \A j \in Servers : ss[j].run <= Runs
      BY <1>1, <1>2, LastRun, RegistryAssumption
    <2>2. \A j \in Servers : ss[j].run \in 0 .. MaxRuns
      BY <1>1 DEF Types
    <2>. QED BY <2>1, <2>2
  <1>4. /\ \A j \in Servers \ {i} : ss'[j] = ss[j]
        /\ ss'[i].run = Runs + 1 /\ ss'[i].pc = "asked"
    BY <1>1, <1>2 DEF Types
  <1>5. ~Joining(i)
    BY <1>1, <1>2 DEF PhaseInv
  <1>6. masterQ' \in Seq(Servers) /\ Len(masterQ) \in Nat /\ Len(masterQ') = Len(masterQ) + 1
        /\ \A n \in 1 .. Len(masterQ') : masterQ'[n] = IF n = Len(masterQ) + 1 THEN i ELSE masterQ[n]
    BY <1>1, <1>2 DEF Types
  <1>7. \A j \in Servers : (Quiet(j)' <=> Quiet(j)) /\ (Registering(j)' <=> Registering(j)) /\ (Second(j)' <=> Second(j))
    BY <1>2 DEF Quiet, Registering, Second
  <1>8. \A j \in Servers : Asking(j)' <=> Asking(j) \/ j = i
    BY <1>6 DEF Asking
  <1>9. \A j \in Servers : Joining(j)' <=> Joining(j) \/ j = i
    BY <1>7, <1>8 DEF Joining
  <1>10. \A j \in Servers, p \in 1 .. 2 : Holding(j, p)' <=> Holding(j, p)
    BY <1>7 DEF Holding
  <1>11. Types'
    BY <1>1, <1>2, <1>3, <1>6 DEF Types
  <1>12. QueueInv'
    <2>1. \A m, n \in 1 .. Len(masterQ') : masterQ'[m] = masterQ'[n] => m = n
      BY <1>1, <1>5, <1>6 DEF QueueInv, Joining, Asking
    <2>. QED BY <1>1, <1>5, <1>7, <1>8, <2>1 DEF QueueInv, Joining
  <1>13. PhaseInv'
    BY <1>1, <1>2, <1>3, <1>4, <1>7, <1>9 DEF PhaseInv
  <1>14. WaitInv'
    <2>1. ASSUME NEW j \in Servers, j # i
          PROVE  \A p \in 1 .. 2 : Current(j, p)' = Current(j, p)
      BY <1>4, <2>1 DEF Current
    <2>2. ~Second(i)
      BY <1>5 DEF Second, Registering, Joining
    <2>3. waiting[i][1] = <<>> /\ waiting[i][2] = <<>>
      BY <1>1, <1>2, <1>5 DEF WaitInv
    <2>4. ~Second(i)' /\ waiting' = waiting /\ ss'[i].pc = "asked"
      BY <1>2, <1>4, <1>7, <2>2
    <2>5. ASSUME NEW j \in Servers, j # i
          PROVE  ss'[j] = ss[j] /\ (Joining(j)' <=> Joining(j)) /\ (Second(j)' <=> Second(j))
      BY <1>4, <1>7, <1>9, <2>5
    <2>. QED BY <1>1, <2>1, <2>3, <2>4, <2>5 DEF WaitInv
  <1>15. WatchInv'
    BY <1>1, <1>2, <1>4, WatchFrame
  <1>16. ByeInv'
    <2>. SUFFICES ASSUME NEW j \in Servers, NEW k \in Nat, <<j, k>> \in bye
                  PROVE  k <= ss'[j].run /\ (k = ss'[j].run => ss'[j].pc = "off")
      BY <1>2 DEF ByeInv
    <2>1. k <= ss[j].run /\ (k = ss[j].run => ss[j].pc = "off")
      BY <1>1 DEF ByeInv
    <2>. QED BY <1>3, <1>4, <2>1
  <1>17. FdInv'
    <2>1. \A p \in 1 .. 2 : ~Holding(i, p)
      BY <1>1, <1>2, <1>5, Phases
    <2>. QED BY <1>1, <1>2, <1>4, <1>10, <2>1, FdFrame DEF Current
  <1>. QED BY <1>11, <1>12, <1>13, <1>14, <1>15, <1>16, <1>17 DEF Regular

LEMMA ConnectKeeps ==
    ASSUME Regular, NEW i \in Servers, NEW p \in 1 .. 2, Connect(i, p)
    PROVE  Regular'
  <1>1. Types /\ QueueInv /\ PhaseInv /\ WaitInv /\ WatchInv /\ ByeInv /\ FdInv
    BY DEF Regular
  <1>2. /\ ss[i].pc = IF p = 1 THEN "asked" ELSE "half"
        /\ ss' = [ss EXCEPT ![i].pc = IF p = 1 THEN "half" ELSE "up"]
        /\ waiting' = [waiting EXCEPT ![i][p] = Append(@, Current(i, p))]
        /\ UNCHANGED <<bye, masterQ, fds, sock, available, holder, master, watch, red, others, up>>
    BY DEF Connect
  <1>3. /\ \A j \in Servers \ {i} : ss'[j] = ss[j] /\ waiting'[j] = waiting[j]
        /\ ss'[i].run = ss[i].run /\ ss'[i].pc = IF p = 1 THEN "half" ELSE "up"
        /\ waiting'[i][p] = Append(waiting[i][p], Current(i, p))
        /\ \A q \in 1 .. 2 : q # p => waiting'[i][q] = waiting[i][q]
    BY <1>1, <1>2 DEF Types
  <1>4. Quiet(i) /\ Joining(i) /\ ss[i].run > 0
    BY <1>1, <1>2 DEF PhaseInv
  <1>5. \A j \in Servers : /\ Quiet(j)' <=> Quiet(j)
                           /\ Registering(j)' <=> Registering(j)
                           /\ Second(j)' <=> Second(j)
                           /\ Joining(j)' <=> Joining(j)
    BY <1>2 DEF Quiet, Registering, Second, Joining, Asking
  <1>6. \A j \in Servers, q \in 1 .. 2 : Current(j, q)' = Current(j, q) /\ (Holding(j, q)' <=> Holding(j, q))
    BY <1>3, <1>5 DEF Current, Holding
  <1>7. Types'
    <2>1. Append(waiting[i][p], Current(i, p)) \in Seq(Conns)
      BY <1>1, <1>4, CurrentIs DEF Types
    <2>2. waiting' \in [Servers -> [1 .. 2 -> Seq(Conns)]]
      BY <1>1, <1>2, <2>1 DEF Types
    <2>3. ss' \in [Servers -> [run : 0 .. MaxRuns, pc : {"off", "asked", "half", "up"}]]
      <3>1. /\ ss[i] \in [run : 0 .. MaxRuns, pc : {"off", "asked", "half", "up"}]
            /\ (IF p = 1 THEN "half" ELSE "up") \in {"off", "asked", "half", "up"}
        BY <1>1 DEF Types
      <3>2. [ss[i] EXCEPT !.pc = IF p = 1 THEN "half" ELSE "up"]
              \in [run : 0 .. MaxRuns, pc : {"off", "asked", "half", "up"}]
        BY <3>1
      <3>. QED BY <1>1, <1>2, <3>2 DEF Types
    <2>. QED BY <1>1, <1>2, <2>2, <2>3 DEF Types
  <1>8. QueueInv'
    BY <1>1, <1>2, <1>5, QueueFrame
  <1>9. PhaseInv'
    BY <1>1, <1>2, <1>3, <1>4, <1>5 DEF PhaseInv
  <1>10. WaitInv'
    <2>1. p = 1 => waiting[i][p] = <<>> /\ ~Second(i)
      BY <1>1, <1>2 DEF WaitInv
    <2>2. p = 2 => waiting[i][p] = <<>>
      BY <1>1, <1>2 DEF WaitInv
    <2>3. Append(<<>>, Current(i, p)) = <<Current(i, p)>>
      OBVIOUS
    <2>4. waiting'[i][p] = <<Current(i, p)>> /\ p \in {1, 2}
      <3>1. p = 1 \/ p = 2
        OBVIOUS
      <3>2. waiting[i][p] = <<>>
        BY <2>1, <2>2, <3>1
      <3>. QED BY <1>3, <2>3, <3>1, <3>2
    <2>5. ASSUME NEW j \in Servers, j # i
          PROVE  /\ waiting'[j] = waiting[j] /\ ss'[j] = ss[j]
                 /\ \A q \in 1 .. 2 : Current(j, q)' = Current(j, q)
      BY <1>3, <1>6, <2>5
    <2>6. ASSUME p = 1 PROVE WaitInv'
      BY <1>1, <1>2, <1>3, <1>4, <1>5, <1>6, <2>1, <2>4, <2>5, <2>6 DEF WaitInv
    <2>7. ASSUME p = 2 PROVE WaitInv'
      BY <1>1, <1>2, <1>3, <1>4, <1>5, <1>6, <2>4, <2>5, <2>7 DEF WaitInv
    <2>. QED BY <2>4, <2>6, <2>7
  <1>11. WatchInv'
    BY <1>1, <1>2, <1>3, <1>4, WatchFrame
  <1>12. ByeInv'
    BY <1>1, <1>2, <1>3 DEF ByeInv
  <1>13. FdInv'
    BY <1>1, <1>2, <1>6, FdFrame
  <1>. QED BY <1>7, <1>8, <1>9, <1>10, <1>11, <1>12, <1>13 DEF Regular

LEMMA NotWaiting ==
    ASSUME NEW i \in Servers, NEW p \in 1 .. 2, Accepted(i, p)
    PROVE  ss[i].pc = "up" /\ waiting[i][p] # <<Current(i, p)>>
  <1>1. \A c : 1 \in DOMAIN <<c>> /\ <<c>>[1] = c
    OBVIOUS
  <1>2. \A w : Current(i, p) \notin {w[n] : n \in DOMAIN w} => w # <<Current(i, p)>>
    BY <1>1
  <1>. QED BY <1>2 DEF Accepted

LEMMA QuitKeeps ==
    ASSUME "halfway" \notin Events, Regular, NEW i \in Servers, Quit(i)
    PROVE  Regular'
  <1>1. Types /\ QueueInv /\ PhaseInv /\ WaitInv /\ WatchInv /\ ByeInv /\ FdInv
    BY DEF Regular
  <1>2. /\ Accepted(i, 2)
        /\ ss' = [ss EXCEPT ![i].pc = "off"]
        /\ bye' \subseteq bye \cup {<<i, ss[i].run>>}
        /\ UNCHANGED <<masterQ, waiting, fds, sock, available, holder, master, watch, red, others, up>>
    BY DEF Quit, Exit
  <1>3. /\ \A j \in Servers \ {i} : ss'[j] = ss[j]
        /\ ss'[i].run = ss[i].run /\ ss'[i].pc = "off"
    BY <1>1, <1>2 DEF Types
  <1>4. ss[i].pc = "up" /\ ~Joining(i)
    <2>1. ss[i].pc = "up" /\ waiting[i][2] # <<Current(i, 2)>>
      BY <1>2, NotWaiting
    <2>. QED BY <1>1, <2>1 DEF WaitInv
  <1>5. ~Quiet(i)
    BY <1>1, <1>4 DEF PhaseInv
  <1>6. \A j \in Servers : /\ Quiet(j)' <=> Quiet(j)
                           /\ Registering(j)' <=> Registering(j)
                           /\ Second(j)' <=> Second(j)
                           /\ Joining(j)' <=> Joining(j)
    BY <1>2 DEF Quiet, Registering, Second, Joining, Asking
  <1>7. \A j \in Servers, q \in 1 .. 2 : Current(j, q)' = Current(j, q) /\ (Holding(j, q)' <=> Holding(j, q))
    BY <1>3, <1>6 DEF Current, Holding
  <1>8. Types'
    <2>1. ss[i] \in [run : 0 .. MaxRuns, pc : {"off", "asked", "half", "up"}]
      BY <1>1 DEF Types
    <2>2. [ss[i] EXCEPT !.pc = "off"] \in [run : 0 .. MaxRuns, pc : {"off", "asked", "half", "up"}]
      BY <2>1
    <2>3. ss' \in [Servers -> [run : 0 .. MaxRuns, pc : {"off", "asked", "half", "up"}]]
      BY <1>1, <1>2, <2>2 DEF Types
    <2>. QED BY <1>1, <1>2, <2>3 DEF Types
  <1>9. QueueInv'
    BY <1>1, <1>2, <1>6, QueueFrame
  <1>10. PhaseInv'
    BY <1>1, <1>2, <1>3, <1>4, <1>5, <1>6 DEF PhaseInv
  <1>11. WaitInv'
    <2>1. ~Second(i)
      BY <1>4 DEF Second, Registering, Joining
    <2>2. waiting[i][1] = <<>> /\ waiting[i][2] = <<>>
      BY <1>1, <1>4 DEF WaitInv
    <2>3. ASSUME NEW j \in Servers, j # i
          PROVE  ss'[j] = ss[j] /\ \A q \in 1 .. 2 : Current(j, q)' = Current(j, q)
      BY <1>3, <1>7, <2>3
    <2>. QED BY <1>1, <1>2, <1>4, <1>6, <2>1, <2>2, <2>3 DEF WaitInv
  <1>12. WatchInv'
    <2>1. \A j \in Servers : ss'[j].run = ss[j].run /\ (ss[j].pc = "off" => ss'[j].pc = "off")
      BY <1>3
    <2>. QED BY <1>1, <1>2, <2>1, WatchFrame
  <1>13. ByeInv'
    <2>. SUFFICES ASSUME NEW j \in Servers, NEW k \in Nat, <<j, k>> \in bye'
                  PROVE  k <= ss'[j].run /\ (k = ss'[j].run => ss'[j].pc = "off")
      BY DEF ByeInv
    <2>1. CASE <<j, k>> \in bye
      BY <1>1, <1>3, <2>1 DEF ByeInv
    <2>2. CASE j = i /\ k = ss[i].run
      BY <1>3, <2>2
    <2>. QED BY <1>2, <2>1, <2>2
  <1>14. FdInv'
    BY <1>1, <1>2, <1>7, FdFrame
  <1>. QED BY <1>8, <1>9, <1>10, <1>11, <1>12, <1>13, <1>14 DEF Regular

\* A running storage server's first connection is kept open.
LEMMA NotCutOff ==
    ASSUME Regular, NEW i \in Servers, CutOff(i)
    PROVE  FALSE
  <1>1. PhaseInv /\ WaitInv /\ FdInv
    BY DEF Regular
  <1>2. Accepted(i, 1) /\ ~Open(Current(i, 1))
    BY DEF CutOff
  <1>3. ss[i].pc = "up" /\ ~(Joining(i) /\ ~Second(i))
    <2>1. ss[i].pc = "up" /\ waiting[i][1] # <<Current(i, 1)>>
      BY <1>2, NotWaiting
    <2>. QED BY <1>1, <2>1 DEF WaitInv
  <1>4. Holding(i, 1)
    BY <1>1, <1>3 DEF PhaseInv, Holding
  <1>5. sock[i][1] \in Fds /\ fds[sock[i][1]] = Current(i, 1)
    BY <1>1, <1>4 DEF FdInv
  <1>. QED BY <1>2, <1>5 DEF Open

-----------------------------------------------------------------------------
(* server_master_starter.                                                   *)

LEMMA MasterReadKeeps ==
    ASSUME Regular, MasterRead
    PROVE  Regular'
  <1>1. Types /\ QueueInv /\ PhaseInv /\ WaitInv /\ WatchInv /\ ByeInv /\ FdInv
    BY DEF Regular
  <1> DEFINE i == Head(masterQ)
  <1>2. /\ master.pc = "wait" /\ masterQ # <<>>
        /\ master' = [pc |-> "lock", index |-> i]
        /\ masterQ' = Tail(masterQ)
        /\ available' = [available EXCEPT ![i] = TRUE]
        /\ UNCHANGED <<ss, bye, waiting, fds, sock, holder, watch, red, others, up>>
    BY DEF MasterRead
  <1>3. masterQ \in Seq(Servers)
    BY <1>1 DEF Types
  <1>4. /\ i \in Servers /\ i = masterQ[1] /\ masterQ' \in Seq(Servers)
        /\ Len(masterQ) \in Nat \ {0} /\ Len(masterQ') = Len(masterQ) - 1
        /\ \A n \in 1 .. Len(masterQ') : masterQ'[n] = masterQ[n + 1]
    BY <1>2, <1>3
  <1> HIDE DEF i
  <1>5. Asking(i)
    BY <1>4 DEF Asking
  <1>6. \A j \in Servers : ~Registering(j) /\ ~Second(j) /\ (Registering(j)' <=> j = i) /\ ~Second(j)'
    BY <1>2 DEF Registering, Second
  <1>7. ASSUME NEW j \in Servers
        PROVE  Asking(j)' <=> Asking(j) /\ j # i
    <2>1. ASSUME Asking(j)' PROVE Asking(j) /\ j # i
      <3>1. PICK n \in 1 .. Len(masterQ') : masterQ'[n] = j
        BY <2>1 DEF Asking
      <3>2. n + 1 \in 1 .. Len(masterQ) /\ masterQ[n + 1] = j /\ n + 1 # 1 /\ 1 \in 1 .. Len(masterQ)
        BY <1>4, <3>1
      <3>3. j # i
        BY <1>1, <1>4, <3>2 DEF QueueInv
      <3>. QED BY <3>2, <3>3 DEF Asking
    <2>2. ASSUME Asking(j), j # i PROVE Asking(j)'
      <3>1. PICK n \in 1 .. Len(masterQ) : masterQ[n] = j
        BY <2>2 DEF Asking
      <3>2. n # 1
        BY <1>4, <2>2, <3>1
      <3>3. n - 1 \in 1 .. Len(masterQ') /\ (n - 1) + 1 = n
        BY <1>4, <3>1, <3>2
      <3>4. masterQ'[n - 1] = j
        BY <1>4, <3>1, <3>3
      <3>. QED BY <3>3, <3>4 DEF Asking
    <2>. QED BY <2>1, <2>2
  <1>8. \A j \in Servers : /\ Joining(j)' <=> Joining(j)
                           /\ Quiet(j)' <=> Quiet(j)
                           /\ Second(j)' <=> Second(j)
    BY <1>2, <1>5, <1>6, <1>7 DEF Joining, Quiet
  <1>9. \A j \in Servers, q \in 1 .. 2 : Current(j, q)' = Current(j, q) /\ (Holding(j, q)' <=> Holding(j, q))
    BY <1>2, <1>8 DEF Current, Holding
  <1>10. Types'
    BY <1>1, <1>2, <1>4 DEF Types
  <1>11. QueueInv'
    <2>1. ASSUME NEW m \in 1 .. Len(masterQ'), NEW n \in 1 .. Len(masterQ'), masterQ'[m] = masterQ'[n]
          PROVE  m = n
      <3>1. m + 1 \in 1 .. Len(masterQ) /\ n + 1 \in 1 .. Len(masterQ) /\ masterQ[m + 1] = masterQ[n + 1]
        BY <1>4, <2>1
      <3>2. m + 1 = n + 1
        BY <1>1, <3>1 DEF QueueInv
      <3>. QED BY <1>4, <3>2
    <2>. QED BY <1>6, <1>7, <2>1 DEF QueueInv
  <1>12. PhaseInv'
    <2>1. available'[i] = TRUE /\ \A j \in Servers \ {i} : available'[j] = available[j]
      BY <1>1, <1>2, <1>4 DEF Types
    <2>2. Quiet(i) /\ Joining(i)
      BY <1>1, <1>4, <1>5 DEF PhaseInv, Joining
    <2>. QED BY <1>1, <1>2, <1>6, <1>8, <2>1, <2>2 DEF PhaseInv
  <1>13. WaitInv'
    BY <1>1, <1>2, <1>8, WaitFrame
  <1>14. WatchInv'
    BY <1>1, <1>2, WatchFrame
  <1>15. ByeInv'
    BY <1>1, <1>2, ByeFrame
  <1>16. FdInv'
    BY <1>1, <1>2, <1>9, FdFrame
  <1>. QED BY <1>10, <1>11, <1>12, <1>13, <1>14, <1>15, <1>16 DEF Regular

LEMMA MasterLockKeeps ==
    ASSUME Regular, MasterLock
    PROVE  Regular'
  <1>1. Types /\ QueueInv /\ PhaseInv /\ WaitInv /\ WatchInv /\ ByeInv /\ FdInv
    BY DEF Regular
  <1>2. /\ master.pc = "lock" /\ master' = [master EXCEPT !.pc = "accept"]
        /\ UNCHANGED <<ss, bye, masterQ, waiting, fds, sock, available, watch, red, others, up>>
    BY DEF MasterLock, MasterGo
  <1>3. master'.pc = "accept" /\ master'.index = master.index
        /\ master' \in [pc : {"wait", "lock", "accept", "accept2"}, index : Servers]
    BY <1>1, <1>2 DEF Types
  <1>4. \A j \in Servers : /\ Joining(j)' <=> Joining(j)
                           /\ Quiet(j)' <=> Quiet(j)
                           /\ Registering(j)' <=> Registering(j)
                           /\ Second(j)' <=> Second(j)
    BY <1>2, <1>3 DEF Joining, Asking, Quiet, Registering, Second
  <1>5. \A j \in Servers, q \in 1 .. 2 : Current(j, q)' = Current(j, q) /\ (Holding(j, q)' <=> Holding(j, q))
    BY <1>2, <1>4 DEF Current, Holding
  <1>6. Types'
    BY <1>1, <1>2, <1>3 DEF Types
  <1>. QED BY <1>1, <1>2, <1>4, <1>5, <1>6, QueueFrame, PhaseFrame, WaitFrame, WatchFrame, ByeFrame, FdFrame DEF Regular

LEMMA MasterAcceptKeeps ==
    ASSUME Regular, MasterAccept
    PROVE  Regular'
  <1>1. Types /\ QueueInv /\ PhaseInv /\ WaitInv /\ WatchInv /\ ByeInv /\ FdInv
    BY DEF Regular
  <1>2. PICK i \in Servers : i = master.index
    BY <1>1 DEF Types
  <1>3. PICK f \in Fds : f = Lowest /\ fds[f] = None
    BY LowestFree DEF MasterAccept, Accept, AcceptFrom
  <1>4. /\ master.pc = "accept" /\ waiting[i][1] # <<>>
        /\ fds' = [fds EXCEPT ![f] = Head(waiting[i][1])]
        /\ sock' = [sock EXCEPT ![i][1] = f]
        /\ waiting' = [waiting EXCEPT ![i][1] = Tail(@)]
        /\ master' = [master EXCEPT !.pc = "accept2"]
        /\ UNCHANGED <<ss, bye, masterQ, available, holder, watch, red, others, up>>
    BY <1>2, <1>3 DEF MasterAccept, Accept, AcceptFrom, MasterGo
  <1>5. Registering(i) /\ Joining(i) /\ Quiet(i) /\ ~Second(i) /\ ss[i].run > 0
    BY <1>1, <1>2, <1>4 DEF Registering, Joining, Second, PhaseInv
  <1>6. ss[i].pc \in {"half", "up"} /\ waiting[i][1] = <<Current(i, 1)>>
    BY <1>1, <1>4, <1>5 DEF WaitInv
  <1>7. Head(waiting[i][1]) = Current(i, 1) /\ Tail(waiting[i][1]) = <<>>
    BY <1>6
  <1>8. /\ \A j \in Servers \ {i} : sock'[j] = sock[j] /\ waiting'[j] = waiting[j]
        /\ sock'[i][1] = f /\ sock'[i][2] = sock[i][2]
        /\ waiting'[i][1] = <<>> /\ waiting'[i][2] = waiting[i][2]
        /\ fds'[f] = Current(i, 1) /\ \A g \in Fds \ {f} : fds'[g] = fds[g]
    BY <1>1, <1>4, <1>7 DEF Types
  <1>9. master'.pc = "accept2" /\ master'.index = master.index
        /\ master' \in [pc : {"wait", "lock", "accept", "accept2"}, index : Servers]
    BY <1>1, <1>4 DEF Types
  <1>10. \A j \in Servers : /\ Joining(j)' <=> Joining(j)
                            /\ Quiet(j)' <=> Quiet(j)
                            /\ Registering(j)' <=> Registering(j)
                            /\ Second(j)' <=> j = i
                            /\ ~Second(j)
    BY <1>2, <1>4, <1>9 DEF Joining, Asking, Quiet, Registering, Second
  <1>11. \A j \in Servers, q \in 1 .. 2 :
           Current(j, q)' = Current(j, q) /\ (Holding(j, q)' <=> Holding(j, q) \/ (j = i /\ q = 1))
    BY <1>4, <1>10 DEF Current, Holding
  <1>12. Types'
    <2>1. Current(i, 1) \in Conns
      BY <1>1, <1>5, CurrentIs
    <2>2. fds' \in [Fds -> Conns \cup {None}]
      BY <1>1, <1>4, <1>7, <2>1 DEF Types
    <2>3. sock' \in [Servers -> [1 .. 2 -> Fds \cup {Invalid}]]
      BY <1>1, <1>4 DEF Types
    <2>4. <<>> \in Seq(Conns)
      OBVIOUS
    <2>5. waiting' \in [Servers -> [1 .. 2 -> Seq(Conns)]]
      BY <1>1, <1>4, <1>7, <2>4 DEF Types
    <2>. QED BY <1>1, <1>4, <1>9, <2>2, <2>3, <2>5 DEF Types
  <1>13. QueueInv'
    BY <1>1, <1>4, <1>10, QueueFrame
  <1>14. PhaseInv'
    BY <1>1, <1>4, <1>10, PhaseFrame
  <1>15. WaitInv'
    <2>1. ASSUME NEW j \in Servers, j # i
          PROVE  waiting'[j] = waiting[j] /\ ~Second(j)'
      BY <1>8, <1>10, <2>1
    <2>2. Second(i)'
      BY <1>10
    <2>3. \A j \in Servers : Joining(j)' <=> Joining(j)
      BY <1>10
    <2>4. \A j \in Servers : ~Second(j)
      BY <1>10
    <2>5. \A j \in Servers, q \in 1 .. 2 : Current(j, q)' = Current(j, q)
      BY <1>11
    <2>. QED BY <1>1, <1>4, <1>6, <1>8, <2>1, <2>2, <2>3, <2>4, <2>5 DEF WaitInv
  <1>16. WatchInv'
    BY <1>1, <1>4, WatchFrame
  <1>17. ByeInv'
    BY <1>1, <1>4, ByeFrame
  <1>18. FdInv'
    <2>1. ASSUME NEW g \in Fds, fds'[g] # None
          PROVE  \/ \E n \in 1 .. NOthers : fds'[g] = OfClient(n) /\ others'[n].st = "in" /\ others'[n].fd = g
                 \/ \E j \in Servers, q \in 1 .. 2 :
                      fds'[g] = Current(j, q)' /\ sock'[j][q] = g /\ Holding(j, q)'
      <3>1. CASE g = f
        <4>1. fds'[g] = Current(i, 1)' /\ sock'[i][1] = g /\ Holding(i, 1)'
          BY <1>8, <1>11, <3>1
        <4>. QED BY <4>1
      <3>2. CASE g # f
        <4>1. fds'[g] = fds[g]
          BY <1>8, <3>2
        <4>2. CASE \E n \in 1 .. NOthers : fds[g] = OfClient(n) /\ others[n].st = "in" /\ others[n].fd = g
          BY <1>4, <4>1, <4>2
        <4>3. CASE \E j \in Servers, q \in 1 .. 2 : fds[g] = Current(j, q) /\ sock[j][q] = g /\ Holding(j, q)
          <5>1. PICK j \in Servers, q \in 1 .. 2 : fds[g] = Current(j, q) /\ sock[j][q] = g /\ Holding(j, q)
            BY <4>3
          <5>2. j # i
            BY <1>5, <1>10, <5>1 DEF Holding
          <5>3. fds'[g] = Current(j, q)' /\ sock'[j][q] = g /\ Holding(j, q)'
            BY <1>8, <1>11, <4>1, <5>1, <5>2
          <5>. QED BY <5>3
        <4>. QED BY <1>1, <2>1, <4>1, <4>2, <4>3 DEF FdInv
      <3>. QED BY <3>1, <3>2
    <2>2. ASSUME NEW j \in Servers, NEW q \in 1 .. 2, Holding(j, q)'
          PROVE  sock'[j][q] \in Fds /\ fds'[sock'[j][q]] = Current(j, q)'
      <3>1. CASE j = i /\ q = 1
        BY <1>8, <1>11, <3>1
      <3>2. CASE ~(j = i /\ q = 1)
        <4>1. Holding(j, q) /\ j # i
          BY <1>5, <1>10, <1>11, <2>2, <3>2 DEF Holding
        <4>2. sock[j][q] \in Fds /\ fds[sock[j][q]] = Current(j, q)
          BY <1>1, <4>1 DEF FdInv
        <4>3. sock[j][q] # f
          BY <1>1, <1>3, <4>2, CurrentIs
        <4>. QED BY <1>8, <1>11, <4>1, <4>2, <4>3
      <3>. QED BY <3>1, <3>2
    <2>3. ASSUME NEW n \in 1 .. NOthers, others[n].st = "in"
          PROVE  others[n].fd \in Fds /\ fds'[others[n].fd] = OfClient(n)
      <3>1. others[n].fd \in Fds /\ fds[others[n].fd] = OfClient(n)
        BY <1>1, <2>3 DEF FdInv
      <3>2. others[n].fd # f
        BY <1>3, <3>1, ConnsApart
      <3>. QED BY <1>8, <3>1, <3>2
    <2>. QED BY <1>4, <2>1, <2>2, <2>3 DEF FdInv
  <1>. QED BY <1>12, <1>13, <1>14, <1>15, <1>16, <1>17, <1>18 DEF Regular

LEMMA MasterStartKeeps ==
    ASSUME Regular, MasterStart
    PROVE  Regular'
  <1>1. Types /\ QueueInv /\ PhaseInv /\ WaitInv /\ WatchInv /\ ByeInv /\ FdInv
    BY DEF Regular
  <1>2. PICK i \in Servers : i = master.index
    BY <1>1 DEF Types
  <1>3. PICK f \in Fds : f = Lowest /\ fds[f] = None
    BY LowestFree DEF MasterStart, Accept, AcceptFrom
  <1>4. /\ master.pc = "accept2" /\ waiting[i][2] # <<>>
        /\ fds' = [fds EXCEPT ![f] = Head(waiting[i][2])]
        /\ sock' = [sock EXCEPT ![i][2] = f]
        /\ waiting' = [waiting EXCEPT ![i][2] = Tail(@)]
        /\ watch' = [watch EXCEPT ![i] = Append(@, [pc |-> "read", on |-> None])]
        /\ red' = [red EXCEPT ![i] = @ + 1]
        /\ master' = [master EXCEPT !.pc = "wait"]
        /\ UNCHANGED <<ss, bye, masterQ, available, others, up>>
    BY <1>2, <1>3 DEF MasterStart, Accept, AcceptFrom, MasterGo
  <1>5. Registering(i) /\ Joining(i) /\ Quiet(i) /\ Second(i) /\ ss[i].run > 0 /\ ~Asking(i)
    BY <1>1, <1>2, <1>4 DEF Registering, Joining, Second, PhaseInv, QueueInv
  <1>6. ss[i].pc = "up" /\ waiting[i][2] = <<Current(i, 2)>> /\ waiting[i][1] = <<>>
    BY <1>1, <1>4, <1>5 DEF WaitInv
  <1>7. Head(waiting[i][2]) = Current(i, 2) /\ Tail(waiting[i][2]) = <<>>
    BY <1>6
  <1>8. /\ \A j \in Servers \ {i} : sock'[j] = sock[j] /\ waiting'[j] = waiting[j]
        /\ sock'[i][2] = f /\ sock'[i][1] = sock[i][1]
        /\ waiting'[i][2] = <<>> /\ waiting'[i][1] = <<>>
        /\ fds'[f] = Current(i, 2) /\ \A g \in Fds \ {f} : fds'[g] = fds[g]
    BY <1>1, <1>4, <1>6, <1>7 DEF Types
  <1>9. master'.pc = "wait" /\ master' \in [pc : {"wait", "lock", "accept", "accept2"}, index : Servers]
    BY <1>1, <1>4 DEF Types
  <1> DEFINE w == [pc |-> "read", on |-> None]
  <1>10. watch[i] \in Seq(Watchers) /\ w \in Watchers
    BY <1>1 DEF Types, Watchers
  <1>11. /\ \A j \in Servers \ {i} : watch'[j] = watch[j] /\ red'[j] = red[j]
         /\ watch'[i] = Append(watch[i], w) /\ red'[i] = red[i] + 1
    BY <1>1, <1>4 DEF Types
  <1>12. /\ Len(watch[i]) \in Nat /\ watch'[i] \in Seq(Watchers)
         /\ DOMAIN watch[i] = 1 .. Len(watch[i]) /\ DOMAIN watch'[i] = 1 .. (Len(watch[i]) + 1)
         /\ watch'[i][Len(watch[i]) + 1] = w
         /\ \A n \in DOMAIN watch[i] : n # Len(watch[i]) + 1 /\ watch'[i][n] = watch[i][n]
    BY <1>10, <1>11
  <1>13. ~Quiet(i)'
    <2>1. Len(watch[i]) + 1 \in DOMAIN watch'[i] /\ watch'[i][Len(watch[i]) + 1].pc # "done"
      BY <1>12
    <2>. QED BY <2>1 DEF Quiet
  <1>14. \A j \in Servers : /\ Joining(j)' <=> Joining(j) /\ j # i
                            /\ j # i => (Quiet(j)' <=> Quiet(j))
                            /\ ~Registering(j)' /\ ~Second(j)'
                            /\ Registering(j) <=> j = i
                            /\ Second(j) <=> j = i
    BY <1>2, <1>4, <1>5, <1>9, <1>11 DEF Joining, Asking, Quiet, Registering, Second
  <1>15. \A j \in Servers, q \in 1 .. 2 :
           Current(j, q)' = Current(j, q) /\ (Holding(j, q)' <=> Holding(j, q) \/ (j = i /\ q = 2))
    <2>1. \A q \in 1 .. 2 : q = 1 \/ q = 2
      OBVIOUS
    <2>. QED BY <1>4, <1>5, <1>13, <1>14, <2>1 DEF Current, Holding
  <1>16. Types'
    <2>1. Current(i, 2) \in Conns
      BY <1>1, <1>5, CurrentIs
    <2>2. fds' \in [Fds -> Conns \cup {None}]
      BY <1>1, <1>4, <1>7, <2>1 DEF Types
    <2>3. sock' \in [Servers -> [1 .. 2 -> Fds \cup {Invalid}]]
      BY <1>1, <1>4 DEF Types
    <2>4. <<>> \in Seq(Conns)
      OBVIOUS
    <2>5. waiting' \in [Servers -> [1 .. 2 -> Seq(Conns)]]
      BY <1>1, <1>4, <1>7, <2>4 DEF Types
    <2>6. watch' \in [Servers -> Seq(Watchers)]
      BY <1>1, <1>4, <1>11, <1>12 DEF Types
    <2>7. red' \in [Servers -> Nat]
      <3>1. red[i] + 1 \in Nat
        BY <1>1 DEF Types
      <3>. QED BY <1>1, <1>4, <3>1 DEF Types
    <2>. QED BY <1>1, <1>4, <1>9, <2>2, <2>3, <2>5, <2>6, <2>7 DEF Types
  <1>17. QueueInv'
    BY <1>1, <1>4, <1>14, QueueFrame
  <1>18. PhaseInv'
    <2>1. \A j \in Servers : red[j] \in Nat
      BY <1>1 DEF Types
    <2>2. available[i]
      BY <1>1, <1>5 DEF PhaseInv
    <2>. QED BY <1>1, <1>4, <1>5, <1>6, <1>11, <1>13, <1>14, <2>1, <2>2 DEF PhaseInv
  <1>19. WaitInv'
    <2>1. ASSUME NEW j \in Servers, j # i
          PROVE  waiting'[j] = waiting[j] /\ ~Second(j) /\ (Joining(j)' <=> Joining(j))
      BY <1>8, <1>14, <2>1
    <2>2. ~Joining(i)' /\ \A j \in Servers : ~Second(j)'
      BY <1>14
    <2>3. \A j \in Servers, q \in 1 .. 2 : Current(j, q)' = Current(j, q)
      BY <1>15
    <2>. SUFFICES ASSUME NEW j \in Servers
                  PROVE  /\ waiting'[j][1] = IF ss'[j].pc \in {"half", "up"} /\ Joining(j)' /\ ~Second(j)'
                                             THEN <<Current(j, 1)'>> ELSE <<>>
                         /\ waiting'[j][2] = IF ss'[j].pc = "up" /\ Joining(j)' THEN <<Current(j, 2)'>> ELSE <<>>
                         /\ Second(j)' => ss'[j].pc \in {"half", "up"}
      BY DEF WaitInv
    <2>4. CASE j = i
      BY <1>8, <2>2, <2>4
    <2>5. CASE j # i
      <3>1. /\ waiting[j][1] = IF ss[j].pc \in {"half", "up"} /\ Joining(j) /\ ~Second(j)
                               THEN <<Current(j, 1)>> ELSE <<>>
            /\ waiting[j][2] = IF ss[j].pc = "up" /\ Joining(j) THEN <<Current(j, 2)>> ELSE <<>>
        BY <1>1 DEF WaitInv
      <3>. QED BY <1>4, <2>1, <2>2, <2>3, <2>5, <3>1
    <2>. QED BY <2>4, <2>5
  <1>20. WatchInv'
    <2>1. ASSUME NEW j \in Servers, j # i
          PROVE  watch'[j] = watch[j]
      BY <1>11, <2>1
    <2>2. \A n \in DOMAIN watch[i] : watch[i][n].pc = "done" /\ watch[i][n].on = None
      BY <1>1, <1>5 DEF WatchInv, Quiet
    <2>3. w.pc = "read" /\ w.on = None
      OBVIOUS
    <2>4. \A n \in DOMAIN watch'[i] :
            \/ n = Len(watch[i]) + 1 /\ watch'[i][n].pc = "read" /\ watch'[i][n].on = None
            \/ watch'[i][n].pc = "done" /\ watch'[i][n].on = None
      BY <1>12, <2>2, <2>3
    <2>5. \A j \in Servers, q \in 1 .. 2 : Current(j, q)' = Current(j, q)
      BY <1>15
    <2>. QED BY <1>1, <1>4, <2>1, <2>4, <2>5 DEF WatchInv
  <1>21. ByeInv'
    BY <1>1, <1>4, ByeFrame
  <1>22. FdInv'
    <2>1. ASSUME NEW g \in Fds, fds'[g] # None
          PROVE  \/ \E n \in 1 .. NOthers : fds'[g] = OfClient(n) /\ others'[n].st = "in" /\ others'[n].fd = g
                 \/ \E j \in Servers, q \in 1 .. 2 :
                      fds'[g] = Current(j, q)' /\ sock'[j][q] = g /\ Holding(j, q)'
      <3>1. CASE g = f
        <4>1. fds'[g] = Current(i, 2)' /\ sock'[i][2] = g /\ Holding(i, 2)'
          BY <1>8, <1>15, <3>1
        <4>. QED BY <4>1
      <3>2. CASE g # f
        <4>1. fds'[g] = fds[g]
          BY <1>8, <3>2
        <4>2. CASE \E n \in 1 .. NOthers : fds[g] = OfClient(n) /\ others[n].st = "in" /\ others[n].fd = g
          BY <1>4, <4>1, <4>2
        <4>3. CASE \E j \in Servers, q \in 1 .. 2 : fds[g] = Current(j, q) /\ sock[j][q] = g /\ Holding(j, q)
          <5>1. PICK j \in Servers, q \in 1 .. 2 : fds[g] = Current(j, q) /\ sock[j][q] = g /\ Holding(j, q)
            BY <4>3
          <5>2. ~(j = i /\ q = 2)
            BY <1>5, <5>1 DEF Holding
          <5>3. sock'[j][q] = sock[j][q]
            <6>1. q = 1 \/ q = 2
              OBVIOUS
            <6>. QED BY <1>8, <5>2, <6>1
          <5>4. fds'[g] = Current(j, q)' /\ sock'[j][q] = g /\ Holding(j, q)'
            BY <1>15, <4>1, <5>1, <5>3
          <5>. QED BY <5>4
        <4>. QED BY <1>1, <2>1, <4>1, <4>2, <4>3 DEF FdInv
      <3>. QED BY <3>1, <3>2
    <2>2. ASSUME NEW j \in Servers, NEW q \in 1 .. 2, Holding(j, q)'
          PROVE  sock'[j][q] \in Fds /\ fds'[sock'[j][q]] = Current(j, q)'
      <3>1. CASE j = i /\ q = 2
        BY <1>8, <1>15, <3>1
      <3>2. CASE ~(j = i /\ q = 2)
        <4>1. Holding(j, q)
          BY <1>15, <2>2, <3>2
        <4>2. sock[j][q] \in Fds /\ fds[sock[j][q]] = Current(j, q)
          BY <1>1, <4>1 DEF FdInv
        <4>3. sock[j][q] # f
          BY <1>1, <1>3, <4>2, CurrentIs
        <4>4. sock'[j][q] = sock[j][q]
          <5>1. q = 1 \/ q = 2
            OBVIOUS
          <5>. QED BY <1>8, <3>2, <5>1
        <4>. QED BY <1>8, <1>15, <4>2, <4>3, <4>4
      <3>. QED BY <3>1, <3>2
    <2>3. ASSUME NEW n \in 1 .. NOthers, others[n].st = "in"
          PROVE  others[n].fd \in Fds /\ fds'[others[n].fd] = OfClient(n)
      <3>1. others[n].fd \in Fds /\ fds[others[n].fd] = OfClient(n)
        BY <1>1, <2>3 DEF FdInv
      <3>2. others[n].fd # f
        BY <1>3, <3>1, ConnsApart
      <3>. QED BY <1>8, <3>1, <3>2
    <2>. QED BY <1>4, <2>1, <2>2, <2>3 DEF FdInv
  <1>. QED BY <1>16, <1>17, <1>18, <1>19, <1>20, <1>21, <1>22 DEF Regular

-----------------------------------------------------------------------------
(* empty_func.                                                              *)

\* A watcher that is not done is the only one; its storage server has been accepted.
LEMMA Watched ==
    ASSUME Regular, NEW i \in Servers, NEW n \in DOMAIN watch[i], watch[i][n].pc # "done"
    PROVE  /\ ~Quiet(i) /\ ~Joining(i) /\ ~Second(i) /\ ss[i].pc \in {"up", "off"} /\ ss[i].run > 0
           /\ \A m \in DOMAIN watch[i] \ {n} : watch[i][m].pc = "done"
           /\ \A p \in 1 .. 2 : sock[i][p] \in Fds /\ fds[sock[i][p]] = Current(i, p)
  <1>1. Types /\ PhaseInv /\ WatchInv /\ FdInv
    BY DEF Regular
  <1>2. ~Quiet(i)
    BY DEF Quiet
  <1>3. ~Joining(i) /\ ss[i].pc \in {"up", "off"} /\ \A p \in 1 .. 2 : Holding(i, p)
    BY <1>1, <1>2 DEF PhaseInv, Holding
  <1>4. ~Second(i)
    BY <1>3 DEF Second, Registering, Joining
  <1>5. \A m \in DOMAIN watch[i] \ {n} : watch[i][m].pc = "done"
    BY <1>1 DEF WatchInv
  <1>6. \A p \in 1 .. 2 : sock[i][p] \in Fds /\ fds[sock[i][p]] = Current(i, p)
    BY <1>1, <1>3 DEF FdInv
  <1>7. ss[i].run > 0
    <2>1. 1 \in 1 .. 2 /\ sock[i][1] \in Fds
      BY <1>6
    <2>2. fds[sock[i][1]] \in Conns \cup {None} /\ fds[sock[i][1]] # None
      BY <1>1, <1>6, <2>1, CurrentIs DEF Types
    <2>3. Current(i, 1) \in Conns
      BY <1>6, <2>1, <2>2
    <2>4. PICK j \in Servers, k \in 1 .. MaxRuns, p \in 1 .. 2 : Current(i, 1) = Conn(j, k, p)
      BY <1>1, <2>1, <2>3, CurrentIs DEF Conns
    <2>5. ss[i].run \in Nat /\ ss[i].run = k
      BY <1>1, <2>4, CurrentIs, ConnsApart, RegistryAssumption DEF Current
    <2>. QED BY <2>4, <2>5
  <1>. QED BY <1>2, <1>3, <1>4, <1>5, <1>6, <1>7

\* A watcher moves on without being done.
LEMMA WatchMoves ==
    ASSUME Regular, NEW i \in Servers, NEW n \in DOMAIN watch[i], NEW pc \in {"recv", "lock"},
           NEW c \in Conns \cup {None},
           watch[i][n].pc # "done", WatchGo(i, n, pc, c),
           c = (IF pc = "recv" THEN Current(i, 2) ELSE None),
           pc = "lock" => ss[i].pc = "off",
           bye' \subseteq bye,
           UNCHANGED <<ss, masterQ, waiting, fds, sock, available, holder, master, red, others, up>>
    PROVE  Regular'
  <1>1. Types /\ QueueInv /\ PhaseInv /\ WaitInv /\ WatchInv /\ ByeInv /\ FdInv
    BY DEF Regular
  <1> DEFINE w == [pc |-> pc, on |-> c]
  <1>2. watch' = [watch EXCEPT ![i][n] = w]
    BY DEF WatchGo
  <1>3. watch[i] \in Seq(Watchers) /\ w \in Watchers
    BY <1>1 DEF Types, Watchers
  <1>4. /\ \A j \in Servers \ {i} : watch'[j] = watch[j]
        /\ watch'[i] = [watch[i] EXCEPT ![n] = w]
    BY <1>1, <1>2 DEF Types
  <1>5. /\ watch'[i] \in Seq(Watchers) /\ DOMAIN watch'[i] = DOMAIN watch[i]
        /\ watch'[i][n] = w
        /\ \A m \in DOMAIN watch[i] \ {n} : watch'[i][m] = watch[i][m]
    BY <1>3, <1>4
  <1>6. w.pc = pc /\ w.on = c
    OBVIOUS
  <1> HIDE DEF w
  <1>7. ~Quiet(i) /\ ~Quiet(i)'
    BY <1>5, <1>6 DEF Quiet
  <1>8. \A j \in Servers : /\ Joining(j)' <=> Joining(j)
                           /\ Quiet(j)' <=> Quiet(j)
                           /\ Registering(j)' <=> Registering(j)
                           /\ Second(j)' <=> Second(j)
                           /\ ss'[j] = ss[j]
    BY <1>4, <1>7 DEF Joining, Asking, Quiet, Registering, Second
  <1>9. \A j \in Servers, q \in 1 .. 2 : Current(j, q)' = Current(j, q) /\ (Holding(j, q)' <=> Holding(j, q))
    BY <1>8 DEF Current, Holding
  <1>10. Types'
    <2>1. watch' \in [Servers -> Seq(Watchers)]
      BY <1>1, <1>2, <1>4, <1>5 DEF Types
    <2>. QED BY <1>1, <2>1 DEF Types
  <1>11. WatchInv'
    <2>1. \A m \in DOMAIN watch[i] \ {n} : watch[i][m].pc = "done" /\ watch[i][m].on = None
      BY <1>1, Watched DEF WatchInv
    <2>2. \A m \in DOMAIN watch'[i] :
            \/ m = n /\ watch'[i][m].pc = pc /\ watch'[i][m].on = c
            \/ m # n /\ watch'[i][m].pc = "done" /\ watch'[i][m].on = None
      BY <1>5, <1>6, <2>1
    <2>. SUFFICES ASSUME NEW j \in Servers
                  PROVE  /\ \A k, m \in DOMAIN watch'[j] :
                              watch'[j][k].pc # "done" /\ watch'[j][m].pc # "done" => k = m
                         /\ \A m \in DOMAIN watch'[j] :
                              /\ watch'[j][m].on = IF watch'[j][m].pc = "recv" THEN Current(j, 2)' ELSE None
                              /\ watch'[j][m].pc = "lock" => ss'[j].pc = "off"
      BY DEF WatchInv
    <2>3. CASE j = i
      BY <1>9, <2>2, <2>3
    <2>4. CASE j # i
      BY <1>1, <1>4, <1>9, <2>4 DEF WatchInv
    <2>. QED BY <2>3, <2>4
  <1>12. QueueInv' /\ PhaseInv' /\ WaitInv' /\ ByeInv' /\ FdInv'
    BY <1>1, <1>8, <1>9, QueueFrame, PhaseFrame, WaitFrame, ByeFrame, FdFrame
  <1>. QED BY <1>10, <1>11, <1>12 DEF Regular

LEMMA WatchReadKeeps ==
    ASSUME Regular, NEW i \in Servers, NEW n \in DOMAIN watch[i], WatchRead(i, n)
    PROVE  Regular'
  <1>1. /\ watch[i][n].pc = "read"
        /\ WatchGo(i, n, "recv", fds[sock[i][2]])
        /\ UNCHANGED <<ss, bye, masterQ, waiting, fds, sock, available, holder, master, red, others, up>>
    BY DEF WatchRead
  <1>2. fds[sock[i][2]] = Current(i, 2) /\ ss[i].run > 0
    BY <1>1, Watched
  <1>3. Current(i, 2) \in Conns
    BY <1>2, CurrentIs DEF Regular
  <1>. QED BY <1>1, <1>2, <1>3, WatchMoves

\* What a watcher hears is the end of its storage server's run.
LEMMA HearsTheEnd ==
    ASSUME Regular, NEW i \in Servers, NEW n \in DOMAIN watch[i], WatchHears(i, n)
    PROVE  ss[i].pc = "off"
  <1>1. Types /\ WatchInv /\ ByeInv
    BY DEF Regular
  <1>2. watch[i][n].pc = "recv" /\ (Says(watch[i][n].on) \/ ~Alive(watch[i][n].on))
    BY DEF WatchHears
  <1> DEFINE c == Current(i, 2)
  <1>3. watch[i][n].on = c
    BY <1>1, <1>2 DEF WatchInv
  <1>4. c.peer = i /\ c.run = ss[i].run /\ c.port = 2
    BY DEF Current, Conn
  <1> HIDE DEF c
  <1>5. i # Client /\ ss[i].run \in Nat
    BY <1>1, RegistryAssumption DEF Types, Client
  <1>6. CASE Says(c)
    <2>1. <<i, ss[i].run>> \in bye
      BY <1>4, <1>6 DEF Says
    <2>. QED BY <1>1, <1>5, <2>1 DEF ByeInv
  <1>7. CASE ~Alive(c)
    BY <1>4, <1>5, <1>7 DEF Alive
  <1>. QED BY <1>2, <1>3, <1>6, <1>7

LEMMA WatchHearsKeeps ==
    ASSUME Regular, NEW i \in Servers, NEW n \in DOMAIN watch[i], WatchHears(i, n)
    PROVE  Regular'
  <1>1. ss[i].pc = "off"
    BY HearsTheEnd
  <1>2. Ends(Result(watch[i][n].on))
    BY DEF Ends, Result
  <1>3. /\ watch[i][n].pc = "recv"
        /\ WatchGo(i, n, "lock", None)
        /\ bye' \subseteq bye
        /\ UNCHANGED <<ss, masterQ, waiting, fds, sock, available, holder, master, red, others, up>>
    BY <1>2 DEF WatchHears
  <1>. QED BY <1>1, <1>3, WatchMoves

LEMMA WatchLeavesKeeps ==
    ASSUME Regular, NEW i \in Servers, NEW n \in DOMAIN watch[i], WatchLeaves(i, n)
    PROVE  Regular'
  <1>1. Types /\ QueueInv /\ PhaseInv /\ WaitInv /\ WatchInv /\ ByeInv /\ FdInv
    BY DEF Regular
  <1> DEFINE w == [pc |-> "done", on |-> None]
             F == {sock[i][1], sock[i][2]}
  <1>2. /\ watch[i][n].pc = "lock"
        /\ available' = [available EXCEPT ![i] = FALSE]
        /\ fds' = [f \in Fds |-> IF f \in F THEN None ELSE fds[f]]
        /\ watch' = [watch EXCEPT ![i][n] = w]
        /\ UNCHANGED <<ss, bye, masterQ, waiting, sock, master, red, others, up>>
    BY DEF WatchLeaves, Leaving, Close, WatchGo
  <1>3. /\ ~Quiet(i) /\ ~Joining(i) /\ ~Second(i) /\ ss[i].pc = "off" /\ ss[i].run > 0
        /\ \A m \in DOMAIN watch[i] \ {n} : watch[i][m].pc = "done"
        /\ \A p \in 1 .. 2 : sock[i][p] \in Fds /\ fds[sock[i][p]] = Current(i, p)
    BY <1>1, <1>2, Watched DEF WatchInv
  <1>4. watch[i] \in Seq(Watchers) /\ w \in Watchers /\ w.pc = "done" /\ w.on = None
    BY <1>1 DEF Types, Watchers
  <1>5. /\ \A j \in Servers \ {i} : watch'[j] = watch[j] /\ available'[j] = available[j]
        /\ watch'[i] = [watch[i] EXCEPT ![n] = w] /\ available'[i] = FALSE
    BY <1>1, <1>2 DEF Types
  <1>6. /\ watch'[i] \in Seq(Watchers) /\ DOMAIN watch'[i] = DOMAIN watch[i]
        /\ watch'[i][n] = w
        /\ \A m \in DOMAIN watch[i] \ {n} : watch'[i][m] = watch[i][m]
    BY <1>4, <1>5
  <1>7. Quiet(i)'
    BY <1>3, <1>4, <1>6 DEF Quiet
  <1>8. \A j \in Servers : /\ Joining(j)' <=> Joining(j)
                           /\ j # i => (Quiet(j)' <=> Quiet(j))
                           /\ Registering(j)' <=> Registering(j)
                           /\ Second(j)' <=> Second(j)
                           /\ ss'[j] = ss[j]
    BY <1>2, <1>5 DEF Joining, Asking, Quiet, Registering, Second
  <1>9. \A j \in Servers, q \in 1 .. 2 :
          Current(j, q)' = Current(j, q) /\ (Holding(j, q)' <=> Holding(j, q) /\ j # i)
    BY <1>3, <1>7, <1>8 DEF Current, Holding
  <1>10. Types'
    <2>1. watch' \in [Servers -> Seq(Watchers)]
      BY <1>1, <1>2, <1>5, <1>6 DEF Types
    <2>2. fds' \in [Fds -> Conns \cup {None}]
      BY <1>1, <1>2 DEF Types
    <2>. QED BY <1>1, <1>2, <2>1, <2>2 DEF Types
  <1>11. QueueInv'
    BY <1>1, <1>2, <1>8, QueueFrame
  <1>12. PhaseInv'
    <2>1. ~Registering(i)
      BY <1>3 DEF Joining
    <2>. QED BY <1>1, <1>2, <1>3, <1>5, <1>7, <1>8, <2>1 DEF PhaseInv
  <1>13. WaitInv'
    BY <1>1, <1>2, <1>8, WaitFrame
  <1>14. WatchInv'
    <2>1. \A m \in DOMAIN watch'[i] : watch'[i][m].pc = "done" /\ watch'[i][m].on = None
      BY <1>1, <1>3, <1>4, <1>6 DEF WatchInv
    <2>. SUFFICES ASSUME NEW j \in Servers
                  PROVE  /\ \A k, m \in DOMAIN watch'[j] :
                              watch'[j][k].pc # "done" /\ watch'[j][m].pc # "done" => k = m
                         /\ \A m \in DOMAIN watch'[j] :
                              /\ watch'[j][m].on = IF watch'[j][m].pc = "recv" THEN Current(j, 2)' ELSE None
                              /\ watch'[j][m].pc = "lock" => ss'[j].pc = "off"
      BY DEF WatchInv
    <2>2. CASE j = i
      BY <2>1, <2>2
    <2>3. CASE j # i
      BY <1>1, <1>2, <1>5, <1>9, <2>3 DEF WatchInv
    <2>. QED BY <2>2, <2>3
  <1>15. ByeInv'
    BY <1>1, <1>2, ByeFrame
  <1>16. FdInv'
    <2>1. F = {g \in Fds : \E p \in 1 .. 2 : g = sock[i][p]}
      <3>1. \A p : p \in 1 .. 2 <=> p = 1 \/ p = 2
        OBVIOUS
      <3>. QED BY <1>3, <3>1
    <2> HIDE DEF F
    <2>2. \A g \in Fds : g \in F => fds'[g] = None /\ \E p \in 1 .. 2 : fds[g] = Current(i, p)
      BY <1>2, <1>3, <2>1
    <2>3. \A g \in Fds : g \notin F => fds'[g] = fds[g]
      BY <1>2
    <2>4. ASSUME NEW g \in Fds, fds'[g] # None
          PROVE  \/ \E m \in 1 .. NOthers : fds'[g] = OfClient(m) /\ others'[m].st = "in" /\ others'[m].fd = g
                 \/ \E j \in Servers, q \in 1 .. 2 :
                      fds'[g] = Current(j, q)' /\ sock'[j][q] = g /\ Holding(j, q)'
      <3>1. g \notin F /\ fds'[g] = fds[g]
        BY <2>2, <2>3, <2>4
      <3>2. CASE \E m \in 1 .. NOthers : fds[g] = OfClient(m) /\ others[m].st = "in" /\ others[m].fd = g
        BY <1>2, <3>1, <3>2
      <3>3. CASE \E j \in Servers, q \in 1 .. 2 : fds[g] = Current(j, q) /\ sock[j][q] = g /\ Holding(j, q)
        <4>1. PICK j \in Servers, q \in 1 .. 2 : fds[g] = Current(j, q) /\ sock[j][q] = g /\ Holding(j, q)
          BY <3>3
        <4>2. j # i
          BY <2>1, <3>1, <4>1
        <4>. QED BY <1>2, <1>9, <3>1, <4>1, <4>2
      <3>. QED BY <1>1, <2>4, <3>1, <3>2, <3>3 DEF FdInv
    <2>5. ASSUME NEW j \in Servers, NEW q \in 1 .. 2, Holding(j, q)'
          PROVE  sock'[j][q] \in Fds /\ fds'[sock'[j][q]] = Current(j, q)'
      <3>1. Holding(j, q) /\ j # i
        BY <1>9, <2>5
      <3>2. sock[j][q] \in Fds /\ fds[sock[j][q]] = Current(j, q)
        BY <1>1, <3>1 DEF FdInv
      <3>3. sock[j][q] \notin F
        BY <1>1, <2>2, <3>1, <3>2, CurrentIs
      <3>. QED BY <1>2, <1>9, <2>3, <3>2, <3>3
    <2>6. ASSUME NEW m \in 1 .. NOthers, others[m].st = "in"
          PROVE  others[m].fd \in Fds /\ fds'[others[m].fd] = OfClient(m)
      <3>1. others[m].fd \in Fds /\ fds[others[m].fd] = OfClient(m)
        BY <1>1, <2>6 DEF FdInv
      <3>2. others[m].fd \notin F
        BY <1>1, <2>2, <3>1, CurrentIs
      <3>. QED BY <2>3, <3>1, <3>2
    <2>. QED BY <1>2, <2>4, <2>5, <2>6 DEF FdInv
  <1>. QED BY <1>10, <1>11, <1>12, <1>13, <1>14, <1>15, <1>16 DEF Regular

-----------------------------------------------------------------------------
(* redundant_copy and the clients.                                          *)

LEMMA RedStopsKeeps ==
    ASSUME Regular, NEW i \in Servers, RedStops(i)
    PROVE  Regular'
  <1>1. Types /\ QueueInv /\ PhaseInv /\ WaitInv /\ WatchInv /\ ByeInv /\ FdInv
    BY DEF Regular
  <1>2. /\ red[i] > 0 /\ ~available[i] /\ red' = [red EXCEPT ![i] = @ - 1]
        /\ UNCHANGED <<ss, bye, masterQ, waiting, fds, sock, available, holder, master, watch, others, up>>
    BY DEF RedStops
  <1>3. Quiet(i)
    BY <1>1, <1>2 DEF PhaseInv
  <1>4. red[i] - 1 \in Nat /\ red' \in [Servers -> Nat] /\ \A j \in Servers \ {i} : red'[j] = red[j]
    BY <1>1, <1>2 DEF Types
  <1>5. \A j \in Servers : /\ Joining(j)' <=> Joining(j)
                           /\ Quiet(j)' <=> Quiet(j)
                           /\ Registering(j)' <=> Registering(j)
                           /\ Second(j)' <=> Second(j)
                           /\ ss'[j] = ss[j]
    BY <1>2 DEF Joining, Asking, Quiet, Registering, Second
  <1>6. \A j \in Servers, q \in 1 .. 2 : Current(j, q)' = Current(j, q) /\ (Holding(j, q)' <=> Holding(j, q))
    BY <1>5 DEF Current, Holding
  <1>7. Types'
    BY <1>1, <1>2, <1>4 DEF Types
  <1>8. PhaseInv'
    BY <1>1, <1>2, <1>3, <1>4, <1>5 DEF PhaseInv
  <1>9. QueueInv' /\ WaitInv' /\ WatchInv' /\ ByeInv' /\ FdInv'
    BY <1>1, <1>2, <1>5, <1>6, QueueFrame, WaitFrame, WatchFrame, ByeFrame, FdFrame
  <1>. QED BY <1>7, <1>8, <1>9 DEF Regular

LEMMA OthersFrame ==
    ASSUME Regular, UNCHANGED <<ss, bye, masterQ, waiting, sock, available, holder, master, watch, red, up>>
    PROVE  /\ QueueInv' /\ PhaseInv' /\ WaitInv' /\ WatchInv' /\ ByeInv'
           /\ \A i \in Servers, p \in 1 .. 2 : Current(i, p)' = Current(i, p) /\ (Holding(i, p)' <=> Holding(i, p))
  <1>1. QueueInv /\ PhaseInv /\ WaitInv /\ WatchInv /\ ByeInv
    BY DEF Regular
  <1>2. \A j \in Servers : /\ Joining(j)' <=> Joining(j)
                           /\ Quiet(j)' <=> Quiet(j)
                           /\ Registering(j)' <=> Registering(j)
                           /\ Second(j)' <=> Second(j)
                           /\ ss'[j] = ss[j]
    BY DEF Joining, Asking, Quiet, Registering, Second
  <1>3. \A j \in Servers, q \in 1 .. 2 : Current(j, q)' = Current(j, q) /\ (Holding(j, q)' <=> Holding(j, q))
    BY <1>2 DEF Current, Holding
  <1>. QED BY <1>1, <1>2, <1>3, QueueFrame, PhaseFrame, WaitFrame, WatchFrame, ByeFrame

LEMMA OtherJoinsKeeps ==
    ASSUME Regular, NEW n \in 1 .. NOthers, OtherJoins(n)
    PROVE  Regular'
  <1>1. Types /\ FdInv
    BY DEF Regular
  <1>2. PICK f \in Fds : f = Lowest /\ fds[f] = None
    BY LowestFree DEF OtherJoins
  <1>3. /\ others[n].st = "new"
        /\ fds' = [fds EXCEPT ![f] = OfClient(n)]
        /\ others' = [others EXCEPT ![n] = [fd |-> f, st |-> "in"]]
        /\ UNCHANGED <<ss, bye, masterQ, waiting, sock, available, holder, master, watch, red, up>>
    BY <1>2 DEF OtherJoins
  <1>4. /\ QueueInv' /\ PhaseInv' /\ WaitInv' /\ WatchInv' /\ ByeInv'
        /\ \A i \in Servers, p \in 1 .. 2 : Current(i, p)' = Current(i, p) /\ (Holding(i, p)' <=> Holding(i, p))
    BY <1>3, OthersFrame
  <1>5. /\ fds'[f] = OfClient(n) /\ \A g \in Fds \ {f} : fds'[g] = fds[g]
        /\ others'[n].fd = f /\ others'[n].st = "in" /\ \A m \in (1 .. NOthers) \ {n} : others'[m] = others[m]
    BY <1>1, <1>3 DEF Types
  <1>6. Types'
    <2>1. OfClient(n) \in Conns
      BY DEF Conns
    <2>2. fds' \in [Fds -> Conns \cup {None}]
      BY <1>1, <1>3, <2>1 DEF Types
    <2>3. others' \in [1 .. NOthers -> [fd : Fds \cup {Invalid}, st : {"new", "in", "left"}]]
      BY <1>1, <1>3 DEF Types
    <2>. QED BY <1>1, <1>3, <2>2, <2>3 DEF Types
  <1>7. FdInv'
    <2>1. ASSUME NEW g \in Fds, fds'[g] # None
          PROVE  \/ \E m \in 1 .. NOthers : fds'[g] = OfClient(m) /\ others'[m].st = "in" /\ others'[m].fd = g
                 \/ \E j \in Servers, q \in 1 .. 2 :
                      fds'[g] = Current(j, q)' /\ sock'[j][q] = g /\ Holding(j, q)'
      <3>1. CASE g = f
        BY <1>5, <3>1
      <3>2. CASE g # f
        <4>1. fds'[g] = fds[g]
          BY <1>5, <3>2
        <4>2. CASE \E m \in 1 .. NOthers : fds[g] = OfClient(m) /\ others[m].st = "in" /\ others[m].fd = g
          <5>1. PICK m \in 1 .. NOthers : fds[g] = OfClient(m) /\ others[m].st = "in" /\ others[m].fd = g
            BY <4>2
          <5>2. m # n
            BY <1>3, <5>1
          <5>. QED BY <1>5, <4>1, <5>1, <5>2
        <4>3. CASE \E j \in Servers, q \in 1 .. 2 : fds[g] = Current(j, q) /\ sock[j][q] = g /\ Holding(j, q)
          BY <1>3, <1>4, <4>1, <4>3
        <4>. QED BY <1>1, <2>1, <4>1, <4>2, <4>3 DEF FdInv
      <3>. QED BY <3>1, <3>2
    <2>2. ASSUME NEW j \in Servers, NEW q \in 1 .. 2, Holding(j, q)'
          PROVE  sock'[j][q] \in Fds /\ fds'[sock'[j][q]] = Current(j, q)'
      <3>1. sock[j][q] \in Fds /\ fds[sock[j][q]] = Current(j, q)
        BY <1>1, <1>4, <2>2 DEF FdInv
      <3>2. sock[j][q] # f
        BY <1>1, <1>2, <3>1, CurrentIs
      <3>. QED BY <1>3, <1>4, <1>5, <3>1, <3>2
    <2>3. ASSUME NEW m \in 1 .. NOthers, others'[m].st = "in"
          PROVE  others'[m].fd \in Fds /\ fds'[others'[m].fd] = OfClient(m)
      <3>1. CASE m = n
        BY <1>5, <3>1
      <3>2. CASE m # n
        <4>1. others[m].fd \in Fds /\ fds[others[m].fd] = OfClient(m) /\ others'[m] = others[m]
          BY <1>1, <1>5, <2>3, <3>2 DEF FdInv
        <4>2. others[m].fd # f
          BY <1>2, <4>1, ConnsApart
        <4>. QED BY <1>5, <4>1, <4>2
      <3>. QED BY <3>1, <3>2
    <2>. QED BY <2>1, <2>2, <2>3 DEF FdInv
  <1>. QED BY <1>4, <1>6, <1>7 DEF Regular

LEMMA OtherLeavesKeeps ==
    ASSUME Regular, NEW n \in 1 .. NOthers, OtherLeaves(n)
    PROVE  Regular'
  <1>1. Types /\ FdInv
    BY DEF Regular
  <1>2. PICK f \in Fds : f = others[n].fd /\ fds[f] = OfClient(n)
    BY <1>1 DEF OtherLeaves, FdInv
  <1>3. /\ others[n].st = "in"
        /\ fds' = [g \in Fds |-> IF g \in {f} THEN None ELSE fds[g]]
        /\ others' = [others EXCEPT ![n] = [fd |-> Invalid, st |-> "left"]]
        /\ UNCHANGED <<ss, bye, masterQ, waiting, sock, available, holder, master, watch, red, up>>
    BY <1>2 DEF OtherLeaves, Close
  <1>4. /\ QueueInv' /\ PhaseInv' /\ WaitInv' /\ WatchInv' /\ ByeInv'
        /\ \A i \in Servers, p \in 1 .. 2 : Current(i, p)' = Current(i, p) /\ (Holding(i, p)' <=> Holding(i, p))
    BY <1>3, OthersFrame
  <1>5. /\ fds'[f] = None /\ \A g \in Fds \ {f} : fds'[g] = fds[g]
        /\ others'[n].st = "left" /\ \A m \in (1 .. NOthers) \ {n} : others'[m] = others[m]
    BY <1>1, <1>3 DEF Types
  <1>6. Types'
    <2>1. fds' \in [Fds -> Conns \cup {None}]
      BY <1>1, <1>3 DEF Types
    <2>2. others' \in [1 .. NOthers -> [fd : Fds \cup {Invalid}, st : {"new", "in", "left"}]]
      BY <1>1, <1>3 DEF Types
    <2>. QED BY <1>1, <1>3, <2>1, <2>2 DEF Types
  <1>7. FdInv'
    <2>1. ASSUME NEW g \in Fds, fds'[g] # None
          PROVE  \/ \E m \in 1 .. NOthers : fds'[g] = OfClient(m) /\ others'[m].st = "in" /\ others'[m].fd = g
                 \/ \E j \in Servers, q \in 1 .. 2 :
                      fds'[g] = Current(j, q)' /\ sock'[j][q] = g /\ Holding(j, q)'
      <3>1. g # f /\ fds'[g] = fds[g]
        BY <1>5, <2>1
      <3>2. CASE \E m \in 1 .. NOthers : fds[g] = OfClient(m) /\ others[m].st = "in" /\ others[m].fd = g
        <4>1. PICK m \in 1 .. NOthers : fds[g] = OfClient(m) /\ others[m].st = "in" /\ others[m].fd = g
          BY <3>2
        <4>2. m # n
          BY <1>2, <3>1, <4>1
        <4>. QED BY <1>5, <3>1, <4>1, <4>2
      <3>3. CASE \E j \in Servers, q \in 1 .. 2 : fds[g] = Current(j, q) /\ sock[j][q] = g /\ Holding(j, q)
        BY <1>3, <1>4, <3>1, <3>3
      <3>. QED BY <1>1, <2>1, <3>1, <3>2, <3>3 DEF FdInv
    <2>2. ASSUME NEW j \in Servers, NEW q \in 1 .. 2, Holding(j, q)'
          PROVE  sock'[j][q] \in Fds /\ fds'[sock'[j][q]] = Current(j, q)'
      <3>1. sock[j][q] \in Fds /\ fds[sock[j][q]] = Current(j, q)
        BY <1>1, <1>4, <2>2 DEF FdInv
      <3>2. sock[j][q] # f
        BY <1>1, <1>2, <3>1, CurrentIs
      <3>. QED BY <1>3, <1>4, <1>5, <3>1, <3>2
    <2>3. ASSUME NEW m \in 1 .. NOthers, others'[m].st = "in"
          PROVE  others'[m].fd \in Fds /\ fds'[others'[m].fd] = OfClient(m)
      <3>1. m # n
        BY <1>5, <2>3
      <3>2. others[m].fd \in Fds /\ fds[others[m].fd] = OfClient(m) /\ others'[m] = others[m]
        BY <1>1, <1>5, <2>3, <3>1 DEF FdInv
      <3>3. others[m].fd # f
        BY <1>2, <3>1, <3>2, ConnsApart
      <3>. QED BY <1>5, <3>2, <3>3
    <2>. QED BY <2>1, <2>2, <2>3 DEF FdInv
  <1>. QED BY <1>4, <1>6, <1>7 DEF Regular

-----------------------------------------------------------------------------
(* The invariant holds.                                                     *)

LEMMA RegInit == Init => Regular
  <1>. SUFFICES ASSUME Init PROVE Regular
    OBVIOUS
  <1>1. \A i \in Servers : /\ ~Asking(i) /\ ~Registering(i) /\ ~Second(i) /\ ~Joining(i)
                           /\ Quiet(i) /\ ss[i].pc = "off" /\ ss[i].run = 0 /\ ~available[i]
                           /\ \A p \in 1 .. 2 : ~Holding(i, p)
    <2>1. Len(masterQ) = 0 /\ master.pc = "wait" /\ \A i \in Servers : DOMAIN watch[i] = {}
      BY DEF Init
    <2>2. \A i \in Servers : ~Asking(i) /\ ~Registering(i) /\ ~Second(i) /\ Quiet(i)
      <3>1. 1 .. 0 = {}
        OBVIOUS
      <3>2. \A i \in Servers : ~Asking(i)
        BY <2>1, <3>1, Zenon DEF Asking
      <3>. QED BY <2>1, <3>2 DEF Registering, Second, Quiet
    <2>. QED BY <2>2 DEF Init, Joining, Holding
  <1>2. Types
    <2>1. (CHOOSE i \in Servers : TRUE) \in Servers
      BY RegistryAssumption
    <2>2. <<>> \in Seq(Servers) /\ <<>> \in Seq(Conns) /\ <<>> \in Seq(Watchers)
      OBVIOUS
    <2>. QED BY <2>1, <2>2, RegistryAssumption DEF Init, Types
  <1>3. QueueInv /\ PhaseInv /\ WaitInv /\ WatchInv /\ ByeInv
    BY <1>1 DEF Init, QueueInv, PhaseInv, WaitInv, WatchInv, ByeInv
  <1>4. FdInv
    BY <1>1 DEF Init, FdInv
  <1>. QED BY <1>2, <1>3, <1>4 DEF Regular

LEMMA RegNext ==
    ASSUME "soon" \notin Events, "halfway" \notin Events, RegInv, [Next]_vars
    PROVE  RegInv'
  <1>. SUFFICES ASSUME up' PROVE Regular'
    BY DEF RegInv
  <1>1. ~Shutdown
    BY DEF Shutdown
  <1>2. CASE UNCHANGED vars
    <2>1. Regular /\ Types /\ FdInv
      BY <1>2 DEF RegInv, Regular, vars
    <2>2. /\ QueueInv' /\ PhaseInv' /\ WaitInv' /\ WatchInv' /\ ByeInv'
          /\ \A i \in Servers, p \in 1 .. 2 : Current(i, p)' = Current(i, p) /\ (Holding(i, p)' <=> Holding(i, p))
      BY <1>2, <2>1, OthersFrame DEF vars
    <2>3. Types'
      BY <1>2, <2>1 DEF vars, Types
    <2>4. FdInv'
      BY <1>2, <2>1, <2>2, FdFrame DEF vars
    <2>. QED BY <2>2, <2>3, <2>4 DEF Regular
  <1>3. ASSUME NEW i \in Servers, StorageServer(i)
        PROVE  Regular'
    <2>1. up
      BY <1>3 DEF StorageServer, Ask, Connect, Quit, CutOff, Exit
    <2>. QED BY <1>3, <2>1, AskKeeps, ConnectKeeps, QuitKeeps, NotCutOff DEF StorageServer, RegInv
  <1>4. CASE Master
    <2>1. up
      BY <1>4 DEF Master, MasterRead, MasterLock, MasterAccept, MasterStart
    <2>. QED BY <1>4, <2>1, MasterReadKeeps, MasterLockKeeps, MasterAcceptKeeps, MasterStartKeeps DEF Master, RegInv
  <1>5. ASSUME NEW i \in Servers, Watch(i)
        PROVE  Regular'
    <2>1. PICK n \in DOMAIN watch[i] : WatchRead(i, n) \/ WatchHears(i, n)
      BY <1>5 DEF Watch
    <2>2. up
      BY <2>1 DEF WatchRead, WatchHears
    <2>. QED BY <2>1, <2>2, WatchReadKeeps, WatchHearsKeeps DEF RegInv
  <1>6. ASSUME NEW i \in Servers, Leave(i)
        PROVE  Regular'
    <2>1. PICK n \in DOMAIN watch[i] : WatchLeaves(i, n)
      BY <1>6 DEF Leave
    <2>2. up
      BY <2>1 DEF WatchLeaves, Leaving
    <2>. QED BY <2>1, <2>2, WatchLeavesKeeps DEF RegInv
  <1>7. ASSUME NEW i \in Servers, RedStops(i)
        PROVE  Regular'
    <2>1. up
      BY <1>7 DEF RedStops
    <2>. QED BY <1>7, <2>1, RedStopsKeeps DEF RegInv
  <1>8. CASE Others
    <2>1. PICK n \in 1 .. NOthers : OtherJoins(n) \/ OtherLeaves(n)
      BY <1>8 DEF Others
    <2>2. up
      BY <2>1 DEF OtherJoins, OtherLeaves
    <2>. QED BY <2>1, <2>2, OtherJoinsKeeps, OtherLeavesKeeps DEF RegInv
  <1>. QED BY <1>1, <1>2, <1>3, <1>4, <1>5, <1>6, <1>7, <1>8 DEF Next, NamingServer

\* While the naming server runs, a storage server is joining, watched by one thread on the
\* connection of its last run, or gone; the descriptors kept for it are its own.
\* (server_master_starter, empty_func, connect_to_naming_server)
THEOREM RegistryStays ==
    ASSUME "soon" \notin Events, "halfway" \notin Events
    PROVE  Spec => []RegInv
  <1>1. Init => RegInv
    BY RegInit DEF RegInv
  <1>2. RegInv /\ [Next]_vars => RegInv'
    BY RegNext
  <1>. QED BY <1>1, <1>2, PTL DEF Spec

-----------------------------------------------------------------------------
(* What it gives.                                                           *)

LEMMA ConnectedIfRegular == RegInv => RegisteredConnected
  <1>. SUFFICES ASSUME RegInv, NEW i \in Servers, up, available[i], ~Registering(i)
                PROVE  /\ \E k \in 1 .. MaxRuns : \A p \in 1 .. 2 : Fd(i, p) = Conn(i, k, p)
                       /\ \E n \in DOMAIN watch[i] :
                           /\ watch[i][n].pc # "done" /\ watch[i][n].on \in {None, Fd(i, 2)}
                           /\ \A m \in DOMAIN watch[i] \ {n} : watch[i][m].pc = "done"
                       /\ red[i] > 0
    BY DEF RegisteredConnected
  <1>1. Regular /\ Types /\ PhaseInv /\ WatchInv
    BY DEF RegInv, Regular
  <1>2. PICK n \in DOMAIN watch[i] : watch[i][n].pc # "done"
    BY <1>1 DEF PhaseInv, Quiet
  <1>3. /\ ss[i].run > 0 /\ ~Quiet(i)
        /\ \A m \in DOMAIN watch[i] \ {n} : watch[i][m].pc = "done"
        /\ \A p \in 1 .. 2 : sock[i][p] \in Fds /\ fds[sock[i][p]] = Current(i, p)
    BY <1>1, <1>2, Watched
  <1>4. ss[i].run \in 1 .. MaxRuns
    <2>1. MaxRuns \in Nat /\ ss[i].run \in 0 .. MaxRuns
      BY <1>1, RegistryAssumption DEF Types
    <2>. QED BY <1>3, <2>1
  <1>5. \A p \in 1 .. 2 : Fd(i, p) = Current(i, p) /\ Current(i, p) = Conn(i, ss[i].run, p)
    <2>1. Invalid \notin Fds
      BY RegistryAssumption DEF Invalid, Fds
    <2>. QED BY <1>3, <2>1 DEF Fd, Current
  <1>6. watch[i][n].on \in {None, Fd(i, 2)}
    BY <1>1, <1>5 DEF WatchInv
  <1>7. red[i] > 0
    BY <1>1, <1>3 DEF PhaseInv
  <1>. QED BY <1>2, <1>3, <1>4, <1>5, <1>6, <1>7

\* A storage server that is marked available has both its connections, of one run of its
\* program, at the numbers the naming server keeps, and exactly one watcher waits for its end.
\* (server_master_starter, empty_func)
THEOREM RegisteredConnectedHolds ==
    ASSUME "soon" \notin Events, "halfway" \notin Events
    PROVE  Spec => []RegisteredConnected
  <1>1. Spec => []RegInv
    BY RegistryStays
  <1>2. RegInv => RegisteredConnected
    BY ConnectedIfRegular
  <1>. QED BY <1>1, <1>2, PTL

LEMMA NoneIsNoConn == None \notin Conns
BY ConnsApart, RegistryAssumption DEF Conns

LEMMA ClosedIsDead ==
    ASSUME RegInv, [Next]_vars, up', NEW f \in Fds, NEW c \in Conns, fds[f] = c, fds'[f] # c
    PROVE  ~Alive(c)'
  <1>1. c # None
    BY NoneIsNoConn
  <1>2. ~Shutdown /\ fds' # fds
    BY DEF Shutdown
  <1>3. \A i \in Servers : ~StorageServer(i) /\ ~Watch(i) /\ ~RedStops(i)
    BY <1>2 DEF StorageServer, Ask, Connect, Quit, CutOff, Exit, Watch, WatchRead, WatchHears, RedStops
  <1>4. ~MasterRead /\ ~MasterLock
    BY <1>2 DEF MasterRead, MasterLock
  <1>5. up
    BY <1>2 DEF Next, NamingServer, vars, StorageServer, Ask, Connect, Quit, CutOff, Exit, Master, MasterRead,
                MasterLock, MasterAccept, MasterStart, Watch, WatchRead, WatchHears, Leave, WatchLeaves, Leaving,
                RedStops, Others, OtherJoins, OtherLeaves
  <1>6. Regular /\ Types /\ FdInv /\ WatchInv
    BY <1>5 DEF RegInv, Regular
  <1>7. \A d : fds' = [fds EXCEPT ![Lowest] = d] /\ FreeFds # {} => FALSE
    BY <1>1, <1>6, LowestFree DEF Types
  <1>8. CASE MasterAccept \/ MasterStart
    BY <1>7, <1>8 DEF MasterAccept, MasterStart, Accept, AcceptFrom
  <1>9. ASSUME NEW i \in Servers, NEW n \in DOMAIN watch[i], WatchLeaves(i, n)
        PROVE  ~Alive(c)'
    <2>1. watch[i][n].pc = "lock" /\ ss' = ss /\ (f = sock[i][1] \/ f = sock[i][2])
      BY <1>9 DEF WatchLeaves, Leaving, Close
    <2>2. PICK p \in 1 .. 2 : c = Current(i, p)
      BY <1>6, <2>1, Watched
    <2>3. ss[i].pc = "off" /\ i # Client
      BY <1>6, <2>1, RegistryAssumption DEF WatchInv, Client
    <2>4. c.peer = i
      BY <2>2 DEF Current, Conn
    <2>. QED BY <2>1, <2>3, <2>4 DEF Alive
  <1>10. ASSUME NEW n \in 1 .. NOthers, OtherJoins(n) \/ OtherLeaves(n)
         PROVE  ~Alive(c)'
    <2>1. OtherLeaves(n)
      BY <1>7, <1>10 DEF OtherJoins
    <2>2. f = others[n].fd /\ others[n].st = "in" /\ others'[n].st = "left"
      BY <1>6, <2>1 DEF OtherLeaves, Close, Types
    <2>3. c = OfClient(n)
      BY <1>6, <2>2 DEF FdInv
    <2>4. c.peer = Client /\ c.run = n
      BY <2>3 DEF OfClient, Conn
    <2>. QED BY <2>2, <2>4 DEF Alive
  <1>. QED BY <1>2, <1>3, <1>4, <1>8, <1>9, <1>10 DEF Next, NamingServer, Master, Leave, Others, vars

\* A descriptor is closed only when the other end of its connection has gone, whoever has had
\* that number before. (empty_func closes what the arrays have, 1610-1611)
THEOREM ClosesOnlyDeadHolds ==
    ASSUME "soon" \notin Events, "halfway" \notin Events
    PROVE  Spec => ClosesOnlyDead
  <1>1. Spec => []RegInv
    BY RegistryStays
  <1>2. RegInv /\ [Next]_vars =>
          [\A f \in Fds, c \in Conns : fds[f] = c /\ fds'[f] # c /\ up' => ~Alive(c)']_vars
    BY ClosedIsDead
  <1>. QED BY <1>1, <1>2, PTL DEF Spec, ClosesOnlyDead
==============================================================================
