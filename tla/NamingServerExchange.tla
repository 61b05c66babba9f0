------------------------ MODULE NamingServerExchange ------------------------
(***************************************************************************)
(* NamingServer as an implementation of Exchange, and the invariant that   *)
(* shows it.                                                               *)
(***************************************************************************)
EXTENDS NamingServer

\* Thread t waits in recv on the connection to storage server s.
WaitsAt(t, s) ==
    \/ t \in Clients /\ cl[t].pc = "recv" /\ cl[t].srv = s
    \/ t = Red(s) /\ rd[s].pc = "hear"

Waiters(s) == {t \in Threads : WaitsAt(t, s)}

Waiting == [s \in Servers |-> Waiters(s)]

\* What is on its way, and for whom.
OnWire(s) ==
    IF req[s] # <<>> THEN [st |-> "asked", by |-> Head(req[s]).by]
    ELSE IF rep[s] # <<>> THEN [st |-> "answered", by |-> Head(rep[s]).by]
    ELSE [st |-> "quiet"]

Wire == [s \in Servers |-> OnWire(s)]

E == INSTANCE Exchange WITH Users <- Threads, waiting <- Waiting, wire <- Wire

\* Every exchange with a storage server ends with the answer to the request it began
\* with, or with the connection closed: a handler or a round never reads what was meant
\* for another. (the sem_wait, send, recv, sem_post of every handler)
OwnAnswers == E!Spec

\* Where an exchange is one piece: copyfile reads one of its acknowledgements after
\* it has given the lock back.
OnePiece == Balanced /\ "copyfile" \notin Ops

\* A message belongs to a thread that waits for it, and says what was asked.
Meant(s, m) ==
    /\ WaitsAt(m.by, s)
    /\ m.by \in Clients => m.kind = cl[m.by].cmd

ServerInvX(s) ==
    /\ req[s] # <<>> => Len(req[s]) = 1 /\ rep[s] = <<>> /\ Meant(s, Head(req[s]))
    /\ rep[s] # <<>> => Len(rep[s]) = 1 /\ Meant(s, Head(rep[s]))
    /\ ~alive[s] => req[s] = <<>>
    /\ ~open[s] => ~alive[s] /\ rep[s] = <<>>
    /\ wpc[s] \in {"want", "mark", "post"} => ~alive[s]
    /\ \A c \in Clients :
        rep[s] # <<>> /\ Head(rep[s]).by = c /\ Head(rep[s]).kind = "create"
          /\ Head(rep[s]).ticket = "YES" => made[c]

ClientInvX(c) ==
    /\ cl[c].pc # "late"
    /\ cl[c].op = "create" => cl[c].cmd \in {"none", "create"}
    /\ cl[c].pc \in {"lock", "send", "recv"} => cl[c].cmd # "none"
    /\ cl[c].op = "create" /\ cl[c].answer = "YES" => made[c]

ExchangeInv ==
    /\ \A s \in Servers : ServerInvX(s)
    /\ \A c \in Clients : ClientInvX(c)
=============================================================================
