------------------------------ MODULE Exchange ------------------------------
(***************************************************************************)
(* What block_server promises of the naming server's connections to the    *)
(* storage servers, told without a lock: one user at a time has a request  *)
(* on a connection, and what it hears is the answer to its own request,    *)
(* or that the connection is gone.                                         *)
(***************************************************************************)
CONSTANTS Users, Servers

VARIABLES
    waiting,    \* per connection: the users that wait for an answer on it
    wire        \* per connection: a request or an answer on its way

vars == <<waiting, wire>>

Quiet == [st |-> "quiet"]
Asked(u) == [st |-> "asked", by |-> u]
Answered(u) == [st |-> "answered", by |-> u]

Init ==
    /\ waiting = [s \in Servers |-> {}]
    /\ wire = [s \in Servers |-> Quiet]

\* A request, which is lost if the storage server is gone.
Ask(u, s) ==
    /\ waiting[s] = {} /\ wire[s] = Quiet
    /\ \A x \in Servers : u \notin waiting[x]
    /\ waiting' = [waiting EXCEPT ![s] = {u}]
    /\ \/ wire' = [wire EXCEPT ![s] = Asked(u)]
       \/ wire' = wire

Answer(s) ==
    \E u \in waiting[s] :
        /\ wire[s] = Asked(u)
        /\ wire' = [wire EXCEPT ![s] = Answered(u)]
        /\ UNCHANGED waiting

\* Its own answer.
Hear(u, s) ==
    /\ waiting[s] = {u} /\ wire[s] = Answered(u)
    /\ waiting' = [waiting EXCEPT ![s] = {}]
    /\ wire' = [wire EXCEPT ![s] = Quiet]

\* There is nothing to hear any more.
GiveUp(u, s) ==
    /\ waiting[s] = {u} /\ wire[s] = Quiet
    /\ waiting' = [waiting EXCEPT ![s] = {}]
    /\ UNCHANGED wire

\* The storage server goes away before it answers.
Lose(s) ==
    /\ wire' = [wire EXCEPT ![s] = Quiet]
    /\ UNCHANGED waiting

Next ==
    \E s \in Servers :
        \/ Answer(s) \/ Lose(s)
        \/ \E u \in Users : Ask(u, s) \/ Hear(u, s) \/ GiveUp(u, s)

Spec == Init /\ [][Next]_vars
=============================================================================
