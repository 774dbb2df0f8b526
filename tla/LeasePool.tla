------------------------------- MODULE LeasePool -------------------------------
(***************************************************************************)
(* What a bounded pool of database connections promises its clients, and   *)
(* nothing about how: a client that asks is granted a connection nobody    *)
(* else has, or is refused; no more than Capacity connections are out at   *)
(* once; a closed pool grants nothing; and whoever waits is answered.      *)
(* DbConnectionPool.tla is shown to implement it.                          *)
(***************************************************************************)
EXTENDS Naturals, FiniteSets

CONSTANTS
  Clients,    \* who may ask for a connection
  Resources,  \* the connections
  NoResource, \* "nothing leased"
  Capacity    \* how many may be leased at the same time

VARIABLES
  lease,      \* lease[t]: the resource client t holds, or NoResource
  asking,     \* the clients that wait for an answer
  open        \* the pool grants leases

vars == <<lease, asking, open>>

Leased == {lease[t] : t \in Clients} \ {NoResource}

Init ==
  /\ lease = [t \in Clients |-> NoResource]
  /\ asking = {}
  /\ open = TRUE

\* A client starts to wait. Only an open pool makes anybody wait.
Ask(t) ==
  /\ open
  /\ lease[t] = NoResource
  /\ t \notin asking
  /\ asking' = asking \cup {t}
  /\ UNCHANGED <<lease, open>>

\* A client, waiting or just arrived, gets a resource nobody has.
Grant(t) ==
  /\ open
  /\ lease[t] = NoResource
  /\ Cardinality(Leased) < Capacity
  /\ \E r \in Resources \ Leased : lease' = [lease EXCEPT ![t] = r]
  /\ asking' = asking \ {t}
  /\ UNCHANGED open

\* A waiting client is told that there is nothing for it.
Refuse(t) ==
  /\ t \in asking
  /\ asking' = asking \ {t}
  /\ UNCHANGED <<lease, open>>

Return(t) ==
  /\ lease[t] # NoResource
  /\ lease' = [lease EXCEPT ![t] = NoResource]
  /\ UNCHANGED <<asking, open>>

Close ==
  /\ open' = FALSE
  /\ UNCHANGED <<lease, asking>>

Reopen ==
  /\ open' = TRUE
  /\ UNCHANGED <<lease, asking>>

Next ==
  \/ \E t \in Clients : Ask(t) \/ Grant(t) \/ Refuse(t) \/ Return(t)
  \/ Close
  \/ Reopen

SafeSpec == Init /\ [][Next]_vars

\* A client that waits gets one answer or the other.
Answer(t) == t \in asking /\ (Grant(t) \/ Refuse(t))

\* Nobody waits for ever.
Spec == SafeSpec /\ \A t \in Clients : WF_vars(Answer(t))

================================================================================
