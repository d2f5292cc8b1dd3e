---- MODULE MCSwarm ----
(* Small instances of Swarm for TLC. *)
EXTENDS Swarm, TLC

\* Peers and connections are interchangeable: no operator of Swarm chooses among
\* them, and no run that uses this checks liveness.
Symmetry == Permutations(PeerId) \cup Permutations(Conn)

\* A request may still be sent: the controller is there, the mutex is not poisoned
\* and no torrent is paused or complete.  Without commands none of these comes back,
\* so behind a state in which one fails no request is sent any more.
StillAsking ==
    /\ ~poisoned /\ ~ControllerGone
    /\ \A h \in DOMAIN torrents : torrents[h].status = "Running"
====
