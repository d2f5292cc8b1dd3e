---- MODULE PieceLifecycle ----
(* What a torrent promises of each of its pieces, whatever its queue, its     *)
(* priorities and its clock do: a piece waits, is asked for and in the end is *)
(* out of the torrent's hands, in that order only, and a piece once on disk   *)
(* stays there.  A piece may come without having been asked for.              *)
CONSTANT Piece

VARIABLES
    stage,  \* where each piece is: "queued", "asked" or "out"
    have    \* the pieces on disk

TypeOK == stage \in [Piece -> {"queued", "asked", "out"}] /\ have \subseteq Piece

Init ==
    /\ stage = [i \in Piece |-> "queued"]
    /\ have = {} \/ have = Piece

\* The piece is asked for.
Ask(i) ==
    /\ stage[i] = "queued"
    /\ stage' = [stage EXCEPT ![i] = "asked"]
    /\ UNCHANGED have

\* The one request is answered, well or not, or is made a last time.
Release(i) ==
    /\ stage[i] = "asked"
    /\ stage' = [stage EXCEPT ![i] = "out"]
    /\ have' \in {have, have \cup {i}}

\* A piece comes that was not asked for.
Unasked(i) ==
    /\ stage[i] # "asked"
    /\ have' = have \cup {i}
    /\ UNCHANGED stage

Next == \E i \in Piece : Ask(i) \/ Release(i) \/ Unasked(i)

Spec == Init /\ [][Next]_<<stage, have>>
====
