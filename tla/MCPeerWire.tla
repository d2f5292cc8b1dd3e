---- MODULE MCPeerWire ----
(* A small instance of PeerWire for TLC: 5 pieces in bytes of 4 bits. *)
EXTENDS PeerWire

\* One or two messages of each kind, with one longer than a read.
Messages ==
    {[type |-> "KeepAlive"]}
    \cup [type : {"Choke"}, on : BOOLEAN]
    \cup [type : {"Interested"}, on : {TRUE}]
    \cup [type : {"Have"}, piece : {1, 4}]
    \cup [type : {"Bitfield"}, bits : {{}, {0, 4}}]
    \cup [type : {"Request", "Cancel"}, index : {1}, begin : {0}, length : {2}]
    \cup [type : {"Piece"}, index : {1}, begin : {0}, data : {<<9, 4>>, <<0, 0, 0, 1, 1, 0, 0, 0, 0>>}]
    \cup [type : {"Port"}, port : {1}]
====
