---- MODULE MCTorrentRuntime ----
(* Small instance of TorrentRuntime for TLC. *)
EXTENDS TorrentRuntime
====
