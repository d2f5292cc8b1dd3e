---- MODULE MCStorage ----
(* Small instances of Storage for TLC. *)
EXTENDS Storage

\* Pieces of 3 bytes and a last one of 1, in one file and with a file border
\* between them; and a torrent of one short piece behind an empty file.
WholePieceLayouts == {<<4>>, <<3, 1>>, <<0, 2>>}

\* A piece that lies in two files.
SpanningLayouts == {<<2, 2>>}
====
