---- MODULE Storage ----
(* One torrent's data on disk: the Torrent of torrent.rs, with its bitfield,  *)
(* its download markers and the files its pieces are spread over, called with *)
(* the torrents mutex held; and add_torrent, which truncates those files      *)
(* without the mutex before it replaces the torrent.  A byte is the offset in *)
(* the torrent it belongs at, or Zero.                                        *)
EXTENDS Integers, Sequences, FiniteSets, SequencesExt, FiniteSetsExt

CONSTANTS
    PieceLength,  \* piece_length of the torrent file
    Layouts,      \* the file lengths a torrent may have, as sequences
    MaxAdds       \* bound: calls of add_torrent on the torrent already there

ASSUME PieceLengthAssumption == PieceLength \in Nat \ {0}
ASSUME LayoutsAssumption == Layouts \subseteq Seq(Nat)
ASSUME MaxAddsAssumption == MaxAdds \in Nat

VARIABLES
    files,     \* Torrent.files: the length of each
    disk,      \* what each file holds, a sequence of bytes
    bitfield,  \* Torrent.bitfield: the pieces downloaded whole
    markers,   \* Torrent.map: the DLMarkers of pieces with blocks
    adding,    \* add_torrent of this torrent again: the next file to create
    adds,      \* calls of add_torrent so far
    poisoned   \* the torrents mutex: a thread that held it has panicked

\* History, read by the properties alone.
VARIABLES
    received,     \* the offsets in each piece of `markers` written
    overwritten,  \* the offsets valid pieces were written over out of place
    emptied       \* the offsets of files created under a torrent with pieces

vars == <<files, disk, bitfield, markers, adding, adds, poisoned,
          received, overwritten, emptied>>
ownVars == <<bitfield, markers, received>>
addVars == <<adding, adds>>
lostVars == <<overwritten, emptied>>

Zero == -1

----------------------------------------------------------------------------
(* Pieces, blocks and the files they fall in. *)

LengthUpTo(f) == FoldLeft(+, 0, SubSeq(files, 1, f))
TotalSize == LengthUpTo(Len(files))
NPieces == (TotalSize + PieceLength - 1) \div PieceLength
Piece == 0..NPieces - 1

LastPieceLength == TotalSize - (NPieces - 1) * PieceLength
LengthOf(i) == IF i = NPieces - 1 THEN LastPieceLength ELSE PieceLength
DefaultPiece(i) == [index |-> i, begin |-> 0, length |-> LengthOf(i)]

Blocks == {b \in [index : Piece, begin : 0..PieceLength - 1, length : 1..PieceLength] :
              b.begin + b.length <= LengthOf(b.index)}

FileIndex(b) == b.begin + b.index * PieceLength
Data(b) == [k \in 1..b.length |-> FileIndex(b) + k - 1]
Offsets(b) == FileIndex(b)..FileIndex(b) + b.length - 1
OffsetsIn(f) == LengthUpTo(f - 1)..LengthUpTo(f) - 1

\* The stretches of the files a block falls in.  A block that begins where a
\* file ends has an empty stretch in it (`<`, not `<=`, finds the first file).
MapFiles(b) ==
    LET start == FileIndex(b)
        end   == start + b.length
        first == Min({f \in DOMAIN files : LengthUpTo(f) >= start})
        last  == Min({f \in first..Len(files) : LengthUpTo(f) >= end})
    IN  [n \in 1..last - first + 1 |->
            LET f == first + n - 1
                from == Max({start, LengthUpTo(f - 1)})
            IN  [file |-> f, begin |-> from - LengthUpTo(f - 1),
                 length |-> Min({end, LengthUpTo(f)}) - from]]

----------------------------------------------------------------------------
(* DLMarkers: where the downloaded stretches of a piece begin and end. *)

Begin(v) == [kind |-> "Begin", val |-> v]
End(v) == [kind |-> "End", val |-> v]

\* The offset just before v (begin: just at v) lies in a stretch of ms, as the
\* scan of in_shaded finds it: the marker that decides is the last before v, or
\* the one at v unless the mark to be set there begins a stretch.
InShaded(ms, v, begin) ==
    LET before == {n \in DOMAIN ms : \/ ms[n].val < v
                                     \/ ms[n].val = v /\ ~begin}
    IN  before # {} /\ ms[Max(before)].kind = "Begin"

\* Where in ms the first marker at v or past it is, or would be.
PositionOf(ms, v) == Min({n \in DOMAIN ms : ms[n].val >= v} \cup {Len(ms) + 1})

\* Faulty Insert, for the mutant runs.
InsertKeepsTouching(ms, begin, end) ==
    SubSeq(ms, 1, PositionOf(ms, begin + 1) - 1)
        \o (IF InShaded(ms, begin, TRUE) THEN <<>> ELSE <<Begin(begin)>>)
        \o (IF InShaded(ms, end, FALSE) THEN <<>> ELSE <<End(end)>>)
        \o SubSeq(ms, PositionOf(ms, end + 1), Len(ms))

\* insert_piece for a part of a piece: the markers within [begin, end] go (what
\* stays is a prefix and a suffix, the markers being in order), and the ends of
\* the block are marked there unless they lie in a stretch already.
Insert(ms, begin, end) ==
    SubSeq(ms, 1, PositionOf(ms, begin) - 1)
        \o (IF InShaded(ms, begin, TRUE) THEN <<>> ELSE <<Begin(begin)>>)
        \o (IF InShaded(ms, end, FALSE) THEN <<>> ELSE <<End(end)>>)
        \o SubSeq(ms, PositionOf(ms, end + 1), Len(ms))

\* have_block: one stretch of the piece covers the block.
HaveBlock(b) ==
    /\ b.index \in DOMAIN markers
    /\ LET ms == markers[b.index]
       IN  \E n \in 1..Len(ms) - 1 :
               /\ ms[n].kind = "Begin" /\ ms[n].val <= b.begin
               /\ ms[n + 1].kind = "End" /\ ms[n + 1].val >= b.begin + b.length

\* A piece downloaded at once: its bit is set, its markers go.
InsertWhole(i) ==
    /\ bitfield' = bitfield \cup {i}
    /\ markers' = [j \in DOMAIN markers \ {i} |-> markers[j]]
    /\ received' = [received EXCEPT ![i] = {}]

InsertPart(i, begin, end) ==
    LET old == IF i \in DOMAIN markers THEN markers[i] ELSE <<>>
    IN  /\ markers' = [j \in DOMAIN markers \cup {i} |->
                          IF j = i THEN Insert(old, begin, end) ELSE markers[j]]
        /\ received' = [received EXCEPT ![i] = @ \cup begin..end - 1]
        /\ UNCHANGED bitfield

\* insert_piece: a piece completed by its parts does not get its bit.
InsertPiece(b) ==
    IF b = DefaultPiece(b.index) THEN InsertWhole(b.index)
    ELSE InsertPart(b.index, b.begin, b.begin + b.length)

----------------------------------------------------------------------------
(* The files. *)

Zeros(n) == [k \in 1..n |-> Zero]

\* A file's content with `data` written at `begin`, the gap before it zeros.
Overwritten(content, begin, data) ==
    [k \in 1..Max({Len(content), begin + Len(data)}) |->
        IF k \in begin + 1..begin + Len(data) THEN data[k - begin]
        ELSE IF k <= Len(content) THEN content[k] ELSE Zero]

\* The disk after the first n stretches of a block were written: every file
\* gets the whole block, from where its stretch begins.
AfterWrites(b, data, n) ==
    LET parts == MapFiles(b)
        Written(f) == {m \in 1..n : parts[m].file = f}
    IN  [f \in DOMAIN disk |->
            IF Written(f) = {} THEN disk[f]
            ELSE Overwritten(disk[f], parts[Max(Written(f))].begin, data)]

\* The offsets those writes go over.
Reach(b, n) ==
    UNION {LET f == MapFiles(b)[m].file
               from == LengthUpTo(f - 1) + MapFiles(b)[m].begin
           IN  (from..from + b.length - 1) \cap OffsetsIn(f) : m \in 1..n}

\* What the first n writes do to the offsets lost: a block in its place brings
\* its own back when all of it is written, another one loses those it goes over.
Remember(b, data, n) ==
    IF data # Data(b)
    THEN overwritten' = overwritten \cup Reach(b, n) /\ UNCHANGED emptied
    ELSE LET back == IF n = Len(MapFiles(b)) THEN Offsets(b) ELSE {}
         IN  overwritten' = overwritten \ back /\ emptied' = emptied \ back

\* Faulty WriteBlockRaw, for the mutant runs.
WriteBlockRawMarksFirst(b, data) ==
    \E n \in 0..Len(MapFiles(b)) :
        /\ disk' = AfterWrites(b, data, n) /\ Remember(b, data, n)
        /\ InsertPiece(b)

\* write_block_raw: an error on a file leaves what was written before it, and
\* the piece not inserted.
WriteBlockRaw(b, data) ==
    \E n \in 0..Len(MapFiles(b)) :
        /\ disk' = AfterWrites(b, data, n) /\ Remember(b, data, n)
        /\ IF n = Len(MapFiles(b)) THEN InsertPiece(b) ELSE UNCHANGED ownVars

\* read_block_raw: what the stretches hold one after the other; a file too
\* short for its stretch is an error, which no data equals (an empty stretch is
\* read past the end of a file, too).
Unreadable == -2
ReadBlockRaw(b) ==
    LET parts == MapFiles(b)
    IN  IF \A n \in DOMAIN parts :
              \/ parts[n].length = 0
              \/ parts[n].begin + parts[n].length <= Len(disk[parts[n].file])
        THEN FlattenSeq([n \in DOMAIN parts |->
                SubSeq(disk[parts[n].file], parts[n].begin + 1, parts[n].begin + parts[n].length)])
        ELSE <<Unreadable>>

\* read_block refuses a block not marked as downloaded.
MayRead(b) == b.index \in bitfield \/ HaveBlock(b)

\* The hash of a block is the piece's: here, that its data is.  Where the block
\* begins is not looked at.
ValidPiece(b, data) == b.length = LengthOf(b.index) /\ data = Data(DefaultPiece(b.index))

----------------------------------------------------------------------------

\* What file f holds when it is whole.
Whole(f) == [k \in 1..files[f] |-> LengthUpTo(f - 1) + k - 1]

\* What a user may point add_completed_torrent at: the files whole, longer,
\* shorter, or with one byte wrong.
Supplied ==
    {[f \in DOMAIN files |-> Whole(f)]}
    \cup {[f \in DOMAIN files |-> Append(Whole(f), Zero)]}
    \cup {[f \in DOMAIN files |-> IF f = g THEN Zeros(0) ELSE Whole(f)] : g \in DOMAIN files}
    \cup {[f \in DOMAIN files |-> [k \in 1..files[f] |->
                IF LengthUpTo(f - 1) + k - 1 = o THEN Zero ELSE Whole(f)[k]]] :
             o \in 0..TotalSize - 1}

\* verify_files: every piece, read back, has its hash.
VerifyFiles == \A i \in Piece :
    ValidPiece(DefaultPiece(i), ReadBlockRaw(DefaultPiece(i)))

\* Torrent::new, and create_files for a torrent that is not downloaded.
Init ==
    /\ files \in Layouts /\ TotalSize > 0
    /\ \/ bitfield = {} /\ disk = [f \in DOMAIN files |-> Zeros(files[f])]
       \/ bitfield = Piece /\ disk \in Supplied /\ VerifyFiles
    /\ markers = <<>> /\ received = [i \in Piece |-> {}]
    /\ adding = 0 /\ adds = 0 /\ poisoned = FALSE
    /\ overwritten = {} /\ emptied = {}

\* write_block of a whole piece, with the right bytes or others, at the offset
\* its message gives.  One that would end behind the torrent's end makes
\* map_files panic before a file is opened, the torrents mutex held.
WriteBlock(i, begin, data) ==
    LET b == [DefaultPiece(i) EXCEPT !.begin = begin]
    IN  /\ ~poisoned /\ ValidPiece(b, data)
        /\ IF FileIndex(b) + b.length > TotalSize
           THEN poisoned' = TRUE /\ UNCHANGED <<disk, ownVars, lostVars>>
           ELSE WriteBlockRaw(b, data) /\ UNCHANGED poisoned
        /\ UNCHANGED <<files, addVars>>

\* write_block_raw of a part of a piece (as the tests of torrent.rs call it).
WritePart(b) ==
    /\ ~poisoned /\ b # DefaultPiece(b.index)
    /\ WriteBlockRaw(b, Data(b))
    /\ UNCHANGED <<files, addVars, poisoned>>

\* The client adds the torrent again: TorrentRuntime::new changes nothing.
AddAgain ==
    /\ adding = 0 /\ adds < MaxAdds
    /\ adding' = 1 /\ adds' = adds + 1
    /\ UNCHANGED <<files, disk, ownVars, poisoned, lostVars>>

\* create_files truncates the next file, the mutex free; an error, before the
\* file is created or before it has its length, ends add_torrent.
CreateFile ==
    /\ adding \in DOMAIN files
    /\ \/ /\ \/ disk' = [disk EXCEPT ![adding] = Zeros(files[adding])] /\ adding' = adding + 1
             \/ disk' = [disk EXCEPT ![adding] = Zeros(0)] /\ adding' = 0
          /\ emptied' = emptied \cup OffsetsIn(adding)
       \/ adding' = 0 /\ UNCHANGED <<disk, emptied>>
    /\ UNCHANGED <<files, ownVars, adds, poisoned, overwritten>>

\* Faulty InsertTorrent, for the mutant runs.
InsertTorrentKeepsOld ==
    /\ adding > Len(files) /\ ~poisoned
    /\ adding' = 0 /\ overwritten' = {} /\ emptied' = {}
    /\ UNCHANGED <<files, disk, ownVars, adds, poisoned>>

\* insert_torrent replaces the torrent that was there; it panics if the mutex is
\* poisoned.
InsertTorrent ==
    /\ adding > Len(files) /\ ~poisoned
    /\ bitfield' = {} /\ markers' = <<>> /\ received' = [i \in Piece |-> {}]
    /\ adding' = 0 /\ overwritten' = {} /\ emptied' = {}
    /\ UNCHANGED <<files, disk, adds, poisoned>>

Next ==
    \/ \E i \in Piece, begin \in 0..TotalSize, junk \in BOOLEAN :
           WriteBlock(i, begin, IF junk THEN Zeros(LengthOf(i)) ELSE Data(DefaultPiece(i)))
    \/ \E b \in Blocks : WritePart(b)
    \/ AddAgain
    \/ CreateFile
    \/ InsertTorrent

Spec == Init /\ [][Next]_vars

----------------------------------------------------------------------------

\* In whatever order blocks come, touch and overlap, the markers of a piece stay
\* a sorted Begin, End, Begin, End ... of its downloaded stretches, none of which
\* touches the next (insert_piece, in_shaded).
MarkersOrdered ==
    \A i \in DOMAIN markers :
        LET ms == markers[i]
        IN  /\ Len(ms) % 2 = 0
            /\ \A n \in DOMAIN ms : ms[n].kind = IF n % 2 = 1 THEN "Begin" ELSE "End"
            /\ \A n \in 1..Len(ms) - 1 : ms[n].val < ms[n + 1].val

\* have_block answers for exactly the blocks all of whose bytes were written.
HaveBlockExact ==
    \A b \in Blocks :
        HaveBlock(b) <=> b.begin..b.begin + b.length - 1 \subseteq received[b.index]

\* What read_block hands to a peer is the torrent's data, whatever writes failed
\* ("assert_eq!(p1, p1_2)", torrent.rs:653).  Two things lose bytes, these and no
\* others: a valid piece written out of place, whose hash is checked and whose
\* offset is not (metainfo.rs:374), and add_torrent of a torrent that is there
\* already, which creates its files again (manager.rs:465).
ReadsBack ==
    \A b \in Blocks :
        MayRead(b) /\ Offsets(b) \cap (overwritten \cup emptied) = {} => ReadBlockRaw(b) = Data(b)

\* downloaded(): whole pieces count piece_length bytes each, the last its own.
Downloaded ==
    LET last == NPieces - 1
    IN  (IF last \in bitfield THEN LastPieceLength ELSE 0)
        + Cardinality(bitfield \ {last}) * PieceLength

\* remaining() is 0 only when every file holds its bytes of the torrent, but for
\* those lost as ReadsBack says: the count that turns a torrent to Complete
\* agrees with the disk.
FinishedIsOnDisk ==
    TotalSize - Downloaded = 0
        => \A f \in DOMAIN files : \A k \in 1..files[f] :
               \/ LengthUpTo(f - 1) + k - 1 \in overwritten \cup emptied
               \/ k <= Len(disk[f]) /\ disk[f][k] = LengthUpTo(f - 1) + k - 1
====
