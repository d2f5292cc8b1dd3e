---- MODULE PeerWire ----
(* The bytes two peers exchange: the encoders and parsers of peer.rs, and the *)
(* socket between a peer that sends and the connection thread that reads.     *)
(* TCP may hand over any stretch of the bytes under way, and one read() is    *)
(* taken as one message.  A byte has ByteBits bits instead of 8, and the      *)
(* fields of the handshake are shorter.                                       *)
EXTENDS Integers, Sequences, FiniteSets, SequencesExt, FiniteSetsExt

CONSTANTS
    NPieces,   \* the number of pieces of the torrent
    ByteBits,  \* the bits of a byte
    MsgSize,   \* MSG_SIZE of lib.rs: the most one read() takes
    OverflowChecks, \* the build panics on overflow (cargo's default), or wraps
    Payload,   \* what the sender may send: a set of messages
    MaxSends,  \* bound: messages sent
    MaxUnread  \* bound: messages sent and not read

ASSUME WireAssumption ==
    /\ NPieces \in Nat \ {0} /\ ByteBits \in Nat \ {0, 1, 2, 3}
    /\ OverflowChecks \in BOOLEAN
    /\ MsgSize \in Nat \ {0} /\ MaxSends \in Nat /\ MaxUnread \in Nat

Piece == 0..NPieces - 1

\* Two to the power of n, and the number of values of a byte and of four.
Power[n \in 0..ByteBits] == IF n = 0 THEN 1 ELSE 2 * Power[n - 1]
Base == Power[ByteBits]
U32s == 0..Base * Base * Base * Base - 1

\* The messages the encoders can be given: their numbers are u32s, and so is the
\* length they come to (peer.rs:321, "bitvecs of max length (MAX_U32 - 1)").
Message ==
    [type : {"KeepAlive"}]
    \cup [type : {"Choke", "Interested"}, on : BOOLEAN]
    \cup [type : {"Have"}, piece : Piece]
    \cup [type : {"Bitfield"}, bits : SUBSET Piece]
    \cup [type : {"Request", "Cancel"}, index : U32s, begin : U32s, length : U32s]
    \cup [type : {"Piece"}, index : U32s, begin : U32s,
          data : {data \in Seq(0..Base - 1) : 9 + Len(data) \in U32s}]
    \cup [type : {"Port"}, port : U32s]

ASSUME PayloadAssumption == Payload \subseteq Message /\ NPieces + 1 \in U32s

----------------------------------------------------------------------------
(* Encoders *)

\* to_be and read_u32: a number as four bytes, the highest first.
U32(n) ==
    LET n1 == n \div Base
        n2 == n1 \div Base
        n3 == n2 \div Base
    IN  <<n3 % Base, n2 % Base, n1 % Base, n % Base>>
ReadU32(bytes) == ((bytes[1] * Base + bytes[2]) * Base + bytes[3]) * Base + bytes[4]

NBytes == (NPieces + ByteBits - 1) \div ByteBits

\* The byte with a bit for each of the ByteBits pieces from `first`, the first of
\* them in the highest.
ByteOf(S, first) ==
    LET high[n \in 0..ByteBits] ==
            IF n = 0 THEN 0
            ELSE 2 * high[n - 1] + (IF first + (n - 1) \in S THEN 1 ELSE 0)
    IN  high[ByteBits]

\* Faulty BitfieldBytes, for the mutant runs.
BitfieldBytesLowFirst(S) ==
    [k \in 1..NBytes |-> ByteOf({k * ByteBits - 1 - (i % ByteBits) : i \in
                                   {i \in S : i \div ByteBits = k - 1}}, (k - 1) * ByteBits)]

\* BitVec::to_bytes.
BitfieldBytes(S) == [k \in 1..NBytes |-> ByteOf(S, (k - 1) * ByteBits)]

\* message! and message_from_bytes!: length prefix, id, body.
Framed(id, body) == U32(1 + Len(body)) \o <<id>> \o body

Encode(m) ==
    CASE m.type = "KeepAlive"  -> U32(0)
      [] m.type = "Choke"      -> Framed(IF m.on THEN 0 ELSE 1, <<>>)
      [] m.type = "Interested" -> Framed(IF m.on THEN 2 ELSE 3, <<>>)
      [] m.type = "Have"       -> Framed(4, U32(m.piece))
      [] m.type = "Bitfield"   -> Framed(5, BitfieldBytes(m.bits))
      [] m.type = "Request"    -> Framed(6, U32(m.index) \o U32(m.begin) \o U32(m.length))
      [] m.type = "Piece"      -> Framed(7, U32(m.index) \o U32(m.begin) \o m.data)
      [] m.type = "Cancel"     -> Framed(8, U32(m.index) \o U32(m.begin) \o U32(m.length))
      [] m.type = "Port"       -> Framed(9, U32(m.port))

\* The handshake: length of the protocol string, the string, reserved bytes,
\* the torrent's hash, the peer's id.
Pstr == <<7>>
HashLen == 2
HSLEN == 1 + Len(Pstr) + 1 + 2 * HashLen
Handshake(id, hash) == <<Len(Pstr)>> \o Pstr \o <<0>> \o hash \o id

----------------------------------------------------------------------------
(* Parsers.  The outcome of a parse: the action, and the peer it leaves. *)

NewPeer == [choking |-> TRUE, interested |-> FALSE, bits |-> {}]
Result(peer, action) == [peer |-> peer, action |-> action]
None == [type |-> "None"]
Error == [type |-> "Error"]
Panic == [type |-> "Panic"]

\* Faulty ParseChoke, for the mutant runs.
ParseChokeTwice(peer, on) == Result([peer EXCEPT !.choking = on], [type |-> "ChokingChange"])

ParseChoke(peer, on) ==
    Result([peer EXCEPT !.choking = on],
           IF peer.choking = on THEN None ELSE [type |-> "ChokingChange"])

ParseInterested(peer, on) ==
    Result([peer EXCEPT !.interested = on],
           IF peer.interested = on THEN None ELSE [type |-> "InterestedChange"])

ParseHave(peer, i) ==
    IF i >= NPieces THEN Result(peer, Error)
    ELSE Result([peer EXCEPT !.bits = @ \cup {i}],
                IF i \in peer.bits THEN None ELSE [type |-> "Have", piece |-> i])

SpareBits == (ByteBits - (NPieces % ByteBits)) % ByteBits

\* create_bitfield: the last byte without its spare bits.
CreateBitfield(bytes) ==
    LET len == Len(bytes) * ByteBits - SpareBits
    IN  [len |-> len,
         set |-> {i \in 0..len - 1 :
                     (bytes[i \div ByteBits + 1] \div Power[ByteBits - 1 - (i % ByteBits)]) % 2 = 1}]

\* An action whether or not the bitfield says anything new.
ParseBitfield(peer, bytes) ==
    IF bytes = <<>> \/ CreateBitfield(bytes).len # NPieces
    THEN Result(peer, Error)
    ELSE LET bits == peer.bits \cup CreateBitfield(bytes).set
         IN  Result([peer EXCEPT !.bits = bits], [type |-> "Bitfield", bits |-> bits])

\* The u32 at byte `at` (from 0) of a message; indexing past its end panics.
Field(msg, at) == ReadU32(SubSeq(msg, at + 1, at + 4))
Block(msg) == [index |-> Field(msg, 5), begin |-> Field(msg, 9), length |-> Field(msg, 13)]

\* The queue of requests is emptied as soon as it holds one (QUEUE_LENGTH).
ParseRequest(peer, msg) ==
    Result(peer, IF Len(msg) < 17 THEN Panic ELSE [type |-> "Request", block |-> Block(msg)])

\* Faulty ParsePiece, for the mutant runs.
ParsePieceToTheEnd(peer, msg, len) ==
    Result(peer, IF Len(msg) < 13 THEN Panic
                 ELSE [type |-> "Write", index |-> Field(msg, 5), begin |-> Field(msg, 9),
                       data |-> SubSeq(msg, 14, Len(msg))])

ParsePiece(peer, msg, len) ==
    Result(peer, IF len < 13 \/ Len(msg) < 13 THEN Panic
                 ELSE [type |-> "Write", index |-> Field(msg, 5), begin |-> Field(msg, 9),
                       data |-> SubSeq(msg, 14, len)])

\* The queue is empty, so what is cancelled is never in it.
ParseCancel(peer, msg) == Result(peer, IF Len(msg) < 17 THEN Panic ELSE Error)

\* A message that says it is longer than what was read; the text of the error adds
\* four to that length, a u32.
TooShort(peer, len) ==
    Result(peer, IF OverflowChecks /\ len + 4 \notin U32s THEN Panic ELSE Error)

\* parse_message of the bytes one read() returned: the first message, whatever
\* follows it.
ParseMessage(peer, msg) ==
    IF msg = <<>> THEN Result(peer, [type |-> "EOF"])
    ELSE IF Len(msg) < 4 THEN Result(peer, Error)
    ELSE LET len == ReadU32(SubSeq(msg, 1, 4))
         IN  IF len = 0 THEN Result(peer, None)
             ELSE IF Len(msg) < 4 + len THEN TooShort(peer, len)
             ELSE CASE msg[5] \in {0, 1} -> ParseChoke(peer, msg[5] = 0)
                    [] msg[5] \in {2, 3} -> ParseInterested(peer, msg[5] = 2)
                    [] msg[5] = 4 -> IF Len(msg) < 9 THEN Result(peer, Panic)
                                     ELSE ParseHave(peer, Field(msg, 5))
                    [] msg[5] = 5 -> ParseBitfield(peer, SubSeq(msg, 6, 4 + len))
                    [] msg[5] = 6 -> ParseRequest(peer, msg)
                    [] msg[5] = 7 -> ParsePiece(peer, msg, len + 4)
                    [] msg[5] = 8 -> ParseCancel(peer, msg)
                    [] msg[5] = 9 -> Result(peer, Panic)
                    [] OTHER -> Result(peer, Error)

\* parse_handshake of a whole buffer of HSLEN bytes.
HandshakeValid(buf) == buf[1] = Len(Pstr) /\ SubSeq(buf, 2, 1 + Len(Pstr)) = Pstr
HandshakeHash(buf) == SubSeq(buf, HSLEN - 2 * HashLen + 1, HSLEN - HashLen)
HandshakeId(buf) == SubSeq(buf, HSLEN - HashLen + 1, HSLEN)

----------------------------------------------------------------------------

VARIABLES
    pc,      \* the reading thread: "handshake", "messages" or "ended"
    peer,    \* the Peer it keeps
    id,      \* the peer id it took from the handshake
    action,  \* the outcome of the last read
    pipe,    \* the bytes sent and not read
    said,    \* the sender's own state, as it has announced it
    sends,   \* messages sent so far
    unread,  \* history: the messages whose bytes are in the pipe
    framed   \* history: "exact" while each read took one message whole, "joined"
             \* when one took several, "split" when one cut a message in two

vars == <<pc, peer, id, action, pipe, said, sends, unread, framed>>

SenderId == <<5, 3>>
Hash == <<2, 1>>

Init ==
    /\ pc = "handshake" /\ peer = NewPeer /\ id = <<0, 0>> /\ action = None
    /\ pipe = Handshake(SenderId, Hash)
    /\ said = NewPeer /\ sends = 0 /\ unread = <<>> /\ framed = "exact"

\* What the sender has said of itself after one message more.
Says(told, m) ==
    CASE m.type = "Choke"      -> [told EXCEPT !.choking = m.on]
      [] m.type = "Interested" -> [told EXCEPT !.interested = m.on]
      [] m.type = "Have"       -> [told EXCEPT !.bits = @ \cup {m.piece}]
      [] m.type = "Bitfield"   -> [told EXCEPT !.bits = @ \cup m.bits]
      [] OTHER -> told

\* The peer writes one message to its socket.
Send(m) ==
    /\ sends < MaxSends /\ Len(unread) < MaxUnread
    /\ sends' = sends + 1
    /\ pipe' = pipe \o Encode(m)
    /\ said' = Says(said, m)
    /\ unread' = IF framed = "split" THEN unread ELSE Append(unread, m)
    /\ UNCHANGED <<pc, peer, id, action, framed>>

\* handle_client reads up to HSLEN bytes into a zeroed buffer and parses all of
\* the buffer, however much was read.
ReadHandshake ==
    /\ pc = "handshake"
    /\ \E n \in 1..Min({HSLEN, Len(pipe)}) :
           LET buf == [k \in 1..HSLEN |-> IF k <= n THEN pipe[k] ELSE 0]
           IN  /\ pipe' = SubSeq(pipe, n + 1, Len(pipe))
               /\ framed' = IF n = HSLEN THEN framed ELSE "split"
               /\ unread' = IF n = HSLEN THEN unread ELSE <<>>
               /\ IF HandshakeValid(buf) /\ HandshakeHash(buf) = Hash
                  THEN pc' = "messages" /\ id' = HandshakeId(buf)
                  ELSE pc' = "ended" /\ UNCHANGED id
    /\ UNCHANGED <<peer, action, said, sends>>

\* How a read of n bytes cuts the messages in the pipe.
Cut(n) ==
    LET Prefix(k) == Len(FlattenSeq([j \in 1..k |-> Encode(unread[j])]))
    IN  IF framed = "split" \/ ~\E k \in DOMAIN unread : Prefix(k) = n
        THEN [framed |-> "split", taken |-> Len(unread)]
        ELSE LET k == CHOOSE k \in DOMAIN unread : Prefix(k) = n
             IN  [framed |-> IF k = 1 THEN framed ELSE "joined", taken |-> k]

\* The connection thread reads, and parse_message sees what the read returned.
\* A panic ends the thread; an error is logged.
Read ==
    /\ pc = "messages" /\ pipe # <<>>
    /\ \E n \in 1..Min({MsgSize, Len(pipe)}) :
           LET result == ParseMessage(peer, SubSeq(pipe, 1, n))
           IN  /\ pipe' = SubSeq(pipe, n + 1, Len(pipe))
               /\ peer' = result.peer /\ action' = result.action
               /\ pc' = IF result.action = Panic THEN "ended" ELSE pc
               /\ framed' = Cut(n).framed
               /\ unread' = SubSeq(unread, Cut(n).taken + 1, Len(unread))
    /\ UNCHANGED <<id, said, sends>>

Next == (\E m \in Payload : Send(m)) \/ ReadHandshake \/ Read

Spec == Init /\ [][Next]_vars

----------------------------------------------------------------------------

\* While each read takes one message, what the reader knows of the peer is what
\* the peer has said in the messages read (parse_choke, parse_interested,
\* parse_have and parse_bitfield against the encoders).
ViewExact ==
    pc = "messages" /\ framed = "exact" /\ unread = <<>> => peer = said

\* A read that takes several messages carries out the first and loses the rest,
\* but never takes for announced what was not: not a piece, not an id, not the
\* data of a block.
NothingInvented ==
    pc = "messages" /\ framed # "split" =>
        /\ id = SenderId
        /\ peer.bits \subseteq said.bits
        /\ action.type = "Write" =>
               \E m \in Payload : /\ m.type = "Piece"
                                  /\ m.index = action.index /\ m.begin = action.begin
                                  /\ m.data = action.data
        /\ action.type = "Request" =>
               \E m \in Payload : /\ m.type = "Request"
                                  /\ m.index = action.block.index
                                  /\ m.begin = action.block.begin
                                  /\ m.length = action.block.length

\* The Peer after an action the controller is told of.
Applied(before, act) ==
    CASE act.type = "ChokingChange"    -> [before EXCEPT !.choking = ~@]
      [] act.type = "InterestedChange" -> [before EXCEPT !.interested = ~@]
      [] act.type = "Have"             -> [before EXCEPT !.bits = @ \cup {act.piece}]
      [] act.type = "Bitfield"         -> [before EXCEPT !.bits = act.bits]
      [] OTHER -> before

\* The action of a read tells the whole change of the Peer and no more: one that
\* follows the actions from the start, toggling the flags as the controller does
\* (manager.rs:1303), knows the Peer, however reads cut the messages and however
\* often these repeat themselves.
ActionsTellChanges ==
    [][pc = "messages" /\ UNCHANGED sends => peer' = Applied(peer, action')]_vars
====
