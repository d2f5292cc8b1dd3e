---- MODULE Announce ----
(* Adding a torrent from its file and announcing it: Manager::add_torrent and    *)
(* query_tracker, TrackerResponse, TrackerPeer and RequestStream of tracker.rs.  *)
(* The four bytes of an address and the two of a port are one symbol each.       *)
EXTENDS Metainfo

CONSTANTS
    Files,      \* the bencoded values a .torrent file may hold
    Malformed,  \* the trackers whose address is not a URI
    AddrBytes,  \* the well-formed addresses and the bytes of each
    PortBytes,  \* the ports and the bytes of each, from port 0 on
    MaxTrackers, \* how many trackers a file names at most
    Own,        \* the port this program listens on
    Bodies      \* what a tracker may answer, by name: its bytes, and the
                \* addresses it names if the program is to understand it

VARIABLES
    file,       \* what the file holds
    stage,      \* how far add_torrent is: "reading", "announcing", "answered" or
                \* "ended", "refused" with an error, or "panicked"
    torrents,   \* the registered torrents: info hash and files
    reqs,       \* the requests of the RequestStream, in order
    polling,    \* the request whose body poll() waits for, or 0
    reply,      \* what has come from each tracker
    connected   \* the addresses connected to

vars == <<file, stage, torrents, reqs, polling, reply, connected>>

NPorts == Len(PortBytes)

----------------------------------------------------------------------------
(* TrackerPeer and TrackerResponse *)

\* from_binary: too few bytes are an error, bytes past the port are left.
PeerFromBinary(bytes) ==
    IF Len(bytes) < 2 THEN Err
    ELSE Ok([ip   |-> CHOOSE a \in DOMAIN AddrBytes : AddrBytes[a] = bytes[1],
             port |-> (CHOOSE p \in DOMAIN PortBytes : PortBytes[p] = bytes[2]) - 1])

\* Faulty PeerFrom, for the mutant runs.
PeerFromText(v) == IF "str" \in DOMAIN v THEN PeerFromBinary(v.str) ELSE Err

\* A peer given as a dictionary needs an id that is not UTF-8.
PeerFrom(v) ==
    IF "str" \in DOMAIN v THEN PeerFromBinary(v.str)
    ELSE IF "bytes" \in DOMAIN v THEN PeerFromBinary(v.bytes)
    ELSE IF "dict" \notin DOMAIN v THEN Err
    ELSE OkOf(Gathered(<<Required(v.dict, "peer id", AsHash),
                         Required(v.dict, "ip", AsString),
                         Required(v.dict, "port", AsUsize)>>),
              LAMBDA f : [id |-> f[1], ip |-> f[2][1], port |-> f[3]])

PeerTo(p) ==
    <<IF "id" \in DOMAIN p
      THEN DictOf(<< <<"peer id", <<[bytes |-> <<p.id>>]>> >>,
                     <<"ip", StrOf(<<p.ip>>)>>, <<"port", IntOf(p.port)>> >>)
      ELSE [str |-> <<AddrBytes[p.ip], PortBytes[(p.port % NPorts) + 1]>>]>>

ResponseFrom(v) ==
    IF "dict" \notin DOMAIN v \/ "failure reason" \in DOMAIN v.dict THEN Err
    ELSE OkOf(Gathered(<<Optional(v.dict, "warning message", AsString, Err),
                         Required(v.dict, "interval", AsInt),
                         Optional(v.dict, "min interval", AsInt, Err),
                         Required(v.dict, "tracker id", AsString),
                         Required(v.dict, "complete", AsInt),
                         Required(v.dict, "incomplete", AsInt),
                         Required(v.dict, "peers", LAMBDA l : AsList(l, PeerFrom))>>),
              LAMBDA f : [warning |-> f[1], interval |-> f[2], minInterval |-> f[3],
                          trackerId |-> f[4], complete |-> f[5], incomplete |-> f[6],
                          peers |-> f[7]])

ResponseTo(r) ==
    DictOf(<< <<"warning message", MapOpt(r.warning, StrOf)>>,
              <<"interval", IntOf(r.interval)>>,
              <<"min interval", MapOpt(r.minInterval, IntOf)>>,
              <<"tracker id", StrOf(r.trackerId)>>,
              <<"complete", IntOf(r.complete)>>,
              <<"incomplete", IntOf(r.incomplete)>>,
              <<"peers", ListOf(r.peers, PeerTo)>> >>)

\* create_ip: the text has to be an address, the port is cut to 16 bits.
CreateIp(p) == IF p.ip \in DOMAIN AddrBytes THEN Ok([ip |-> p.ip, port |-> p.port % NPorts])
               ELSE Err

\* get_ips: the addresses of all peers in a response, or nothing.
GetIps(chunk) ==
    IfOk(IfOk(Parse(chunk), ResponseFrom),
         LAMBDA r : Gathered([n \in DOMAIN r.peers |-> CreateIp(r.peers[n])]))

----------------------------------------------------------------------------
(* The trackers and the network between.  A request fails as a whole, or gets   *)
(* its header and then a body: nothing, all of it in a chunk, or a first chunk. *)

NoReply == [is |-> "none"]
Header == [is |-> "header"]
Failed == [is |-> "failed"]
Empty == [is |-> "empty"]
Chunk(name, whole) == [is |-> "chunk", name |-> name, whole |-> whole]
Chunks == {Chunk(name, whole) : name \in DOMAIN Bodies, whole \in BOOLEAN}
BytesOf(c) == LET b == Bodies[c.name].bytes
              IN  IF c.whole THEN b ELSE SubSeq(b, 1, Len(b) \div 2)

\* What get_ips makes of each chunk, and MetaInfo::read of each file.
IpsOf == [c \in Chunks |-> GetIps(BytesOf(c))]
MetaOf == [f \in Files |-> ReadMeta(Encode(f))]

Places == 1..MaxTrackers
Asked == ToSet(reqs)

Init ==
    /\ file \in Files
    /\ stage = "reading" /\ torrents = {} /\ reqs = <<>> /\ polling = 0
    /\ reply = [n \in Places |-> NoReply]
    /\ connected = {}

Answer(n) ==
    /\ n \in Asked /\ reply[n] = NoReply
    /\ \E a \in {Header, Failed} : reply' = [reply EXCEPT ![n] = a]
    /\ UNCHANGED <<file, stage, torrents, reqs, polling, connected>>

Body(n) ==
    /\ n \in Asked /\ reply[n] = Header
    /\ \E a \in Chunks \cup {Empty, Failed} : reply' = [reply EXCEPT ![n] = a]
    /\ UNCHANGED <<file, stage, torrents, reqs, polling, connected>>

----------------------------------------------------------------------------
(* add_torrent *)

Stops(why) ==
    stage' = why /\ UNCHANGED <<file, torrents, reqs, polling, reply, connected>>

\* TorrentRuntime::new or create_files fails: nothing is registered.
ReadFails ==
    /\ stage = "reading"
    /\ LET r == MetaOf[file]
       IN  IF r = Panic THEN Stops("panicked") ELSE Stops("refused")

Registered(m) == {[hash |-> InfoHash(m), files |-> BTFiles(m.info.fileInfo)]}

\* get_peers: one request for each tracker, if all their addresses are URIs.
GetPeers(urls) ==
    IF \E n \in DOMAIN urls : urls[n][1] \in Malformed THEN Err
    ELSE Ok([n \in DOMAIN urls |-> n])

\* insert_torrent comes before trackers() and get_peers, which may fail.
AddTorrent ==
    /\ stage = "reading"
    /\ LET r    == MetaOf[file]
           urls == Trackers(r.ok)
           asks == IF IsOk(urls) THEN GetPeers(urls.ok) ELSE urls
       IN  /\ IsOk(r)
           /\ torrents' = Registered(r.ok)
           /\ stage' = CASE IsOk(asks) -> "announcing" [] asks = Panic -> "panicked"
                         [] OTHER -> "refused"
           /\ reqs' = IF IsOk(asks) THEN asks.ok ELSE <<>>
    /\ UNCHANGED <<file, polling, reply, connected>>

----------------------------------------------------------------------------
(* RequestStream::poll, zip and for_each of query_tracker *)

Replied == {n \in DOMAIN reqs : reply[reqs[n]] # NoReply}

\* poll finds the first request that is done.  One that failed ends the announce.
PollRequests ==
    /\ stage \in {"announcing", "answered"} /\ polling = 0 /\ Replied # {}
    /\ polling' = Min(Replied)
    /\ UNCHANGED <<file, stage, torrents, reqs, reply, connected>>

\* The item is there and zip has no second partner, or no request is left.
EndOfStream ==
    /\ stage \in {"announcing", "answered"} /\ polling = 0
    /\ reqs = <<>> \/ (stage = "answered" /\ Replied = {})
    /\ Stops("ended")

\* Faulty Others, for the mutant runs.
OthersAndSelf(ips) == ToSet(ips)
\* The address with the own port is passed over.
Others(ips) == {a \in ToSet(ips) : a.port # Own}

\* Only one item finds a partner in the zip.
AfterItem == IF stage = "announcing" THEN "answered" ELSE "ended"

\* Faulty AfterError, for the mutant runs.
AfterErrorPolledAgain == stage
\* An error ends the announce, whatever the other requests do.
AfterError == "ended"

\* poll spins until the body is there, takes its first chunk for all of it, and
\* passes an error on; without a chunk the task panics.  Either ends the announce.
PollBody ==
    /\ polling # 0
    /\ LET c == reply[reqs[polling]]
           r == IF c.is = "chunk" THEN IpsOf[c] ELSE Err
       IN  /\ c # Header
           /\ IF IsOk(r)
              THEN /\ stage' = AfterItem
                   /\ reqs' = RemoveAt(reqs, polling)
                   /\ connected' = IF stage = "announcing" THEN Others(r.ok) ELSE connected
              ELSE stage' = AfterError /\ UNCHANGED <<reqs, connected>>
    /\ polling' = 0
    /\ UNCHANGED <<file, torrents, reply>>

Settled == stage \in {"ended", "refused", "panicked"} /\ UNCHANGED vars

Next ==
    \/ AddTorrent \/ ReadFails \/ PollRequests \/ PollBody \/ EndOfStream \/ Settled
    \/ \E n \in Places : Answer(n) \/ Body(n)

\* The task is polled; every tracker answers or its connection fails.
Fairness ==
    /\ WF_vars(PollRequests) /\ WF_vars(PollBody) /\ WF_vars(EndOfStream)
    /\ \A n \in Places : WF_vars(Answer(n)) /\ WF_vars(Body(n))

Spec == Init /\ [][Next]_vars /\ Fairness

----------------------------------------------------------------------------
(* Properties *)

InfoKeys == {"piece length", "pieces", "private", "name", "length", "md5sum", "files"}
FileKeys == {"length", "md5sum", "path"}
OnlyKnownKeys(info) ==
    /\ DOMAIN info \subseteq InfoKeys
    /\ "files" \in DOMAIN info =>
           \A n \in DOMAIN info["files"].list :
               DOMAIN info["files"].list[n].dict \subseteq FileKeys

\* The info hash a torrent is registered under is that of the info dictionary in
\* the file, although it is taken of the fields read from it, encoded again; it
\* can differ only when the file's info has keys the program does not know.
HashIsOfFile ==
    \A t \in torrents : OnlyKnownKeys(file.dict["info"].dict) => t.hash = Encode(file.dict["info"])

\* What MetaInfo::write writes is the torrent that was read: its hash, its files
\* with their sums, its pieces and the trackers it is announced to, whatever keys
\* the file had or lacked and however its trackers were listed.
WrittenIsTheTorrent ==
    stage = "reading" /\ IsOk(MetaOf[file]) =>
        LET m == MetaOf[file].ok
            w == ReadMeta(WriteMeta(m))
        IN  /\ IsOk(w)
            /\ w.ok.info = m.info /\ InfoHash(w.ok) = InfoHash(m)
            /\ Trackers(w.ok) = Trackers(m)

\* A creation date is read as the number in the file, if it fits or the build
\* checks for overflow; the comparison of parse_i64, which goes the wrong way,
\* refuses only numbers with all the digits of the largest one.
DateIsTheFiles ==
    stage = "reading" /\ "creation date" \in DOMAIN file.dict =>
        LET n == file.dict["creation date"].int
            r == Parse(Encode(file))
        IN  /\ IsOk(r) /\ (OverflowChecks \/ n \in -MaxInt..MaxInt)
                   => r.ok.dict["creation date"].int = n
            /\ r = Panic => n \notin {MaxInt, -MaxInt} /\ Len(Show(Max({n, -n}))) >= Len(MaxDigits)

\* However many trackers answer, and in whatever order, the program connects to
\* the peers of one whole answer, all of them but itself.
ConnectsToOneAnswer ==
    connected # {} =>
        \E n \in Places : /\ reply[n].is = "chunk" /\ reply[n].whole
                          /\ connected = {a \in Bodies[reply[n].name].names : a.port # Own}

\* An announce that ends without a connection had no tracker to ask, or one that
\* failed, was cut short or named nobody else.
AnnounceFindsPeers ==
    stage = "ended" /\ connected = {} =>
        \/ Trackers(MetaOf[file].ok) = Ok(<<>>)
        \/ \E n \in Places :
              \/ reply[n] \in {Failed, Empty}
              \/ /\ reply[n].is = "chunk"
                 /\ reply[n].whole => Bodies[reply[n].name].names \subseteq
                                       {a \in Bodies[reply[n].name].names : a.port = Own}

\* An announce ends: add_torrent runs it on the caller's thread and does not
\* return before.
AnnounceEnds == stage = "announcing" ~> stage = "ended"
====
