---- MODULE MCAnnounce ----
(* Torrent files and tracker answers for TLC. *)
EXTENDS Announce

MC_MaxDigits == <<1, 2, 7>>
MC_Binary == {"h1", "h2", "a1", "id"}
MC_KeyOrder == <<"announce", "announce-list", "comment", "complete", "created by", "created_by",
                 "creation date", "creation_date", "encoding", "failure reason", "files",
                 "incomplete", "info", "interval", "ip", "length", "md5sum", "min interval", "name",
                 "path", "peer id", "peers", "piece length", "pieces", "port", "private", "source",
                 "tracker id", "warning message">>
MC_AddrBytes == "10.0.0.1" :> "a1" @@ "10.0.0.2" :> "a2"
MC_PortBytes == <<"p0", "p1", "p2", "p3">>

Num(n) == [int |-> n]
Str(s) == [str |-> <<s>>]
List(seq) == [list |-> seq]
Dict(f) == [dict |-> f]

Pieces == "piece length" :> Num(2) @@ "pieces" :> Text(<<"h1", "h2">>) @@ "name" :> Str("n")
Single == Pieces @@ "length" :> Num(3)
Part == Dict("length" :> Num(1) @@ "path" :> List(<<Str("d"), Str("f")>>))
Multi == Pieces @@ "files" :> List(<<Part, Dict(Part.dict @@ "md5sum" :> Str("m"))>>)

\* One file or several, private or not, and an unknown key; then those that do not
\* read: pieces that are text, pieces cut off, no name.
Infos == {Single, Multi, Single @@ "private" :> Num(1) @@ "md5sum" :> Str("m"),
          Multi @@ "private" :> Num(0), Single @@ "source" :> Str("s"),
          "pieces" :> Text(<<"t">>) @@ Single, "pieces" :> Text(<<"h1", "part">>) @@ Single,
          [k \in DOMAIN Single \ {"name"} |-> Single[k]]}

Announces == {<<>>, "announce" :> Str("u1"), "announce" :> Str("bad url"),
              "announce-list" :> List(<<List(<<Str("u1"), Str("u3")>>), Str("u2")>>),
              "announce-list" :> List(<<List(<<>>)>>), "announce-list" :> List(<<>>),
              "announce-list" :> List(<<Num(1)>>)}

Extras == {<<>>, "comment" :> Str("c") @@ "encoding" :> Str("utf8") @@ "created by" :> Str("b")}
           \cup {"creation date" :> Num(n) : n \in {99, -3, 126, 127, -127, 128, -130}}

Join(f, g) == Dict(("info" :> Dict(f)) @@ g)
MC_Files ==
    {Join(i, "announce" :> Str("u1")) : i \in Infos}
    \cup {Join(Single, a) : a \in Announces}
    \cup {Join(Single, "announce" :> Str("u1") @@ o) : o \in Extras \ {<<>>}}
    \cup {Dict("comment" :> Str("c")), Dict("info" :> Num(1))}

At(ip, port) == [ip |-> ip, port |-> port]
Response(peers) == [warning |-> <<>>, interval |-> 1, minInterval |-> <<1>>,
                    trackerId |-> <<"xyz">>, complete |-> 10, incomplete |-> 10, peers |-> peers]
BodyOf(v, names) == [bytes |-> Encode(v), names |-> names]
Naming(peers) == BodyOf(ResponseTo(Response(peers)),
                        {At(peers[n].ip, peers[n].port) : n \in DOMAIN peers})
Peer1 == At("10.0.0.1", 1)
Peer2 == [id |-> "id", ip |-> "10.0.0.2", port |-> 2]
Self == At("10.0.0.1", 3)

MC_Bodies ==
    "peers" :> Naming(<<Peer1, Peer2>>)
    @@ "with self" :> Naming(<<At("10.0.0.2", 1), Self>>)
    @@ "only self" :> Naming(<<Self>>)
    @@ "wide port" :> BodyOf(ResponseTo(Response(<<[Peer2 EXCEPT !.port = 6]>>)), {At("10.0.0.2", 2)})
    @@ "failure" :> BodyOf(Dict("failure reason" :> Str("f")), {})
    @@ "bad address" :> BodyOf(ResponseTo(Response(<<[Peer2 EXCEPT !.ip = "nowhere"], Peer1>>)), {})
    @@ "no interval" :> BodyOf(Dict("peers" :> List(<<>>)), {})
    @@ "one string" :> BodyOf(Dict("peers" :> Text(<<"a1", "p1">>) @@ ResponseTo(Response(<<>>)).dict),
                              {})
====
