# A verification project for rust-bittorrent-client

TLA+ modules that model the download engine of this repository, the TLC
configurations that check them on small instances, and theorems about them that
TLAPS checks for every instance. File names below are relative to
`src/bittorrent/` unless they say otherwise; line numbers are those of the
source these modules were written from.

## 1. Inventory: the system and its parts

The program is a BitTorrent client: a library (`lib.rs`, `bittorrent/`) with two
front ends, a webserver and a terminal client. It runs on threads that share one
mutex and talk over unbounded channels:

```
  client thread --add_torrent--> [ announce loop ] --connect--+
       |  ^                                                    |  register_peer
       |  | InfoMsg                                            v  (npeers, NewPeerMsg)
       |  |         listener thread ------connect--------> Connection thread (one per peer)
       v  |                                                |  ^   PeerUpdate |  ^ ManagerUpdate
   Controller thread <------ NewPeerMsg ------------------+  |              v  |
     (timers, 1 s and 5 s) <---------------------------------+--------- Controller
       all of them: Mutex<HashMap<Hash, TorrentRuntime>>, AtomicUsize npeers
```

| Component | State | Operations | Hard part | What makes it correct |
|---|---|---|---|---|
| PieceQueue, TorrentRuntime (`torrent_runtime.rs`) | pieces by rarity in two tiers, requests in flight, pieces had, status | `update_priority`, `select_piece`, `write_block`, `pause`, `set_complete` | called in any order by many threads, one at a time; expiry of requests | the tiers agree; a piece in flight at most once; the limit; complete means complete |
| Manager (`manager.rs`) | the shared map, the channel to the controller | `add_torrent`, `add_completed_torrent`, `handle` | replaces a torrent that is there; blocks while it announces | |
| ConnectionHandler (`manager.rs`) | none of its own | `connect`, `handle_client`, `register_peer` | check of the peer count, handshake and increment are apart; two locks | the peer limit; a matched torrent is still there |
| Connection (`manager.rs`, `peer.rs`) | the Peer: flags and bitfield of the remote side | `receive`, `handle_read`, `handle_manager_update` | state read under the lock, told outside it; thread ends at many points | what it tells the controller is what it knows |
| Controller (`manager.rs`, `timers.rs`) | three maps by peer id; six timers | `recv_client`, `try_recv_new_peer`, `send_update`, `check_messages`, `choke`, `make_requests` | works on copies that are late; panics on any lookup that fails | the maps agree; every lookup succeeds; requests can be served; slots are kept |
| Channels (`manager.rs`) | a queue per direction | `send`, `recv`, `try_iter` | a send fails when the other end is gone | |
| Torrent storage (`torrent.rs`) | files, bitfield, markers of partial pieces | `map_files`, `write_block_raw`, `read_block_raw`, `insert_piece`, `create_files`, `verify_files` | pieces across files, overlapping blocks, a write that fails half way, files created again under a torrent in use | what is marked is what was received; what is marked reads back |
| Metainfo, bencoding, `utils.rs`, `mod.rs` | none | parsing and writing | keys lost on the way, `unwrap`s, the largest integers | the info hash is the file's; what is written is read again; numbers are the file's |
| Peer wire format (`peer.rs`) | the Peer behind it | `parse_message`, encoders, handshake | one `read` is taken for one message | what the reader believes is what was sent |
| Tracker (`tracker.rs`) | pending HTTP requests | `get_peers`, `RequestStream::poll` | a response that fails, is slow or comes in parts | peers of one good response are connected to; the announce ends |
| Webserver (`src/bin/webserver`) | last known infos | `update_state`, REST calls | merge of full and single updates | newest news win |
| Terminal client (`src/bin/client`) | table rows, map from hash to row | `layout` | indexes shift as rows go; completions of torrents not yet listed | the row that goes is that of the torrent that completed |

`PROJECT.json` lists these with what is modelled of each, and the hazards at
the line where each bites.

## 2. The modules

| Module | Models | Lines it stands for |
|---|---|---|
| `TorrentOps` | `PieceQueue` and `TorrentRuntime` as operators on a value | `torrent_runtime.rs` 23-350, `torrent.rs` 137-167 |
| `TorrentRuntime` | one torrent behind the mutex, called in any order | its callers in `manager.rs` |
| `PieceLifecycle` | what a torrent promises of each piece: abstract specification of `TorrentRuntime` | |
| `TorrentOpsProofs` | lemmas on the operators of `TorrentOps`, one per call | |
| `TorrentRuntimeProofs` | theorems about `TorrentRuntime`, and that it implements `PieceLifecycle` | |
| `FoldLemmas` | lemmas on counting and on folds, for the proofs about storage, bytes and batches | |
| `Storage` | one torrent's files, bitfield and markers, with failing writes and `add_torrent` again | `torrent.rs` 47-418; `metainfo.rs` 359-386; `manager.rs` 452-487 |
| `StorageProofs` | theorems about the markers of `Storage` and what is on disk | |
| `SwarmState` | what the threads share and keep; mutex and channels | `manager.rs` 81-135, 203-306, 382-421; `peer.rs` 97-108 |
| `ConnectionHandler` | `Manager::add_torrent` and `ConnectionHandler::connect`, on two threads | `manager.rs` 440-596, 844-1003 |
| `Connection` | the thread of one peer | `manager.rs` 599-842; `peer.rs` 110-297 |
| `Controller` | the controller's timers | `manager.rs` 1006-1361; `timers.rs` |
| `Swarm` | all of them together, with the properties | |
| `SwarmProofs` | theorems about `Swarm`: who is registered, and how many | |
| `SwarmViewProofs` | theorems about what the controller believes of its peers, its upload slots, the torrents the threads share and the types of `Swarm` | |
| `PeerWire` | the bytes between a peer and the connection that reads them | `peer.rs` 34-399; `manager.rs` 674-892 |
| `PeerWireProofs` | theorems about `PeerWire`: what is encoded is what is parsed | |
| `Board` | what a front end promises: abstract specification of the webserver's copy | |
| `Updates` | controller, webserver and terminal client over the `InfoMsg` and `ClientMsg` channels | `torrent_state.rs`; `table.rs`; `main.rs`; `client.rs`; parts of `manager.rs` |
| `UpdatesProofs` | theorems about `Updates`: it implements `Board`, and the table finds its rows | |
| `Bencode` | `BencodeT`, `encode`, `parse`, `parse_i64` and the conversions | `bedecoder.rs`, `bencoder.rs`, `utils.rs`, `mod.rs` |
| `Metainfo` | a torrent file read into `MetaInfo`, its info hash and trackers, and written | `metainfo.rs` |
| `Announce` | `add_torrent` from the file to the connections: registration, requests, `RequestStream::poll` | `tracker.rs`; `manager.rs` 456-545 |
| `MCTorrentRuntime`, `MCSwarm`, `MCStorage`, `MCPeerWire`, `MCUpdates`, `MCAnnounce` | the instances TLC checks; symmetry | |

`TorrentRuntime` and `Swarm` use the same `TorrentOps`, so what is proved about a
torrent in `TorrentRuntime` is about the operators every thread of `Swarm` calls:
each step of `Swarm` on one torrent is one of the calls of `TorrentRuntime`.

`Announce` extends `Metainfo`, which extends `Bencode`. The other modules meet by
what they take from each other: `Connection` takes from `PeerWire` that a message
read whole yields its `Action`; `ConnectionHandler` takes from `Announce` that an
announce yields addresses and ends; `TorrentOps` takes from `Storage` that a
write succeeds and sets the bit, or fails and does not; `Updates` takes from
`TorrentRuntime` when a torrent completes.

### How state and actions correspond to the code

*Torrent.* `torrent.pq.zeros` and `.queue` are the fields of `PieceQueue`
(priorities are minus the number of peers, as in the code), `.outstanding` the
`VecDeque<Request>`, oldest first, with the age of a request in ticks instead of
its `Instant`; `.have` is the bitfield and `.status` the status. `PriorityQueue`
leaves the order of equal priorities open, and so do `Peeks` and `Pops`.

*The mutex.* A section that holds `torrents` is one step, enabled when the lock
is free. The exception is `make_requests`, which holds it over many sends: there
the lock is held while `ctl = "requesting"`, and connections go on with whatever
needs no lock. A panic while the lock is held sets `poisoned`, and every later
`lock().expect(...)` ends its thread (`LockFails`, `LockOrEnd`,
`ConnectorDies`). `crashed` records the calls that panicked.

*Channels.* `up[k]` and `down[k]` are the two queues of connection `k`. A send
is lost, and fails, once the receiver is dropped: the controller's when it
removes or replaces the peer or ends, the connection's when its thread ends.
Messages sent before that stay.

*Connectors.* The listener and the thread inside `add_torrent` go through
`do_connect` in the steps the code can be interleaved at: check the count, read
the handshake (which may panic: `parse_handshake`, `peer_addr`) and match it under
the lock, look the torrent up under the lock again, increment the count, register
and spawn.

*Connection.* One action per `Action` of `handle_read`, each with the lock, the
panics in `update_priority` and in `map_files` (`PanicLocked`), the early return for
a removed torrent and the message to the controller. `TakeManagerUpdate` is `handle_manager_update`.

*Controller.* `ctl` is the place in the list of timers. `recv_client` and
`try_recv_new_peer` take their queues one message per step, so senders run in
between; `check_messages` takes every queue in one step and then processes one
message per step, the peers in any order; `make_requests` asks for one piece per
step. `choke` and `make_requests` run every `Period` ticks.

*Storage.* A byte is the offset it belongs at, or a zero, so "reads back" is an
equality of sequences and a hash is the equality of the data. `WriteBlockRaw`
may stop between two files, as `?` on any of the file operations does.
`AddAgain`, `CreateFile` and `InsertTorrent` are the three parts of `add_torrent`
for a torrent that is there; only the last holds the mutex. `write_block`
looks at the hash of a piece and not at the offset its message gives, so
`WriteBlock` takes any: the piece is written over what is there, or ends behind the
torrent and panics in `map_files`, the mutex held (`poisoned`). `received`,
`overwritten` and `emptied` are history: the offsets of each piece written, those
a piece out of place was written over and not written right since, and those of
files created under a torrent that is not replaced yet.

*PeerWire.* Messages are bytes of a small base, with the code's framing: length,
kind, fields. A read takes any number of the bytes that wait, up to the buffer,
and `ParseMessage` sees those alone; an index past them is a panic where the code
slices. `framed` is history: whether reads and messages have coincided so far.

*Updates.* `messages` is the channel of `InfoMsg`. The webserver's state mutex is
`busy` while `add` waits for trackers under it, the same in the terminal client,
which has one thread. `AddPanics` is a panic of `add_torrent`, while the file is read
or, when it names no tracker, after the torrent was inserted: the webserver's mutex is
poisoned (`crashed`) and every later request panics at it, and the terminal's process
ends. `Get` is any GET: `update_state` and then the copy. `Layout`
is the table's `layout` with its `index_map`, whose rows start from 0.

*Announce.* `reqs` is the vector of `RequestStream`, `polling` the request whose
body its inner loop waits for. A reply is a header and then a body: nothing, a
first chunk, or all of it. The combinators of the code (`zip` with one info,
`for_each`) are the stages `announcing`, `answered` and `ended`.

*Bencode.* A string of bytes is a sequence of symbols: digits, punctuation, and a
whole word for bytes whose parts never matter. `MaxDigits` stands for the digits
of `i64::MAX`, and integers wrap or panic as the build says.

### Abstractions

- A message that does not parse, a keep-alive, a cancel (`QUEUE_LENGTH` is 1, so
  the queue is always empty) and a repeated choke, interest or have change
  nothing and are stutters. Piece indexes lie inside the torrent and bitfields
  have its length: `PeerWire` has the bytes, and the panics on ranges outside.
- What is written to sockets is not kept: the requests sent show as `down`
  messages, and peers answer with whatever they like, asked or not.
- `receive` alternates a read with one manager update; the model lets the two
  come in any order, which includes that alternation. A read error other than
  `WouldBlock` is logged and read again, as in the code.
- A block is `whole` (offset 0, full length) or not, and `valid` (its hash is
  the piece's and the files take it) or not. One that is valid and not whole is a
  piece at another offset; where that ends behind the torrent is a panic. Every torrent has `NPieces` pieces.
- Nothing sends `DownloadSpeed`, so download speeds are 0 and the order of peers
  in `choke` is by interest alone.
- `send_update` changes no state but the client's queue, which is not kept;
  `InfoMsg::One` is counted per torrent in `completions`.
- The announce yields addresses (`Connect(Caller)`) and ends (`EndAnnounce`) at
  any time; the code's tokio runtime runs one announce at a time on behalf of the
  thread that waits for it, and a panic in it counts as that thread's end.
- The `Manager` outlives the controller, so the channel of new peers is never
  disconnected.
- `remove_request` compares whole pieces; `Dropped` says it once for the piece
  index of a whole block, and takes out one request where the code filters:
  `RequestedOnce`, proved, says that there is no second.

## 3. What the runs check

| Run | Instance | Distinct states | Shows |
|---|---|---|---|
| `torrent_runtime` | 3 pieces, MaxPeers 2, limit 2, timeout 2 | 16 thousand | all properties of one torrent, and that it implements `PieceLifecycle` |
| `swarm_members` | 1 torrent, 2 ids, 3 connections, 1 slot, no messages | 0.9 million | `KeysAgree`, `ProcessLooksUp`, `PeerCountBound`, `CountCoversPeers`, `UploadSlots` |
| `swarm_views` | 1 connection, 2 messages, 2 commands | 3.9 million | types; the controller's view is exact up to messages under way; `CompletedOnce`, `LookupsSucceed` |
| `swarm_requests` | 1 id, 2 connections, 2 messages, until no request can be sent any more | 1.8 million | `RequestsServable` |
| `swarm_liveness` | 1 id, 2 connections, 1 command, fairness | 0.3 million | the three liveness properties |
| `storage` | pieces of 3 bytes, torrents of 2 and 4 bytes in 1 or 2 files | 32 thousand | markers, bits and disk agree: `MarkersOrdered`, `HaveBlockExact`, `ReadsBack`, `FinishedIsOnDisk` |
| `peer_wire` | 5 pieces, 3 messages, reads of any size | 0.3 million | `ViewExact`, `NothingInvented`, `ActionsTellChanges` |
| `updates` | 2 torrents, 2 adds, 2 commands, 3 messages waiting | 0.9 million | the webserver's copy implements `Board`; the table; `CatchesUp` |
| `announce` | 24 torrent files, 8 bodies, 2 trackers | 3 thousand | `HashIsOfFile`, `WrittenIsTheTorrent`, `DateIsTheFiles`, `ConnectsToOneAnswer`, `AnnounceFindsPeers`, `AnnounceEnds` |

The properties are stated, each with the code behaviour it is about, at the end
of `TorrentRuntime`, `Swarm`, `Storage`, `PeerWire`, `Updates` and `Announce`.

### Refinements

- `TorrentRuntime` implements `PieceLifecycle` (`PieceByPiece`): a piece is where
  the queue and the requests say it is. What the abstract specification adds to
  the invariants is the order of stages: from the queue to the requests to
  nowhere, one piece per call. It also says what is *not* promised, since a piece
  may be out and not on disk.
- The webserver in `Updates` implements `Board` (`ShowsWhatWasSent`): `posted` is
  what the messages not yet taken would make of the copy, one after the other,
  and `shown` the copy. The code does not take them one after the other, it
  collects a batch and the singles after it: that both come to the same is what
  the refinement shows.

### Bounds, and why they are enough

- `Conn` bounds the connections ever set up, `MaxReads` what the peers send in all,
  `MaxAdds` and `MaxCommands` what the client does. The hazards are races of two
  actors over one torrent or one peer id, so two connections of one id (a
  reconnection) and two ids suffice to produce each; three
  connections let a slot be reused after both connectors overshot the limit.
  Where the messages of a peer matter there are two of them in all: an unchoke
  and an announcement lead to a request, an announcement and a hang-up to a
  stale view. In `swarm_requests` the two come over one connection, which is then
  asked for the piece, or one over each of two that follow one another under one
  id: the second is ready to send, the first had the piece, and nobody may be
  asked. Its constraint `StillAsking` stops behind states in which the controller is
  gone, the mutex poisoned or the torrent complete: no request is sent from there on,
  and what a connection's peer has announced only grows. In `swarm_members` two
  peers compete for one slot while either comes, goes and comes back; which of them
  `choke` favours is left open there, since it is interest that decides and nobody
  says anything. Every torrent of the swarm has one piece, since nothing there
  relates two pieces; `torrent_runtime` has three.
- `MaxDown` bounds the messages waiting on a connection. It only delays the
  controller, which a slow connection never does in the code; the orders lost
  are those with a longer backlog.
- `SlotLeft` keeps a connection name for each connector under way.
- `MaxPeers` is 0 or 1, so that the limit is reached; the code lets one more in
  than `MAX_PEERS`. It is 0 only in `swarm_members` and `swarm_liveness`, where no
  peer sends anything and priorities (which depend on it) stay 0.
- `Timeout` and `Period` are 1 in the swarm: a request made by one
  `make_requests` is expired at the next, as with 5 s and 5 s in the code.
- `MaxHolders` in `TorrentRuntime` is above `MaxPeers + 1`, so the counts pass
  the sentinel.
- `PieceLength` is 3 in `Storage`: three bytes let two blocks of a piece be
  apart, touch, overlap and lie within each other, and a third join them. Within
  a layout every block of every piece is written, whole pieces at every offset up
  to the end of the torrent and past it, and every prefix of the files a failing
  write reaches. The layouts have a file border between pieces, an empty file at
  the front, a last piece that is short and a torrent of one piece; the one with
  a piece in two files has a run of its own, which the finding is from.
  `MaxAdds` is 1: adding a torrent again once more starts from the same states.
- `MaxSends` and `MaxUnread` in `PeerWire` let three messages be sent and two be
  joined in a read, so one is lost between two that are not. Bytes of `ByteBits`
  4 bits and 5 pieces give a bitfield of two bytes with spare bits; one payload
  is longer than a read of `MsgSize` bytes, as a block can be than the buffer.
- `MaxMessages` 3 in `Updates` allows an All, a One after it and an All after
  that in one batch; two torrents give the table a row that shifts.
- The files of `MCAnnounce` have one variation each: single and several files,
  private, unknown keys, the forms of announce lists, the optional keys, numbers
  at and past the largest (127), and files that do not read. Bodies are good,
  naming this client itself, with a port too wide, and ill-formed in three ways;
  each may come cut in half. Two trackers give the order of answers.
- Peers and connections are symmetric in the safety runs of the swarm; no operator
  chooses among them. The runs with liveness use no symmetry.
- Deadlock is not checked where the bounds end a behaviour or the program may
  stop: a client sends nothing more and the controller has been stopped. The
  `announce` run checks it, with a step for a settled announce.

### Fairness

`FairSpec` of `Swarm` assumes weak fairness of the controller's next step (a
thread that never waits for anybody but the mutex, whose sections are short), of a
connection's start and its taking of manager updates (its loop polls the channel
every 20 ms), and of a connector past its handshake. Nothing is assumed of what
peers and the client send, nor of a handshake: its read has no timeout.

`Updates` assumes that the controller's timers keep calling `recv_client` and
`send_update`, that the terminal lays itself out (its loop does every second) and
that somebody keeps asking the webserver, and that an announce ends. The last two
are assumptions about users and trackers, not about the code: `add` waits for
trackers with the mutex held and without a timeout.

`Announce` assumes that the task is polled, as the runtime's executor does, and
that every tracker answers or its connection fails. Without the latter a tracker
that stays silent keeps `add_torrent` from returning.

### Findings

Each of these runs checks something a comment, a test or an assertion of the
source says, and TLC finds a behaviour of the code that does not keep it:

| Run | The source says | What happens |
|---|---|---|
| `swarm_priority_panic` | "Priority can't be above 0" (`torrent_runtime.rs:85`) | a choking peer that announced pieces and hangs up takes off what was never added: panic, mutex poisoned |
| `swarm_late_message` | a late message is "probably not critical" (`manager.rs:1265`) | `send(Request).unwrap()` to a connection that has ended ends the controller |
| `storage_files` | a block written reads back, `assert_eq!(p1, p1_2)` (`torrent.rs:653`) | `write_all` writes the whole piece to every file it lies in: the first runs on past its end, the next starts with the wrong bytes |

The models hold more behaviours that one would not expect, and have no run for
them. The first six are at odds with a text of the source; each is in a model, and
the properties say in so many words what it takes away:

- `valid_piece` checks the hash of a piece and not the offset its message gives
  (`metainfo.rs:374`), though `write_block` is documented as "Write block after
  verifying that hash is correct" (`torrent.rs:180`): the right data at another
  offset is written over the next piece, which is had and no longer reads back. The
  bytes are in `overwritten`; `ReadsBack` and `FinishedIsOnDisk` except those alone.
- Adding a torrent again empties its files (`manager.rs:465`) before the old one is
  replaced, which meanwhile, or for good if a file cannot be created, serves zeros:
  "Read block after verifying that we have it" (`torrent.rs:214`). The bytes are in
  `emptied`, excepted in the same way.
- An expired request is handed out again and no longer counted
  (`torrent_runtime.rs:281`), so more than REQUESTS_LIMIT, the "Max outstanding
  requests per torrent" (`lib.rs:47`), may go unanswered. No property speaks of the
  limit: that `outstanding_requests` is no longer than it is the guard itself.
- An `add` that panics, as for a file that names no tracker (`metainfo.rs:370`), holds
  the mutex of the webserver's state (`main.rs:70`). No GET is answered again
  (`main.rs:34`) though the controller goes on, so `update_state`, "Called before any
  GET request" (`torrent_state.rs:114`), is called no more. `CatchesUp` is stated for
  runs without such a panic.
- The creation date and the author of a torrent file are written under other keys
  (`metainfo.rs:450`, `:452`) than they are read from (`:421`, `:423`) and are lost;
  `test_read_write` asserts that what is written is read again as it was (`:532`).
  `WrittenIsTheTorrent` is about the info dictionary and the trackers, which are not.
- A bitfield is an `Action` whether or not it changes anything (`peer.rs:238`), and the
  controller's side counts its pieces again; the doc of `Peer` has "Actions reflect
  actual changes in state" (`peer.rs:91-92`). `ActionsTellChanges` says what does hold
  of every message, this one included.

Of the others no text says otherwise, or only a word in a log. All are listed as
hazards at their lines:

- `MAX_PEERS` is exceeded by one per connector (`manager.rs:964`); `PeerCountBound`
  gives the bound that does hold. A count of `MAX_PEERS + 1` is the sentinel
  `MIN_PRIORITY` (`torrent_runtime.rs:39`).
- A connection that takes the controller's `Disconnect` goes on (`manager.rs:690`).
- A piece announced with Have by a peer ready to send is not counted and stays
  among the zeros (`manager.rs:778`).
- A piece whose block fails its hash, and one whose request expired twice, is
  asked for by nobody any more (`torrent_runtime.rs:260`, `:281`): the stage `out`
  of `PieceLifecycle`, which is final.
- A torrent removed between the registration of its peer and the controller's
  `try_recv_new_peer` makes the controller panic (`manager.rs:1243`), and one
  removed between the two locks of `handle_client` makes the listener panic
  (`manager.rs:905`). `LookupsSucceed` covers the lookups of the controller on
  peers it already has.
- A torrent is registered before its trackers are read and asked
  (`manager.rs:466`), so `add_torrent` may report an error and the torrent is
  there. An answer that ends with an error, although another tracker
  would have answered, ends the announce (`tracker.rs:265`).
- Peers in one string, the usual compact form, are refused: the code expects a
  list of strings of six bytes.
- A request for a block that ends behind the torrent, and the last piece at
  another offset than its own, make `map_files` panic with the torrents mutex held
  (`torrent.rs:412-414`). A handshake whose protocol name is not UTF-8 ends the
  listener (`peer.rs:370`).
- After a completion the rows of the table that follow it keep their old indexes
  (`table.rs:120`), so a second completion before the next full update takes out
  the wrong row or none. `IndexMapFindsRows` states what does hold.
- Integers of 19 digits below the largest are refused when one of their digits is
  the first to differ, and some above it pass and overflow (`utils.rs:12`).

### Definitions for the mutant runs

A definition announced as `Faulty X, for the mutant runs` is `X` with a plausible bug; no
specification uses it. `PROJECT.json` names, for each checked property, the one
that has to break it.

## 4. What is proved

`TorrentRuntimeProofs` proves, for every number of pieces, peers, requests and
every timeout, the properties of `TorrentRuntime`: `TypeOK`, `TiersAgree`,
`RequestedOnce`, `OldestFirst`, `CompleteMeansAll`, the action property
`NeverReopened` (theorem `FinishedStays`), and the refinement `PieceByPiece` (theorem
`Refinement`).

The inductive invariant is `Good(torrent)`: types, the agreement of the tiers,
`Once` (each request for a piece of its own, none of them queued), `Ordered` (no
request older than one before it), and complete implies finished.
The parts need each other: `RequestedOnce` survives `select_piece` only because a
popped piece was queued and queued pieces are not in flight; `OldestFirst`
survives `remove_request` only because what is left is a subsequence (`Part`,
with a monotone map of positions), and `Append` only because a new request has
age 0. One lemma per call (`UpdateGood`, `SelectGood`, `WriteGood`, `PauseGood`,
`CompleteGood`, `AgedGood`) shows that it keeps `Good`. `NextInv` combines them. The
assumptions are those named in `TorrentOps` and `TorrentRuntime`: natural bounds,
positive where the code's constants are.

The refinement adds to this exactly what each operation does to the set of pieces
in flight (`InFlightTail`, `InFlightDropped`, `InFlightAppend`, `InFlightOlder`):
that the expired request, or the one dropped, was the only one for its piece is
where `Once` is needed again. `Moves` states a step of `PieceLifecycle` on two
torrent values; one lemma per call shows it, `NextMoves` combines them, and
`StepMapped` turns it into `[Lifecycle!Next]`.

`SwarmProofs` proves, for any sets of torrents, peer ids and connections and any
`MaxPeers`, whatever order the threads run in, five properties of `Swarm`:
`KeysAgree` (theorem `KeysCorrect`), `ProcessLooksUp` (`MessagesArePeers`),
`LookupsSucceed` (`NoLookupPanics`), `CountCoversPeers` (`CountNeverWraps`) and
`PeerCountBound` (`PeersBounded`). They hold together, as parts of the inductive
invariant `IInv`, which needs three more:

- `LastWords`: a connection's `Disconnect` is the last thing in its queue, in the
  messages taken from it too. `process` would look a peer up that a `Disconnect`
  has removed if any message came after it.
- `BatchInHand`: messages are kept only while `check_messages` goes through them,
  so that no torrent is removed between taking a message and processing it.
- `Typed`: what the variables involved hold, with the peer id a connector that is
  about to register has in hand.

`CountCoversPeers` also counts the peers in the channel and the connector between
`fetch_add` and the send, and is kept when a reconnecting peer replaces itself only
because it is an inequality. `PeerCountBound` counts the connectors past the check:
each may add one to a full swarm, so the bound is `MaxPeers` and the connectors. The
actions are first reduced to what they leave alone (the `Frame` lemmas) and to what a
connection says (`ConnectionSays`); then there is a lemma for each action, or for the
actions alike in what they change, and `ConnectorStep`, `ConnectionStep`,
`ControllerStep`, `ManagerStep` and `ClientStep` combine them. `TLC` checked `IInv` as
an invariant on the instances of `swarm_members` and `swarm_views` before it was
proved. Used of the assumptions: `PeerIdAssumption` (finitely many ids) and
`MaxPeersAssumption`.

`SwarmViewProofs` proves, on top of `IInv`, that the controller's copies are right up
to what is under way: `ChokeViewExact` (`ChokeViewCorrect`), `InterestViewExact`
(`InterestViewCorrect`), `BitfieldViewExact` (`BitfieldViewCorrect`), and from them
`RequestsServable` (`RequestsAreServable`). None is inductive alone. `ViewInv`
adds:

- `DownTyped`: every message to a connection is one of the three kinds, with a piece
  where it is a request.
- `OwnChannels`: no connection serves two peers, registered or about to be, so that a
  message moves one copy only.
- `Unused`: nothing was sent over a connection that is not made yet, nor to a peer the
  controller has not taken up, so that a new peer starts from an exact view.
- `Followed`: for each peer whose connection lives, the copy with the messages still
  waiting applied to it is the connection's own state (flags change by toggling, so it
  is their number that counts, odd or even), and for one about to be registered the
  same of the values `recv_client` will give it. Taking a message moves it from the
  queue into the copy; a change of the state sends one at once.

`RequestsServable` holds when a request is sent because the copy of the bitfield is
never ahead of the peer's own, and later because a bitfield only grows.

It also proves `UploadSlots` (`UploadSlotsBounded`), with `IInv`, `ViewInv`
and `UploadSlots` itself as the inductive invariant: whether a peer `WillUnchoke` is
the last word on choking in its queue, or what its connection last did. The lemmas
`WordAppend` and `WordTail` say what an appended word and one taken do to that.
`choke` sends every peer a word, and unchokes a set of no more than `MaxUnchoked` of
them; every other step leaves the last words or ends peers, and a new peer starts
choked. Used of the assumptions, besides those of `IInv`: `MaxUnchokedAssumption`.

And it proves `CompletedOnce` (`CompletionReportedOnce`) and `TypeOK` (`TypeCorrect`).
The invariant `TorrentsInv` carries `Good` from `TorrentRuntime` to every torrent in
the shared map, by the same lemmas on each call, and says that a torrent reported
complete is `Settled`: finished, and not running. Every call keeps it so, a pause and
a resume included, and a torrent that is so is not reported again. `RestTyped` holds
the types of what the other invariants do not mention.

`StorageProofs` proves, for any layouts of files and any piece length, whatever parts
of pieces are written in whatever order and whichever writes fail, `MarkersOrdered`
(`MarkersInOrder`) and `HaveBlockExact` (`HaveBlockCorrect`). `MarkersInv` says of
each piece with markers that they are `Ordered` and that the offsets between them
(`Covered`) are those received. `InsertIs` describes the new markers one by one,
`InsertMerges` as one stretch around the block with the old ones before and after it
(`Merged`, where those after have moved by an even number of places, so that begins
stay begins), and `MergedOrdered` and `MergedCovered` draw the two conclusions.
`OneStretch` is where stretches that do not touch matter: a block covered by two of
them would be one `have_block` denies. `PieceLengthAssumption` is the only one used.

It also proves what is on disk, of every layout that is `Aligned`: each file ends
where a piece does, or with the torrent. The finding of `storage_files` is why: a
layout that is not is written wrongly by the code. `DiskInv` (`DiskCorrect`) says that
every byte of a piece in the bitfield, and every byte received, is in its place (`On`),
unless it is `overwritten` or `emptied` (`Kept`). At first `verify_files` found the
pieces of the bitfield by reading them (`IsOnWhatReads`). The stretches of a block in
its place all begin where it does, and all but the last are empty (`PartsAre`), so a
write takes no byte out of its place however many of the files it got to
(`WritesKeep`, `ProperWrite`). A piece at another offset may lie in two files in these
layouts too; what it goes over is `Reach`, and no byte outside is touched
(`UnreachedStays`, `ShiftedWrite`). So no write and no `add_torrent` loses a byte but
those in `overwritten` and `emptied`. From `DiskInv` follow `ReadsBack`
(`ReadsBackAligned`), since what is read is what is `On` (`ReadsWhatIsOn`), and
`FinishedIsOnDisk` (`FinishedAligned`), since the lengths downloaded come to the total
only if every piece is there (`AllDownloaded`).

`PeerWireProofs` proves, for any number of pieces, any width of a byte from 4 bits on,
any messages the encoders can be given and reads of any size, `ViewExact`
(`ViewIsExact`), `NothingInvented` (`NothingIsInvented`) and `ActionsTellChanges`
(`ActionsAreChanges`). `MessageRead` is the lemma on encoders and parsers: of an encoded
message, with any bytes behind it, `ParseMessage` makes what was said, and an action only
if that changes the Peer. It rests on four bytes giving the number back (`U32Is`), on
the bits of a byte being the pieces they stand for (`BitIs`) and on the spare ones
cut off (`BitfieldIs`). The inductive invariant `WireInv` says that the bytes in the pipe
are those of the messages not read (`Chain`), until a read cuts one in two; that what
the reader knows and these messages together are what was said (`Told`), until a read
takes several; and that what they announce has been said in any case.
`ActionsTellChanges` needs none of this: `MessageTells` shows of any bytes at all that
the action `ParseMessage` makes of them tells what it does to the Peer. Used of the
assumptions: `PayloadAssumption`, that the messages sent are those the encoders can be
given, with numbers below 2^32 and pieces of this torrent.

`UpdatesProofs` proves, for any torrents and bounds, `TypeInv` (`TypesCorrect`), that the
webserver implements `Board` (`ShowsWhatWasSent`, theorem `BoardImplemented`) and
`IndexMapFindsRows` (`IndexMapCorrect`). For the first two, `BatchIsInOrder` shows that
`update_state`, which takes the last full update of a batch and the single ones after it,
leaves what taking the messages one by one would, and `InOrder` of one message more is
one step more. The table needs an invariant about the future, `TableInv`: a table that
has taken no more than one completion since the last full update has the rows of the
list (`Follows`), with an exact index as long as it has taken none; and the
table as it will be once it has taken all that waits holds every torrent that is
listed and not finished (`Serves`), so that a completion always finds its row.

The provers have no induction over an operator, but they have it over a set: that a
nonempty set of naturals has a least element (`MinIs`), or a bounded one a greatest
(`LastOne`), comes from the library's theorem on well-founded relations and is used
for the last word in a queue and for the place of a marker. `FoldLemmas` draws from
it that a set that holds 0 and with n also n + 1 holds all (`Counting`), and by that
the values of a fold exist, one after the other, for steps given as functions
(`FoldExists`, `PartialExists`): a recursive function is by definition a chosen one,
and to know anything of it is to know that one exists. All proofs about folds,
flattened messages and bits of bytes start from there.

Only model-checked:

- The liveness properties of `Swarm`, `Updates` and `Announce`: liveness under
  fairness is out of the prover's reach.
- `Bencode`, `Metainfo` and `Announce` with `HashIsOfFile`, `WrittenIsTheTorrent`,
  `DateIsTheFiles`, `ConnectsToOneAnswer` and `AnnounceFindsPeers`: the parser and
  the encoder are `RECURSIVE` operators, over which nothing can be proved here, and
  `Announce` extends them.

## 5. Not modelled

- Byte rates (`Rate`): they influence the figures shown only, as download speeds
  are never sent to the controller.
- `resume_torrent`, `MetaInfo::create` and the tracker's `scrape` (all
  `unimplemented!()` or empty), and the interval query of the tracker (commented
  out).
- The conversion of bencoded values to `u32` (no code uses it), hexadecimal
  display and error texts.
- HTTP and query strings, REST routing, JSON, drawing and key input: pure I/O.
- Builds without overflow checks: `OverflowChecks` is a constant of `Bencode` and
  `PeerWire`, and the runs take cargo's default. Wrapped, a number may come out as
  one that `parse_i64` then refuses, and is not read back.
- The order of torrents by status, which `Status::cmp` does not tell apart
  (`manager.rs:188`), is left open in `Updates`.
- Torrent files whose number of hashes does not fit their length.

## 6. Plan

Done: one torrent with its proofs and the abstract specification it implements;
the swarm of threads with the proofs of its registration of peers, the controller's
views, the upload slots and the shared torrents; storage with the proofs of its
markers and of the disk; the wire format with the proof that parsers read what
encoders write; the ways to the user with the proofs of the abstract board and of the
table; torrent files and announces.

Left:

1. `Download`: two clients over a lossy exchange, for the progress of a
   download, with `PieceLifecycle` for each side.
2. `Bencode` with the depth of a value as a bound and functions in place of the
   `RECURSIVE` operators, so that `WrittenIsTheTorrent` could be proved up to that depth.
