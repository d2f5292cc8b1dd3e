---- MODULE Updates ----
(* The ways to the user: the messages the controller sends about torrents,    *)
(* the webserver that keeps a copy of them behind the mutex of its state, the *)
(* table of the terminal client, and the commands that go back.  One of the   *)
(* two front ends runs.                                                       *)
EXTENDS Integers, Sequences, FiniteSets, SequencesExt, FiniteSetsExt, Functions

CONSTANTS
    Hash,         \* the torrents
    MaxMessages,  \* bound: messages the front end has not taken
    MaxAdds,      \* bound: torrents added
    MaxCommands   \* bound: commands sent

ASSUME UpdatesAssumption == MaxMessages \in Nat \ {0} /\ MaxAdds \in Nat /\ MaxCommands \in Nat

VARIABLES
    front,     \* the front end: "web" or "table"
    torrents,  \* the status of each torrent, behind the torrents mutex
    finished,  \* torrents whose data is complete
    alive,     \* the controller runs
    messages,  \* InfoMsgs sent and not taken
    commands,  \* ClientMsgs sent and not taken
    busy,      \* the front end waits for a tracker in add_torrent
    crashed,   \* add_torrent panicked: the mutex of the webserver's state is
               \* poisoned, or the terminal's only thread is gone
    infos,     \* BackedTorrentState.infos
    rows,      \* the items of the table
    indexMap,  \* AsyncTableView.index_map
    panicked,  \* the table panicked
    left,      \* the adds and commands still allowed by the bounds
    listed,    \* history: torrents the last All lists, added before it
    early,     \* history: a completion was sent of a torrent not listed
    singles    \* history: completions the table took since the last All

ctlVars == <<torrents, finished, alive, messages, listed, early>>
webVars == <<infos>>
tableVars == <<rows, indexMap, panicked, singles>>
addVars == <<busy, crashed>>
vars == <<front, ctlVars, commands, addVars, webVars, tableVars, left>>

Status == {"Running", "Paused", "Complete"}
Info(h) == [hash |-> h, status |-> torrents[h]]

Init ==
    /\ front \in {"web", "table"}
    /\ torrents = <<>> /\ finished = {} /\ alive = TRUE
    /\ messages = <<>> /\ commands = <<>> /\ busy = FALSE /\ crashed = FALSE
    /\ infos = <<>> /\ rows = <<>> /\ indexMap = <<>> /\ panicked = FALSE
    /\ left = [adds |-> MaxAdds, commands |-> MaxCommands]
    /\ listed = {} /\ early = FALSE /\ singles = 0

----------------------------------------------------------------------------
(* The controller *)

HasRoom == alive /\ Len(messages) < MaxMessages

\* send_update: all the torrents, in the order the map yields them.
SendUpdate ==
    /\ HasRoom
    /\ \E order \in SetToSeqs(DOMAIN torrents) :
           messages' = Append(messages,
                         [type |-> "All", infos |-> [n \in DOMAIN order |-> Info(order[n])]])
    /\ listed' = DOMAIN torrents
    /\ UNCHANGED <<front, torrents, finished, alive, commands, addVars, webVars, tableVars, left, early>>

\* set_complete and the message that says so, with the lock held.
Completed(h) ==
    /\ torrents' = [torrents EXCEPT ![h] = "Complete"]
    /\ messages' = Append(messages, [type |-> "One", info |-> [hash |-> h, status |-> "Complete"]])
    /\ early' = (early \/ h \notin listed)

\* The last piece of h is reported to the controller; a paused torrent is not
\* set complete.
LastPiece(h) ==
    /\ HasRoom
    /\ h \in DOMAIN torrents \ finished
    /\ finished' = finished \cup {h}
    /\ IF torrents[h] = "Running" THEN Completed(h)
       ELSE UNCHANGED <<torrents, messages, early>>
    /\ UNCHANGED <<front, alive, commands, addVars, webVars, tableVars, left, listed>>

\* recv_client takes a command; one about a torrent not there is logged.
RecvClient ==
    /\ alive /\ commands # <<>>
    /\ commands' = Tail(commands)
    /\ LET c == Head(commands)
       IN  torrents' =
               IF c.hash \notin DOMAIN torrents THEN torrents
               ELSE IF c.type = "Remove"
               THEN [h \in DOMAIN torrents \ {c.hash} |-> torrents[h]]
               ELSE [torrents EXCEPT ![c.hash] =
                        IF c.type = "Pause" THEN "Paused"
                        ELSE IF @ # "Paused" THEN @
                        ELSE IF c.hash \in finished THEN "Complete" ELSE "Running"]
    /\ UNCHANGED <<front, finished, alive, messages, addVars, webVars, tableVars, left, listed, early>>

\* The controller panics, and its ends of the channels go.
Dies ==
    /\ alive' = FALSE
    /\ UNCHANGED <<front, torrents, finished, messages, listed, early, commands, addVars,
                   webVars, tableVars, left>>

----------------------------------------------------------------------------
(* The webserver: one request at a time holds the mutex of the state. *)

\* Manager::add_torrent inserts the torrent at once and then waits for trackers,
\* on the request's thread with the mutex held, or on the terminal's only thread.
Add(h) ==
    /\ ~busy /\ ~crashed /\ ~panicked /\ left.adds > 0
    /\ busy' = TRUE /\ UNCHANGED crashed
    /\ left' = [left EXCEPT !.adds = @ - 1]
    /\ torrents' = [g \in DOMAIN torrents \cup {h} |-> IF g = h THEN "Running" ELSE torrents[g]]
    /\ finished' = finished \ {h}
    /\ listed' = listed \ {h}
    /\ UNCHANGED <<front, alive, messages, early, commands, webVars, tableVars>>

\* The announce ends, answered or not.
Announced ==
    /\ busy /\ busy' = FALSE /\ UNCHANGED crashed
    /\ UNCHANGED <<front, ctlVars, commands, webVars, tableVars, left>>

\* add_torrent panics: on a file it cannot read, before the torrent is inserted, or
\* on one that names no tracker, after it.  The terminal's process ends with it.
AddPanics ==
    /\ ~crashed /\ ~panicked
    /\ \/ busy /\ UNCHANGED left
       \/ ~busy /\ left.adds > 0 /\ left' = [left EXCEPT !.adds = @ - 1]
    /\ crashed' = TRUE /\ busy' = FALSE
    /\ alive' = (alive /\ front = "web")
    /\ UNCHANGED <<front, torrents, finished, messages, listed, early, commands, webVars, tableVars>>

\* POST pause, POST resume, DELETE; a send to a dead controller is an error.
Command(type, h) ==
    /\ front = "web" /\ ~busy /\ ~crashed /\ left.commands > 0
    /\ left' = [left EXCEPT !.commands = @ - 1]
    /\ commands' = IF alive THEN Append(commands, [type |-> type, hash |-> h]) ELSE commands
    /\ UNCHANGED <<front, ctlVars, addVars, webVars, tableVars>>

AsMap(seq) == [h \in {seq[n].hash : n \in DOMAIN seq} |->
                  (CHOOSE i \in ToSet(seq) : i.hash = h).status]
Overlaid(map, info) ==
    [h \in DOMAIN map \cup {info.hash} |-> IF h = info.hash THEN info.status ELSE map[h]]

\* Faulty UpdatedBy, for the mutant runs.
UpdatedBySinglesKept(old, msgs) ==
    LET all   == SelectSeq(msgs, LAMBDA m : m.type = "All")
        batch == IF all = <<>> THEN old ELSE AsMap(Last(all).infos)
    IN  FoldLeft(LAMBDA map, m : Overlaid(map, m.info), batch,
                 SelectSeq(msgs, LAMBDA m : m.type = "One"))

\* Faulty UpdatedBy, for the mutant runs.
UpdatedByBatchAdded(old, msgs) ==
    FoldLeft(LAMBDA map, m : IF m.type = "One" THEN Overlaid(map, m.info)
                             ELSE FoldLeft(Overlaid, map, m.infos), old, msgs)

\* update_state: the last All replaces what was there, and the singles after it
\* are put on top.
UpdatedBy(old, msgs) ==
    LET alls  == {n \in DOMAIN msgs : msgs[n].type = "All"}
        last  == IF alls = {} THEN 0 ELSE Max(alls)
        batch == IF alls = {} THEN old ELSE AsMap(msgs[last].infos)
    IN  FoldLeft(LAMBDA map, m : Overlaid(map, m.info), batch,
                 SubSeq(msgs, last + 1, Len(msgs)))

\* GET: everything sent is taken first.  The dead controller's Disconnect never
\* comes out of try_iter.
Get ==
    /\ front = "web" /\ ~busy /\ ~crashed
    /\ infos' = UpdatedBy(infos, messages)
    /\ messages' = <<>>
    /\ UNCHANGED <<front, torrents, finished, alive, listed, early, commands, addVars, tableVars, left>>

----------------------------------------------------------------------------
(* The table of the terminal client. *)

Table == [rows |-> rows, index |-> indexMap, panicked |-> panicked, singles |-> singles]

\* Faulty Listed, for the mutant runs.
ListedIndexedOnce(t, seq) ==
    [t EXCEPT !.rows = seq, !.singles = 0,
              !.index = IF @ # <<>> THEN @
                        ELSE [h \in {i.hash : i \in ToSet(seq)} |->
                                 (CHOOSE n \in 1..Len(seq) : seq[n].hash = h) - 1]]

\* An All: the table holds its torrents, index_map the row of each from 0.
Listed(t, seq) ==
    [t EXCEPT !.rows = seq, !.singles = 0,
              !.index = [h \in {i.hash : i \in ToSet(seq)} |->
                            (CHOOSE n \in 1..Len(seq) : seq[n].hash = h) - 1]]

\* A completion: the row index_map names goes and those behind it move up, but
\* index_map keeps their old rows.  A torrent not in index_map is a panic.
RowRemoved(t, h) ==
    IF h \notin DOMAIN t.index THEN [t EXCEPT !.panicked = TRUE]
    ELSE [t EXCEPT !.rows = IF t.index[h] < Len(@) THEN RemoveAt(@, t.index[h] + 1) ELSE @,
                   !.index = [g \in DOMAIN @ \ {h} |-> @[g]],
                   !.singles = @ + 1]

Taken(t, m) ==
    IF t.panicked THEN t
    ELSE IF m.type = "All" THEN Listed(t, m.infos) ELSE RowRemoved(t, m.info.hash)

\* layout takes everything sent, unless the terminal's thread waits in add.
Layout ==
    /\ front = "table" /\ ~busy /\ ~crashed /\ ~panicked
    /\ LET t == FoldLeft(Taken, Table, messages)
       IN  /\ rows' = t.rows /\ indexMap' = t.index
           /\ panicked' = t.panicked /\ singles' = t.singles
    /\ messages' = <<>>
    /\ UNCHANGED <<front, torrents, finished, alive, listed, early, commands, addVars, webVars, left>>

----------------------------------------------------------------------------

ControllerNext == SendUpdate \/ (\E h \in Hash : LastPiece(h)) \/ RecvClient \/ Dies

FrontNext ==
    \/ \E h \in Hash : Add(h) \/ \E type \in {"Pause", "Resume", "Remove"} : Command(type, h)
    \/ Announced
    \/ AddPanics
    \/ Get
    \/ Layout

Next == ControllerNext \/ FrontNext

\* The timers of the controller keep calling recv_client and send_update; the
\* terminal lays itself out every second and somebody keeps asking the webserver;
\* that an announce ends is assumed of the trackers, the code has no timeout.
Fairness ==
    /\ WF_vars(SendUpdate) /\ WF_vars(RecvClient)
    /\ WF_vars(Get) /\ WF_vars(Layout) /\ WF_vars(Announced)

Spec == Init /\ [][Next]_vars /\ Fairness

----------------------------------------------------------------------------

\* The messages taken one after the other: an All replaces, a One is put on top.
InOrder(old, msgs) ==
    FoldLeft(LAMBDA map, m : IF m.type = "All" THEN AsMap(m.infos) ELSE Overlaid(map, m.info),
             old, msgs)

TheBoard == INSTANCE Board WITH posted <- InOrder(infos, messages), shown <- infos

\* The batching of update_state shows what taking the messages one by one would,
\* with no torrent of an older All and no completion an All has overtaken.
ShowsWhatWasSent == TheBoard!Spec

\* The rows with the torrents that completed taken out by name.
Without(seq, h) ==
    IF \E n \in DOMAIN seq : seq[n].hash = h
    THEN RemoveAt(seq, CHOOSE n \in DOMAIN seq : seq[n].hash = h) ELSE seq

TakenByName(seq, m) == IF m.type = "All" THEN m.infos ELSE Without(seq, m.info.hash)

RowsInOrder(old, msgs) == FoldLeft(TakenByName, old, msgs)

\* The rows index_map names are right until one has been removed (table.rs:120):
\* the first completion after an All takes out its own row, and the table panics
\* ("Expected info_hash to be in index_map", table.rs:115) only over a torrent
\* that was added, and completed, with no All in between.
IndexMapFindsRows ==
    [][/\ panicked' => early
       /\ front = "table" /\ messages # <<>> /\ messages' = <<>> /\ ~panicked' /\ singles' <= 1
             => rows' = RowsInOrder(rows, messages)]_vars

\* When the user and the peers are done, what is shown comes to be the torrents
\* as they are: no message is lost and no removed torrent stays, unless the
\* controller is gone, the table panicked or an add did.
CatchesUp ==
    <>[](alive /\ ~panicked /\ ~crashed
             => (IF front = "web" THEN infos ELSE AsMap(rows)) = torrents)
====
