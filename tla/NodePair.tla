------------------------------- MODULE NodePair -------------------------------
(***************************************************************************)
(* The two PipeWire nodes of a served master: on_autodetect_timer (main.c)  *)
(* sizes reac-capture and reac-playback to the box the pacer recognized and *)
(* rebuilds the ones that are not on the graph (reac_node_recover.c), and   *)
(* the sink's on_log_timer (reac_sink_node.c) stamps the box's badge on     *)
(* both and keeps the segment's door on one of them.                        *)
(*                                                                          *)
(* Tick lets both 200 ms timers of the main loop become due; each fires     *)
(* once, in either order, before the next tick.  Between them the box on    *)
(* the wire changes what it declares, and the PipeWire server stops,        *)
(* returns, loses a node or refuses one.                                    *)
(*                                                                          *)
(* A box stands for what its frames say (widths and name): two nodes built  *)
(* for the same box need no rebuild, two for different boxes do             *)
(* (reac_node_ensure_needs_rebuild).  Its MAC and identity page differ from *)
(* every other box's.                                                       *)
(***************************************************************************)
EXTENDS Integers

CONSTANTS
    Boxes,         \* the boxes that may declare themselves on this wire
    Mute,          \* the ones that declare no outputs
    NoBox,         \* nothing declared, or the identity page still awaited
    Blank,         \* the badge of a reac-capture nobody has stamped
    Grace,         \* REAC_RECOVER_GRACE_TICKS
    MaxAttempts,   \* REAC_RECOVER_MAX_ATTEMPTS
    MaxShift,      \* REAC_RECOVER_MAX_SHIFT
    Settings       \* bound: the pin and how rough the wire and the server may be

ASSUME PairAssumption ==
    /\ Mute \subseteq Boxes
    /\ NoBox \notin Boxes /\ Blank \notin Boxes \cup {NoBox}
    /\ Grace \in Nat \ {0}
    /\ MaxAttempts \in Nat /\ MaxShift \in Nat
    /\ Settings \subseteq [pin : Boxes \cup {NoBox}, hasty : BOOLEAN, faults : Nat, outage : Nat]

VARIABLES
    setting,       \* which of the settings this is; it never changes
    due,           \* the timers that have yet to fire in this tick
    box, moved,    \* what the wire declares; has it moved since the last autodetect turn
    server, out,   \* is the PipeWire server up; ticks it has been down
    faults,        \* faults so far
    rows, cur,     \* n->box_rows: the two slots, and the one last returned
    src, snk,      \* reac-capture (*c->src) and reac-playback (n->stream)
    shadow,        \* what sink_publish_link_props last published
    last, announced, restamp,   \* of struct autodetect_ctx
    recover        \* c->recover

wire   == <<setting, box, moved>>
graph  == <<server, out, faults>>
pair   == <<src, snk, shadow>>
adc    == <<last, announced, restamp, recover>>
vars   == <<due, wire, graph, rows, cur, pair, adc>>

Pin    == setting.pin      \* the --box pin, or NoBox
Hasty  == setting.hasty    \* may the declaration move twice between two autodetect turns
Faults == setting.faults   \* bound: what may go wrong on the PipeWire side in a behaviour
OutMax == setting.outage   \* bound: ticks a server outage lasts at most

Timers == {"autodetect", "log"}
Slots  == {0, 1}
NoRow  == -1

\* A stream: absent, CONNECTING, a node of the graph, or one the server no longer has
\* (ERROR or UNCONNECTED), which never reconnects by itself.
Nodes == [on    : {"none", "connecting", "graph", "dead"},
          of    : Boxes \cup {NoBox},
          door  : BOOLEAN,
          badge : Boxes \cup {NoBox, Blank}]

NoNode   == [on |-> "none", of |-> NoBox, door |-> FALSE, badge |-> NoBox]
Made(n)  == n.on # "none"

Recovers == [absent : Nat, attempts : 0..MaxAttempts, gaveUp : BOOLEAN]

RecoverInit == [absent |-> 0, attempts |-> 0, gaveUp |-> FALSE]

TypeOK ==
    /\ setting \in Settings
    /\ due \in SUBSET Timers
    /\ box \in Boxes \cup {NoBox} /\ moved \in BOOLEAN
    /\ server \in BOOLEAN /\ out \in 0..OutMax /\ faults \in 0..Faults
    /\ rows \in [Slots -> Boxes \cup {NoBox}] /\ cur \in Slots \cup {NoRow}
    /\ src \in Nodes /\ snk \in Nodes
    /\ shadow \in Boxes \cup {NoBox}
    /\ last \in Slots \cup {NoRow} /\ announced \in Slots \cup {NoRow}
    /\ restamp \in BOOLEAN
    /\ recover \in Recovers

HasPlayback(b) == b \in Boxes \ Mute

\* A stream that has just been connected.
Built(b, badge) == [on |-> "connecting", of |-> b, door |-> FALSE, badge |-> badge]

\* listener_open on a server that is up: a pin builds its nodes at once.
Init ==
    /\ setting \in Settings
    /\ due = {} /\ box = NoBox /\ moved = FALSE
    /\ server = TRUE /\ out = 0 /\ faults = 0
    /\ rows = [s \in Slots |-> NoBox] /\ cur = NoRow
    /\ src = IF Pin = NoBox THEN NoNode
             ELSE Built(Pin, IF HasPlayback(Pin) THEN NoBox ELSE Blank)
    /\ snk = IF HasPlayback(Pin) THEN Built(Pin, NoBox) ELSE NoNode
    /\ shadow = NoBox
    /\ last = NoRow /\ announced = NoRow /\ restamp = FALSE
    /\ recover = RecoverInit

-----------------------------------------------------------------------------
(* reac_box_row_resolve: the row of what the wire declares.                *)

\* The slot that is returned, NoRow for NULL.
Row ==
    IF box = NoBox THEN NoRow
    ELSE IF cur # NoRow /\ rows[cur] = box THEN cur
    ELSE IF cur = 0 THEN 1 ELSE 0

\* A row that was not there is built in the other slot, over the one before last.
Resolve ==
    /\ cur' = IF Row = NoRow THEN cur ELSE Row
    /\ rows' = IF Row = NoRow THEN rows ELSE [rows EXCEPT ![Row] = box]

-----------------------------------------------------------------------------
(* reac_node_recover.c.                                                    *)

Window(r) == Grace * 2^(IF r.attempts < MaxShift THEN r.attempts ELSE MaxShift)

RecoverAct(r, whole) ==
    IF whole \/ r.gaveUp \/ r.absent + 1 < Window(r) THEN "WAIT"
    ELSE IF r.attempts >= MaxAttempts THEN "GIVE_UP"
    ELSE "REBUILD"

RecoverStep(r, whole) ==
    IF whole THEN RecoverInit
    ELSE IF r.gaveUp THEN r
    ELSE IF r.absent + 1 < Window(r)
    THEN [absent |-> r.absent + 1, attempts |-> r.attempts, gaveUp |-> FALSE]
    ELSE IF r.attempts >= MaxAttempts
    THEN [absent |-> 0, attempts |-> r.attempts, gaveUp |-> TRUE]
    ELSE [absent |-> 0, attempts |-> r.attempts + 1, gaveUp |-> FALSE]

-----------------------------------------------------------------------------
(* The nodes.                                                              *)

OnGraph(n) == n.on = "graph"

\* pw_stream_connect: it needs a server, and the server may refuse.
Connects(ok) == server /\ (ok \/ faults = Faults)

\* reac_node_ensure_needs_rebuild
Fits(n, b) == Made(n) /\ n.of = b

\* reac_source_node_ensure of what is left of the slot.
SourceEnsure(n, b, ok) ==
    IF Fits(n, b) THEN n ELSE IF Connects(ok) THEN Built(b, Blank) ELSE NoNode

\* Mutant of SinkEnsure: a box without outputs keeps the playback of the one before it.
SinkEnsureKept(n, b, ok) ==
    IF ~HasPlayback(b) THEN n
    ELSE IF Fits(n, b) THEN n ELSE IF Connects(ok) THEN Built(b, b) ELSE NoNode

\* reac_sink_node_ensure, and sink_open_filter when it builds.
SinkEnsure(n, b, ok) ==
    IF ~HasPlayback(b) THEN NoNode
    ELSE IF Fits(n, b) THEN n ELSE IF Connects(ok) THEN Built(b, b) ELSE NoNode

\* The sink's shadow after its ensure: sink_open_filter resets it to the seeds before it
\* connects, and publishes the box when the connect is taken.
Stamped(k, b, ok) ==
    IF ~HasPlayback(b) \/ Fits(k, b) THEN shadow ELSE IF Connects(ok) THEN b ELSE NoBox

\* Mutant of PairBuilt: reac-playback is built and reac-capture keeps the door.
PairBuiltTwoDoors(s, k, b, oks, okk, stamp) ==
    LET opens == HasPlayback(b) /\ ~Fits(k, b) /\ Connects(okk)
        made  == SourceEnsure(s, b, oks)
    IN  /\ snk' = SinkEnsure(k, b, okk)
        /\ shadow' = Stamped(k, b, okk)
        /\ src' = IF ~Made(made) THEN NoNode
                  ELSE [on |-> made.on, of |-> made.of, door |-> made.door,
                        badge |-> IF opens \/ stamp THEN Stamped(k, b, okk) ELSE made.badge]

\* The end of on_autodetect_timer: both ensures, with the badge and the door that
\* sink_open_filter settles when it builds reac-playback, and the restamp.
PairBuilt(s, k, b, oks, okk, stamp) ==
    LET opens == HasPlayback(b) /\ ~Fits(k, b) /\ Connects(okk)
        made  == SourceEnsure(s, b, oks)
    IN  /\ snk' = SinkEnsure(k, b, okk)
        /\ shadow' = Stamped(k, b, okk)
        /\ src' = IF ~Made(made) THEN NoNode
                  ELSE [on |-> made.on, of |-> made.of, door |-> made.door /\ ~opens,
                        badge |-> IF opens \/ stamp THEN Stamped(k, b, okk) ELSE made.badge]

-----------------------------------------------------------------------------
(* on_autodetect_timer.                                                    *)

\* The box that left takes its nodes with it; a pin keeps them.
BoxGone ==
    /\ Row = NoRow
    /\ \/ /\ last # NoRow /\ Pin = NoBox
          /\ src' = NoNode /\ snk' = NoNode
          /\ last' = NoRow /\ announced' = NoRow /\ restamp' = TRUE
          /\ recover' = RecoverInit
          /\ UNCHANGED shadow
       \/ /\ last = NoRow \/ Pin # NoBox
          /\ UNCHANGED <<pair, adc>>
    /\ UNCHANGED faults

\* autodetect_announce
Announce == announced' = IF OnGraph(src') THEN Row ELSE announced

\* The same row as the last turn: is what was built on the graph?
SinkWhole == ~HasPlayback(box) \/ OnGraph(snk)
Whole     == OnGraph(src) /\ SinkWhole

SameBoxWaits ==
    /\ Row # NoRow /\ Row = last /\ RecoverAct(recover, Whole) # "REBUILD"
    /\ recover' = RecoverStep(recover, Whole)
    /\ UNCHANGED <<pair, last, restamp, faults>>
    /\ \/ RecoverAct(recover, Whole) = "WAIT" /\ Announce
       \/ RecoverAct(recover, Whole) = "GIVE_UP" /\ UNCHANGED announced

\* What a rebuild tears down: the sides that are gone, and only those.
Spared(n) == IF OnGraph(n) THEN n ELSE NoNode

\* Mutant of SameBoxRebuilds: a side that is gone takes its healthy sibling with it.
SameBoxRebuildsBoth(oks, okk) ==
    /\ Row # NoRow /\ Row = last /\ RecoverAct(recover, Whole) = "REBUILD"
    /\ recover' = RecoverStep(recover, Whole)
    /\ restamp' = FALSE
    /\ PairBuilt(NoNode, NoNode, box, oks, okk, TRUE)
    /\ Announce
    /\ UNCHANGED last

SameBoxRebuilds(oks, okk) ==
    /\ Row # NoRow /\ Row = last /\ RecoverAct(recover, Whole) = "REBUILD"
    /\ recover' = RecoverStep(recover, Whole)
    /\ restamp' = FALSE
    /\ PairBuilt(Spared(src), IF SinkWhole THEN snk ELSE NoNode, box, oks, okk,
                 restamp \/ ~OnGraph(src))
    /\ Announce
    /\ UNCHANGED last

OtherBox(oks, okk) ==
    /\ Row # NoRow /\ Row # last
    /\ recover' = RecoverInit
    /\ last' = Row
    /\ restamp' = FALSE
    /\ PairBuilt(src, snk, box, oks, okk, restamp)
    /\ Announce

\* A stream the server refuses is one of the faults of the behaviour.
Spends(ok) == faults' = IF ok \/ ~server \/ faults = Faults THEN faults ELSE faults + 1

AutodetectTimer ==
    /\ "autodetect" \in due
    /\ due' = due \ {"autodetect"}
    /\ moved' = FALSE
    /\ Resolve
    /\ \/ BoxGone
       \/ SameBoxWaits
       \/ \E oks, okk \in BOOLEAN :
             /\ oks \/ okk
             /\ SameBoxRebuilds(oks, okk) \/ OtherBox(oks, okk)
             /\ Spends(oks /\ okk)
    /\ UNCHANGED <<setting, box, server, out>>

-----------------------------------------------------------------------------
(* on_log_timer: sink_door_follow, then sink_publish_link_props.           *)

\* A reac-capture that has become the door is bound, and everything is stamped afresh.
DoorMoves == ~Made(snk) /\ Made(src) /\ ~src.door

Shadow == IF DoorMoves THEN NoBox ELSE shadow

Publishes == box # Shadow \/ (Made(src) /\ src.badge = Blank)

\* The badge that is left on a node: both are stamped through the one composer.
Badge(n) == IF Made(n) /\ Publishes THEN box ELSE n.badge

\* Mutant of LogTimer: the capture's badge is left to whoever built the node.
LogTimerPlaybackOnly ==
    /\ "log" \in due
    /\ due' = due \ {"log"}
    /\ Resolve
    /\ shadow' = IF Publishes THEN box ELSE Shadow
    /\ src' = [on |-> src.on, of |-> src.of, door |-> src.door \/ DoorMoves, badge |-> src.badge]
    /\ snk' = [on |-> snk.on, of |-> snk.of, door |-> snk.door, badge |-> Badge(snk)]
    /\ UNCHANGED <<wire, graph, adc>>

LogTimer ==
    /\ "log" \in due
    /\ due' = due \ {"log"}
    /\ Resolve
    /\ shadow' = IF Publishes THEN box ELSE Shadow
    /\ src' = [on |-> src.on, of |-> src.of, door |-> src.door \/ DoorMoves,
               badge |-> Badge(src)]
    /\ snk' = [on |-> snk.on, of |-> snk.of, door |-> snk.door, badge |-> Badge(snk)]
    /\ UNCHANGED <<wire, graph, adc>>

-----------------------------------------------------------------------------
(* The box, the server and the clock.                                      *)

BoxMoves ==
    /\ Hasty \/ ~moved
    /\ \E b \in (Boxes \cup {NoBox}) \ {box} : box' = b
    /\ moved' = TRUE
    /\ UNCHANGED <<setting, due, graph, rows, cur, pair, adc>>

\* A connected stream becomes a node; a healthy connect takes less than a tick.
Appears(n) == [on |-> "graph", of |-> n.of, door |-> n.door, badge |-> n.badge]
Lost(n) == IF Made(n) THEN [on |-> "dead", of |-> n.of, door |-> n.door, badge |-> n.badge]
           ELSE n

NodeAppears ==
    /\ server
    /\ \/ src.on = "connecting" /\ src' = Appears(src) /\ UNCHANGED snk
       \/ snk.on = "connecting" /\ snk' = Appears(snk) /\ UNCHANGED src
    /\ UNCHANGED <<due, wire, graph, rows, cur, shadow, adc>>

NodeLost ==
    /\ faults < Faults
    /\ faults' = faults + 1
    /\ \/ src.on \in {"connecting", "graph"} /\ src' = Lost(src) /\ UNCHANGED snk
       \/ snk.on \in {"connecting", "graph"} /\ snk' = Lost(snk) /\ UNCHANGED src
    /\ UNCHANGED <<due, wire, server, out, rows, cur, shadow, adc>>

ServerStops ==
    /\ server /\ faults < Faults
    /\ faults' = faults + 1
    /\ server' = FALSE /\ out' = 0
    /\ src' = Lost(src) /\ snk' = Lost(snk)
    /\ UNCHANGED <<due, wire, rows, cur, shadow, adc>>

ServerReturns ==
    /\ ~server
    /\ server' = TRUE
    /\ UNCHANGED <<due, wire, out, faults, rows, cur, pair, adc>>

Tick ==
    /\ due = {}
    /\ server => "connecting" \notin {src.on, snk.on}
    /\ ~server => out < OutMax
    /\ due' = Timers
    /\ out' = IF server THEN 0 ELSE out + 1
    /\ UNCHANGED <<wire, server, faults, rows, cur, pair, adc>>

Next ==
    \/ Tick \/ AutodetectTimer \/ LogTimer
    \/ BoxMoves \/ NodeAppears \/ NodeLost \/ ServerStops \/ ServerReturns

\* The main loop runs its timers; PipeWire makes a node of a stream it took, and its
\* service is restarted.
Fairness ==
    /\ WF_vars(Tick) /\ WF_vars(AutodetectTimer) /\ WF_vars(LogTimer)
    /\ WF_vars(NodeAppears) /\ WF_vars(ServerReturns)

Spec == Init /\ [][Next]_vars /\ Fairness

-----------------------------------------------------------------------------
(* Properties.                                                             *)

\* A segment has one door: reac-capture is bound only while there is no reac-playback,
\* through every order in which the two are lost, refused and rebuilt (sink_door_follow,
\* sink_open_filter: "reac-playback IS THE DOOR AGAIN").
OneDoor == Made(snk) => ~src.door

\* "What the ladder must never do is spend a healthy node on its sibling's failure"
\* (reac_node_recover.h): a node of the graph that fits the box is left alone by every
\* turn of the autodetect timer that finds that box.
HealthyIsSpared ==
    [][AutodetectTimer =>
          /\ OnGraph(src) /\ src.of = box => OnGraph(src')
          /\ OnGraph(snk) /\ snk.of = box => OnGraph(snk')]_vars

\* The graph is what the wire is: both nodes of a box, sized to it and with the segment's
\* door open, or, without a box and without a pin, no node.
Published(b) ==
    /\ b \in Boxes =>
          /\ OnGraph(src) /\ src.of = b
          /\ IF HasPlayback(b) THEN OnGraph(snk) /\ snk.of = b ELSE ~Made(snk) /\ src.door
    /\ b = NoBox /\ Pin = NoBox => ~Made(src) /\ ~Made(snk)

\* What stays on the wire ends up on the graph, whatever it was preceded by and whichever
\* nodes the server lost or refused on the way, as long as the recovery ladder has not given
\* up on them (SameBoxWaits: nothing rebuilds them after that while the box stays).  A box
\* has both its nodes, the door on reac-playback or on the reac-capture of a box without
\* outputs, and no node outlives its box, not even one whose connect was still under way
\* (on_autodetect_timer, sink_door_follow; reac_box_row.h: "new facts return the other of two
\* slots").  The declaration moves no faster than the timer looks.
BoxIsPublished ==
    \A b \in Boxes \cup {NoBox} :
        ~Hasty /\ <>[](box = b /\ ~recover.gaveUp) => <>[]Published(b)

\* The same after a give-up, as "Giving up is about this attempt at this node, never a
\* permanent verdict about the segment" says (reac_node_recover.h 25-27).  It does not hold.
GiveUpIsNotFinal ==
    \A b \in Boxes \cup {NoBox} : ~Hasty /\ <>[](box = b) => <>[]Published(b)

\* The nodes of a box that stays carry its badge, and no other box's: a rebuilt node is
\* stamped although nothing the sink watches has changed (sink_publish_link_props,
\* reac_sink_node_restamp_peer).
BadgeIsTheBoxs ==
    \A b \in Boxes :
        <>[](box = b) => <>[](/\ Made(src) => src.badge = b
                              /\ Made(snk) => snk.badge = b)
=============================================================================
