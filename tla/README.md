# A TLA+ model of reac-pw

reac-pw publishes REAC audio segments (Roland stageboxes and desks on raw Ethernet) as
PipeWire nodes.  It is one daemon: a PipeWire main loop that runs every decision on timers
and netlink callbacks, and per segment a libreac master, slave or recorder with its own
threads.  This directory holds the specifications of the decisions, the TLC configurations
that check them on small instances, and the TLAPS proofs.

Line numbers refer to `src/src/main.c` unless another file is named.

## 1. Inventory

| component | state | operations | talks to |
|---|---|---|---|
| hearing loop (`main.c`, `hearing_*`) | listeners, sniffers, phase of the poll | `hearing_poll`'s passes: requests, hunt, join, reevaluate, rehear_empty, yield, tick, apply, topology | scan (calls), sniffers, listeners, netlink (queue) |
| interface scan (`reac_ifscan`, libreac) | per interface DOWN / LINKED / SEGMENT / HOLD, hold and retry clocks, event queue | link up/down, gone, heard, serve_failed, tick | queue read by `hearing_apply` |
| watch table (`reac_watch.c`) | none | `reac_watch_keep`, `reac_watch_decide` | called by the hearing loop |
| hunt and discovery (libreac) | sightings with ages, window, verdict, licence | observe, step, silence_proven | frames of a sniffer |
| empty master (`reac_empty_master.c`) | quiet clock, was_past | step | master FSM's state |
| silent-wire knock (`reac_knock_wire.c`, `reac_knock_credit.c`) | knock socket, slot of the cycle, back-off, its ladder | step, heard, stop, credit | sniffer, hearing loop, new master |
| wake ladder (`reac_wake.c`) | spell, last edge, bounces, spent | step, reopen, close | `wake_step`, `hearing_knock_wake`: link down/up |
| segment life (`listener_open`, `listener_close`) and link budget (`reac_link_budget.c`) | lock, sockets, ring, engines, threads, nodes; what each engine costs its port | open, refuse, unwind, close, re-open, yield | other daemons (segment lock), sibling segments |
| node pair (`reac_node_recover.c`, `reac_node_graph.c`, `reac_node_ensure.c`) | absent ticks, attempts, gave_up | step | `on_autodetect_timer` builds and destroys the nodes |
| box rows (`reac_box_row.c`) | two slots, current | resolve | both timers of a listener |
| reac-playback, reac-capture (`reac_sink_node.c`, `reac_source_node.c`) | streams, badge and its shadows, the door, gains, staged samples | ensure, unpublish, door_follow, publish, Props, RT process | PipeWire server, pacer thread |
| role, rate and head-amp doors (`reac_role_cfg.c`, `reac_rate_cfg.c`, `reac_headamp_*.c`) | pending request, answer, asserted table | Props parse, exchange, swap, replay | poll, pacer's command ring |
| VLAN topology (`reac_declared_vlan.c`, `topo_*`), served mark (`reac_served_mark.c`, `reac_link_alias.c`), qdisc owner (`reac_qdisc.c`) | what is ours on the host: netdevs, aliases, qdiscs | watch, mint, adopt, release, mark, unmark, arm, disarm | kernel, other programs |
| roster (`reac_roster.c`, `reac_roster_node.c`) | rows wanted and published, the node | collect, delta, commit, rebuild | PipeWire server, consoles |
| segment configuration (`reac_segconf.c`) | sections, file and directory stamps | load, refresh, ask | files edited by others; every link event |
| RX bind, knobs, box pin, latency, gain | parsed values, arithmetic | parse, compute | everything |

Which behaviours are hard.  The main loop is not concurrent with itself, yet much of it is
not atomic, and it shares the host, the graph and the files with programs it does not see.

* Netlink moves the scan's table between polls and only queues what the listeners and
  sniffers must do.  Every pass of a poll before `hearing_apply` sees a table that is ahead
  of them, and the events it then applies were queued against an older state.
* A PHY edge is two turns of a timer with the link down in between; the listener or the
  sniffer that asked for it may be closed in between.
* An open takes a dozen things one by one, and any of them may be refused after the others
  were taken, by the kernel, by another daemon or by the port's budget.
* The autodetect timer and the sink's log timer share the box rows, the badge and the door,
  while the box changes what it declares and the server loses or refuses either node.
* What is sent to the PipeWire server is only the difference from a remembered copy, and
  the server's copy is never read.
* Requests written to a node wait in that node for the next poll, and may outlive it, or not.
* A crash keeps the netdevs, aliases and qdiscs and loses the record of whose they are.
* Files are edited between the `stat` and the `open` of a load.
* Several bounds are promised across resets of part of the state (edges per silent box,
  rebuilds per loss) and several states must be left again (door, yield, hold, rest).

## 2. Modules

| module | models | of |
|---|---|---|
| `WakeLadder` | `reac_wake.c` as operators on a record | the ladder, which has no clock and no device |
| `WakeEdge` | `wake_step`, the listener's life, the interface, the PHY | a served master and its edges |
| `Watch` | `reac_watch.c`; the hunt behind it (external) | what a verdict means |
| `Hearing` | `on_rate_reopen_timer`, `hearing_poll` and its passes, sniffers, serve, drop, re-hear; the scan (external) | interfaces to segments |
| `Knock` | `reac_knock_wire.c`, `reac_knock_credit.c`, the knock's timer and sniffer, `hearing_knock_wake` | one silent interface |
| `Port` | `listener_open` step by step, its unwinding, `listener_close`, re-opens, `link_budget_yield` | the segments of one physical port |
| `Ledger` | the account of a port (abstract) | what `Port` implements |
| `NodePair` | `on_autodetect_timer`, `reac_node_recover.c`, box rows, badge and door; the server (external) | a served master's nodes |
| `Doors` | Props writes, `on_rate_reopen_timer`'s requests, the role swap, head-amps, `on_log_timer`'s publishers | one segment's settings |
| `Playback` | `on_process`, gains, volume and mute, the stream's rebuilds | the audio path of reac-playback |
| `Traces` | `topo_*`, `reac_served_mark.c`, `reac_link_alias.c`, `reac_qdisc.c`, exit and restart | what is left on the host |
| `Roster` | `on_roster_timer`, `reac_roster.c`, `reac_roster_node.c` | the published view |
| `Segconf` | `reac_segconf.c`, and what the daemon asks of it | the override files |
| `MCHearing`, `MCNodePair`, `MCSegconf` | pins, wires, faults and files of the instances | |
| `WakeEdgeProofs`, `HearingProofs`, `KnockProofs`, `PortProofs`, `NodePairProofs`, `DoorsProofs`, `TracesProofs`, `RosterProofs` | theorems | the module each extends |

`WakeEdge` and `Knock` extend `WakeLadder`, `Hearing` extends `Watch`, `Port` instantiates
`Ledger`.  The modules meet where the code's parts meet: `Hearing` knows a knock as a state
and `Knock` knows the hearing loop as "served"; `Port` refines the serve and the drop that are
one step in `Hearing`; `Doors` takes the node's life from `NodePair` as moves of the box and
the door; `Segconf` gives the pins that are constants of `Hearing` and `Port`.

Every module states its type invariant (`TypeOK`).  The configurations do not list it: it is
proved for `WakeEdge`, `Hearing`, `Port`, `NodePair`, `Doors`, `Traces` and `Roster`, and for
`Knock`, `Playback` and `Segconf` it is checked by adding `TypeOK` to the `INVARIANTS` of a
configuration.

**WakeEdge.**  One tick is 200 ms.  `Tick` makes the autodetect timer and the hearing poll
due; each fires once, in either order.  `AutodetectTimer` is the whole of `wake_step`
(finish an edge in flight, or read the wire and run the ladder), `HearingPoll` the scan's
hold and the serve or drop that follows, `Reopen` a rate or role request.  The rest is the
pacer (`ScenePush`, `FrameSent`, `BoxFrame`, `MasterGivesUp`) and the world (`CableMoves`,
`OutsideMoves`).  Ages replace the code's absolute instants and saturate at the largest bar
they are compared with.  `edges`, `asked` and `refused` are history: edges since the box or
the cable last gave a sign, requests, and an `up` the kernel refused.

**Hearing.**  One poll is the sequence of phases `requests, hunt, join, reevaluate,
rehear, yield, tick, apply, topo`; each phase visits the interfaces in any order
(the code's is the table's order), and netlink and the wires move between polls.  The queue
(`evq`) and the listeners (`lis`) are separate, so a stale event meets whatever the passes
have left.  `tag` is the topology tap of an interface with the parent's row: UNLISTEN closes
the tap and keeps the row, whose word then stands (4198-4207, 4405-4410), DROP forgets both.
A listener is its kind (master, tap, slave, join, vacant or refused door) with
the clocks of the passes that watch it; a sniffer is its discovery ages, hunt, watch and
knock.  Frames are the set of gear on the wire: every open sniffer hears all of it once per
poll.  Who is pinned and how a link behaves are chosen in `Init` (`pin`, `link`), so one run
covers them all.  Two latches of the code have no state here: the 5 s in which a master that
was heard still counts are part of `Follow`, and `reac_tapwait_binds`, which holds a hunt until
the tap has classified the wire, cannot bind, since a tap here has read the wire before the
hunt runs.

**Knock.**  One tick is a second.  The knock's record (`kw`) has its slot, its deadline
relative to now and its back-off; `armed` is the timer, which may fire late and after the
state it was armed for.  The slots of a cycle that carry a control block are the transfer's
header, its chunks, its final frame and one announce.  `kl` is the ladder the process keeps
per interface name, which outlives the sniffer; `upIn` is the half of an edge that is still
owed.  `told`, `proof` and `edges` are history.

**Port.**  `run` is the `listener_open` in progress, and `OpenStep` is its next step, in the
order of the code (tap or receiver, door, budget, claim of the segment lock, sink, slave,
nodes, start); between two steps the wires, the pacers of the siblings and other daemons
move.  `held` is what the listener really holds, `opened` what its flag says.  A refused step
unwinds the way the code does at that step, not the way it should.  `YieldOne` is one turn
of `link_budget_yield`'s loop.  `commit` of the abstract `Ledger` is the cost of a segment's
master engine if it has one.

**NodePair.**  A node is absent, connecting, on the graph or dead (ERROR, UNCONNECTED), and
remembers the box it was sized to, whether it is the segment's door and the badge on it.
`rows` and `cur` are `reac_box_row`'s two slots; `last` is the slot index, as the code's is a
pointer.  `AutodetectTimer` is one of `BoxGone`, `SameBoxWaits`, `SameBoxRebuilds` and
`OtherBox`, each with its trailing announce, restamp and both ensures.  `LogTimer` is
`sink_door_follow` followed by `sink_publish_link_props`.

**Doors.**  `snk`, `src` and `pacer` are the parts of the two nodes and of the engine that a
setting passes through.  A write (`WriteRate`, `WriteRole`, `WriteHeadamp`) lands in the node
that is the door; `Poll` takes what waits, role before rate; a role change destroys the node
it was asked of; `LogTimer` publishes each key that differs from its `shadow` into `shows`,
which is what a controller reads.  `PacerDrain` empties the command ring.

**Playback.**  `OnProcess` is one call on the data thread, with its early returns;
`GraphCycle` is the graph that fills a buffer, `EngineSlot` the pacer or slave that takes a
frame, `OnParamChanged` a controller's volumes and mute, `Ensure` a rebuild at another width.
`target` is the array the main loop writes and the data thread ramps toward.

**Traces.**  `dev` is the host's view (who made a netdev, its alias, its root qdisc); `row`,
`marks` and `rec` are the daemon's records of what is its own.  `Crash` loses the records,
`Start` begins again on what is there, `Quit` to `Exit` is the order of the exit path.
`excused` is history: traces that a crash or a failed call is answerable for, and VLANs that
another program deleted while the table had them as served.

**Roster.**  `Collected` derives the rows: three tables (the ignored segments, the open
listeners, the sniffers of wires that have none; a name that is there already is refused, so
a served segment that the conf switches off reads IGNORED), each added row by row (`AddAll`) at its
place in the order of the names (`RosterAdd`).  `pub` is what the daemon committed, `shown` the
server's merged copy.  A row keeps its name and its state.

**Segconf.**  A text is the sequence of its lines, each what the grammar makes of it.  A load
is a sequence of steps (`Refresh`, `ReadOne`, `StatDir`, `ListDir`, `StatFile`), one system
call each, and the operator and the console act between any two.  `Told` is what the daemon
answers, `Said` what the files on disk say.

### What is assumed of code outside this repository

From how `src/` calls it, with its tests as evidence:

* scan: `serve_failed` returns a SEGMENT or HOLD entry to LINKED with a retry clock; `gone`
  queues DROP for SEGMENT or HOLD and UNLISTEN for LINKED; HOLD ends in DROP after
  `DownHold`.
* hunt: the window is anchored once, at the first sighting; a desk outranks a stagebox on M,
  which outranks an unreadable master; `changed` is reported when the verdict differs from the
  last step's; a licence proven by a knock counts as long as no evidence contradicts it.
* sniffers hear untagged gear; the capture a LISTEN opens does open (the knock's own socket
  may fail).
* a stream the server lost never reconnects by itself; a healthy connect takes less than one
  tick; the server merges the properties it is sent.
* each box has a MAC and an identity page of its own.
* topology: the tap's table ages what it heard; the host may delete a minted VLAN but does not
  make one of the same name in its place while the table has it as minted, and a card that is
  pulled stays away for at least one poll; a VLAN's frames do not pass its parent's root qdisc.
* files: every write moves the inode's stamp (the granularity of mtime is fine enough).
* the pacer's command ring drops what does not fit and counts the drop.

## 3. Runs

Every run is a `.cfg`; "states" are the distinct states TLC finds.  The ratios between the time constants are
the code's, their values are the smallest that keep every comparison on both sides.

| run | instance | states | shows |
|---|---|---|---|
| `wake_edge` | a PHY within the scan's patience, one request, an `up` that may fail | 178,404 | edges are finished and bounded, the ladder ends |
| `hearing` | one interface, any pin, a link that stays, bounces or is unplugged; box, desk, stagebox on M, desk with box | 536,465 | a wire that settles ends in the segment it justifies |
| `hearing_doors` | undecidable and refused wires, tags, failing opens, requests, flaps together | 2,768,267 | listeners stay tracked |
| `hearing_slots` | two interfaces, one slot, opens that fail | 163,926 | a freed slot reaches the one turned away, and a refused open is tried again |
| `node_pair` | two boxes, one without outputs; two faults and a server that is back at once, or an outage longer than the ladder, with or without a pin and a declaration that moves at any time | 548,870 | nodes, badge and door follow the box |
| `port` | two segments on 100 Mbit/s at 48 or 96 kHz, one declared box, two failures | 133,497 | opens unwind, the account is kept, a box gets its port |
| `knock` | two pushes, two edges, two doublings of the back-off, two frames, two disturbances | 383,484 | the whole knock, its ladder and its answer |
| `traces` | one parent with one VLAN, two runs, one failed call, two acts of the host, which may delete a VLAN | 1,160,809 | what is ours goes, what is the host's stays |
| `roster` | three wires, two rows, one death of the server, two moves of a wire or of the conf | 194,628 | the graph shows what was published and catches up |
| `doors` | two rates, one head-amp cell, a ring of one; two writes, moves and faults | 77,628 | settings cross to the engine and back |
| `playback` | two channels, frames of two samples from quanta of three, two buffers, a ring of two | 307,722 | audio flows at the volumes shown |
| `segconf` | three segments in a table of two, one file and two drop-ins, two edits | 75,814 | the daemon ends up with what the files say |

Bounds and why they are enough.

* `Hearing`: one interface reaches every interaction of netlink, sniffer, hunt and listener,
  since interfaces share only the listener slots (`hearing_slots`), the port's budget
  (`port`), the queue and the order of a pass.  `QMax` = 2 lets a link go down and come up, or
  an interface vanish and return, between two polls; more events repeat the same pairs.
* `NodePair`: two boxes with one mute give every transition of the pair; two faults let the
  second hit the repair of the first.  The ladder has 3 attempts and one doubling.
* `WakeLadder`: `MaxBounces` = 2 is the code's value; one request suffices for a lost half.
* `Port`: two segments are the least that compete; 100 Mbit/s is the link on which one
  96 kHz master fits and two do not.
* `Knock`: a back-off that has doubled twice has passed its cap; a second frame or disturbance
  can hit what the first left behind.  `PushCap` bounds a counter that is only compared.
* `Traces`: two runs are a crash and its restart; the second act of the host can undo or
  imitate the first.
* `Roster`: three wires for two rows make the table overflow and shrink.
* `Doors`: a ring of one overflows at the second write; two moves take the door away and
  back.  The run also passes with (writes, moves, faults) = (2,3,1), (3,2,1) and (2,3,0).
* `Playback`: a quantum that is not a multiple of a frame leaves samples staged; two buffers
  make the pool run dry after two lost ones.
* `Segconf`: two drop-ins give an order, three segments for a table of two make it full, and a
  second edit can meet the load that the first one caused.

Fairness.  `WF` on the timers, polls and passes: they are timers of one event loop that blocks
nowhere, and each handler returns.  `SF` on `MasterMoves`, `FrameSent` and, in `Port`, on the
serve and the drop of a segment: the engine's thread acts many times between two polls
whatever their phase, and the scan repeats an event at every poll as long as its condition
holds, while a `listener_open` of another segment may be running each time.  `WF` on
`NodeAppears` and `ServerReturns`: PipeWire registers a stream it accepted, and its service
is restarted by the session.  `WF` on `OnProcess`, `GraphCycle` and `EngineSlot`: the graph
and the pacer are driven by clocks.  `WF` on `Segconf`'s daemon: a question is asked at every
roster tick, and a load returns.  Nothing is assumed of boxes, cables, operators, other
programs or netlink: their properties are conditional (`<>[]` of the world).

`CHECK_DEADLOCK FALSE` stands where the bounds on writes, moves and faults, or an exit, let
the system come to rest.

## 4. Properties

| property | says | about |
|---|---|---|
| `EdgeInFlight` | a pending half of an edge has a listener that will end it, and its link is down | `wake_step` 915-929 |
| `EdgesBounded` | at most `MaxBounces` edges at a box that gives no sign | `reac_wake.c` 85 |
| `LinkComesBack` | a link taken down comes up | 912 |
| `LadderEnds` | a silent box is given up, and it is said | `reac_wake.c` 85-91 |
| `ServedIsTracked` | a listener belongs to a segment of the scan or its DROP is queued, on every link that is not pulled and put back | 4533-4550 |
| `FollowerIsQuiet` | no knock of ours under somebody we follow, on the same links | 3306-3323 |
| `StreamNeedsBox` | no unpinned segment is streamed at before a box was heard | `KNOCK.md` |
| `DeskIsTapped`, `BoxIsMastered`, `PinIsHonoured` | a wire that settles ends in the segment it, or its pin, justifies | 4482-5296 |
| `SegmentIsServed`, `SlotIsPassedOn` | no segment stays unserved after a full table, a failed open or a re-hear; none starves for a slot | 3643, 3780, 5203 |
| `OneDoor`, `HealthyIsSpared` | one door; no autodetect turn takes a healthy node that fits | `reac_sink_node.c` 986, `reac_node_recover.h` |
| `BoxIsPublished`, `BadgeIsTheBoxs` | nodes and badge follow the box, the nodes as long as the ladder has not given up | 1020-1140 |
| `NothingLeaks` | a listener that is not open holds nothing, whichever step refused | 2034-2660 |
| `KeepsAccount` | `Port` implements `Ledger`: one segment at a time takes what fits and gives back what it took | 2215-2255 |
| `BoxGetsPort`, `EvictedRests` | a box gets its port from empty masters, and the port does not go back and forth | 3859-3906, 4808 |
| `EdgeIsProven`, `LinkIsOwed` | the knock's edge follows whole transfers on a silent wire, and is owed its other half until the kernel refuses it | 5203-5290 |
| `SilenceIsKnocked`, `DroppedBoxWakes` | a silent wire goes on being knocked, a dropped box gets its edges | `reac_knock_wire.h` 31, 190 |
| `AnswerIsCredited` | a box that answered a whole transfer has its master credited | 3742-3759 |
| `CleanStop`, `HostIsLeftAlone` | what is ours goes at the exit; no step of ours removes or renames what is the host's | `hearing_stop`, `reac_served_mark.c` |
| `ThreadTransmits` | an engine without launch times never runs under an etf qdisc | `reac_qdisc.c` |
| `SilentTrunkEnds`, `TaggedIsServed` | the trunk follows the tags, although our own engine sends some; a VLAN has its netdev unless another program deletes it | 4383-4446 |
| `ShownIsPublished`, `RosterCatchesUp` | the server's copy is the committed one, and becomes the wires' | `reac_roster.c` 174, 5568 |
| `ShadowIsShown`, `DoorCatchesUp` | no shadow claims what the door does not show, and the door catches up | `reac_sink_node.c` 958-1888 |
| `ReadbackIsSentUndropped` | a head-amp readback was sent, unless the ring dropped it | `reac_sink_node.c` 790-805 |
| `RoleSettlesUncrossed` | the engine ends in the role asked for last | 5698-5770 |
| `AudioFlows`, `VolumeIsHeard` | buffers are given back on every path; channels are played at what is shown | `reac_sink_node.c` 338-634 |
| `ConfCatchesUp`, `ReloadsEnd` | the daemon is told what the files say, and stops reading | `reac_segconf.c` 338-515 |

## 5. Where the code and its words disagree

These definitions are in the modules, are not listed by any configuration, and are violated
when they are added to one: each states what a comment or a test says.

| definition | configuration | what TLC shows |
|---|---|---|
| `LinkAlwaysComesBack` | `WakeEdge.cfg` | a rate or role request between the halves of an edge closes the listener and `listener_open` clears `up_at_ns` (2503); the link stays down, against 912-914 |
| `MasterIsWatched` | `HearingDoors.cfg` | a door that becomes a master through UNREFUSE (4933) is never watched (4799 is the only place), so no later desk makes it yield, against 4885-4886 |
| `GiveUpIsNotFinal` | `NodePair.cfg` | after a give-up the node cannot appear while the box stays, against `reac_node_recover.h` 25-27 |
| `RestOpensAtOnce` | `Knock.cfg` | a frame that ends a knock's rest does not arm its timer (3306; `knock_arm` is not called), against `reac_knock_wire.h` 158-166 |
| `AnyDroppedBoxWakes` | `Knock.cfg` | a FILLER heard in the spell holds the ladder for the rest of it, against 5226-5227 |
| `RowHasEngine` | `Roster.cfg` | a vacant door reads as probing or slave (5436-5454), against `reac_roster.h` 56-57 |
| `ReadbackIsSent` | `Doors.cfg` | a full command ring is not noticed (`reac_sink_node.c` 802-805), against 790-792 there |
| `RoleSettles` | `Doors.cfg` | a role asked back before the poll took it leaves the first one pending (5760, `reac_sink_node.c` 872-875), against `tests/test_reac_role_swap.c` 181-194; the rate door does the same |
| `VolumeIsHeardOnAll` | `Playback.cfg` | volumes and mute are pushed to the channels of the present width only (`reac_sink_node.c` 622, 2036), so a wider box brings channels that are not muted, against 154-155 and 2032-2035 there |
| `UnreadIsRetried` | `Segconf.cfg` | a file that did not open is not looked at again (`reac_segconf.c` 434-438), against 336-337 there |

The instances of the passing runs, and the conditions in the properties, are drawn around the
following, which TLC finds when the named constants change or the condition is dropped.

| change | breaks | because |
|---|---|---|
| `WakeEdge.cfg`: NegMax = 4 | `EdgesBounded` | an edge outlasts the scan's patience, the segment is dropped by its own edge and re-served with the count cleared (2503), against `reac_wake.h` 133-135 |
| `Hearing`: wires with `"unknown"` | `DeskIsTapped` | a change of verdict inside a refused door's dwell is consumed by `reac_hunt_step` and not asked for again (4935), against "NOTHING LATCHES" (4902) |
| `DeskIsTapped` on a link that bounces | `DeskIsTapped` | a bounce queued ahead of a SERVE serves a sniffer that has heard nothing (4513) |
| `HearingSlots.cfg`: Tagged | `SegmentIsServed` | a trunk's parent is dropped (4446) and stays a SEGMENT, which nothing serves when the tags stop, against 4378-4379 |
| `HearingSlots.cfg`: Requests | `SegmentIsServed` | a rate re-open that fails (2727) does not tell the scan |
| `BoxIsMastered` on a `"usb"` link | `BoxIsMastered` | an interface removed and added between polls is served from LINKED, and UNLISTEN closes no listener (5203), against 4541-4542 |
| `ServedIsTracked` on a `"usb"` link, OpenMayFail | `ServedIsTracked` | the SERVE queued behind a DROP outlives the pass that puts the scan back to LINKED, and serves an interface the scan does not have |
| `Hearing`: wires with `"unknown"` | `StreamNeedsBox` | a master of unreadable geometry that ends a knock proves the wire silent (3306-3322), and the door refused to it becomes a master when it leaves, with no box heard |
| `Knock.cfg`: Listen = 1 | `AnswerIsCredited` | a poll that comes 500 ms after the box answered and fell silent opens a new knock, which lets go of the answer; 4607 has measured a poll 530 ms late |
| `NodePair`: Boxes = {a, b, m}, hasty | `BoxIsPublished` | two changes of the declaration between two turns reuse the slot the watcher compares with (1058) |
| `TaggedIsServed` without the exclusion of a deleted netdev | `TaggedIsServed` | nothing tells the table that a netdev it serves has vanished: a VID that goes on talking stays SERVED and is not asked for again (4284-4347) |
| `ReloadsEnd` without the hand-written file | `ReloadsEnd` | the first drop-in's stamp overwrites the slot of the missing file (`reac_segconf.c` 432), so every question reads everything again and repeats its "IGNORED" lines, against `reac_segconf.h` and 3105 |
| `ConfCatchesUp` without `ReadUnstamped` | `ConfCatchesUp` | a hand-written file created between `stat` and `fopen` and removed before the next refresh keeps its settings |

Read off the code while modelling, without a run of their own:

* a knock opened inside the hunt's window goes on under the master stream and under a door
  that says "transmitting nothing" (4528, 4876); a knock whose socket failed is not retried in
  that spell (3230-3236); `kw.pushes` is never reset for a new box (`reac_sink_node.h` 123-125);
* a pin's dead nodes are not rebuilt while no box is declared (1044); the ready line is
  printed with reac-playback refused (881);
* a sibling whose box is recognised between the decision and the drop of `link_budget_yield`
  is dropped all the same (3849); `reac_link_budget.h` 43-48 says "two never fit at any rate",
  and two 48 kHz masters do fit 100 Mbit/s;
* a qdisc whose read-back fails is installed and not
  recorded (`reac_qdisc.c` 102-106); the 33rd mark is not kept (`reac_served_mark.c` 43);
* role and rate in one Props object: the rate dies with the node; the reac-playback of a join
  accepts a role nobody takes (5745-5749); live head-amp cells are lost on a re-open at
  another rate; a refusal's text is not among what `reac_sink_node.c` 1445-1450 compares;
* samples staged before a rebuild are played after it;
* a hand-written file that cannot be read is passed over in silence and announced as absent
  (`reac_segconf.c` 469).

## 6. Proofs

`PortProofs`, for every set of segments, set of rates and link speed that satisfies
`PortAssumption`:

* `TypeCorrect`: `Spec => []TypeOK`.
* `LeavesNothingBehind`: `Spec => []NothingLeaks`.  The inductive invariant is `Inv`: `TypeOK`;
  `LockIsHeld` (the lock is ours exactly when the listener holds it);
  `ClosedHoldsNothing` (what `NothingLeaks` says); `OpenIsClosable` (an open listener holds
  only what `listener_close` gives back for its kind); and `RunIsBounded` (an open in
  progress has taken only what the steps before its present one take).  The last is what
  makes each refusal's own unwinding sufficient, and there is one lemma per step of the open.

`WakeEdgeProofs`, for every ladder and every timing that satisfies `LadderAssumption` and
`EdgeAssumption`:

* `TypeCorrect`: `Spec => []TypeOK`.  `LadderStepType` is the lemma that matters: an edge is
  granted only below `MaxBounces`, so the count keeps its range.
* `InFlight`: `Spec => []EdgeInFlight`, inductive as it stands.
* `Bounded`: `QuickLink` implies `Spec => []EdgesBounded`.  `QuickLink` says that an edge with
  its negotiation is shorter than the scan's patience (1 + Down + NegMax < DownHold); section
  5 has what happens without it.  The bound is not inductive, because the count that bounds
  the edges lives in the listener: the invariant is `EdgeInv`, of `TypeOK`, `EdgeInFlight`,
  and, as long as nobody has asked for a re-open and no `up` was refused, `Patience` (what is
  left of the edge is shorter than what is left of the hold, so the listener is not dropped)
  and `Counted` (so the ladder that is asked has counted every edge).

`NodePairProofs`, for every set of boxes, ladder and number of faults that satisfies
`PairAssumption`:

* `PairTypeCorrect`: `Spec => []TypeOK`.
* `SegmentHasOneDoor`: `Spec => []OneDoor`.
* `LadderSparesTheHealthy`: `Spec => HealthyIsSpared`, an action property.

The inductive invariant is `PairInv`: `TypeOK`, `OneDoor` and `Sized` (a node is sized to a
box, and a reac-playback to one with outputs).  `Sized` is needed where a rebuild tears down
one side: what is left must be recognised by `ensure` as fitting.

`HearingProofs`, for every set of interfaces, configuration, set of wires, number of slots,
timing and length of the queue that satisfies `HearingAssumption`, with or without failing
opens, requests and tags:

* `TypeCorrect`: `Spec => []TypeOK`.
* `NoListenerIsLeftBehind`: `Spec => []ServedIsTracked`.
* `WhoFollowsIsQuiet`: `Spec => []FollowerIsQuiet`.

The inductive invariant is `Inv`: `TypeOK`, and `Good(i)` of every interface that is not pulled
and put back (section 5 has what happens on one that is).  `Good` is about the queue, because
the passes before `hearing_apply` leave the listeners behind the scan's table: a listener is
tracked or its DROP is queued; a DROP is applied in the poll that queued it; a SERVE was queued
by this poll's hunt, once, for a segment that is not served.  And it is about the sniffer,
because the segment that follows was served off it: a knock runs only on an unpinned wire, and
a master heard under a knock is one the verdict already follows.  There is one lemma per pass,
and in `hearing_apply` one per event.

`KnockProofs`, for every cycle, transfer, back-off and ladder that satisfies `KnockAssumption`
(of which `Listen > 1` says that the poll that finds a box comes within the silence that opens
a knock: 200 ms against the 500 ms of `docs/KNOCK.md` 55):

* `DownLinkIsOwed`: `Spec => []LinkIsOwed`.
* `ToldBoxIsCredited`: `Spec => []AnswerIsCredited`.
* `OnlyAProvenEdge`: `Spec => EdgeIsProven`, an action property.

The inductive invariant is `Inv`.  `TransferIsCounted` ties the frames that left to the slots
of the cycle: the header is held exactly while none was missed.  `PushIsProven` bounds the
pushes the ladder sees by the transfers that left in its spell; it is what makes an edge
proven although the ladder outlives the sniffer.  `KnockIsOver` and `ToldIsCounted` carry the
answer from the frame to the poll that opens the master.  Nothing is supposed of the fields
that the catch-up of a late knock sets (`CatchUp`, a recursive function of two arguments,
which the prover does not read): the results hold whatever it computes.

`PortProofs`, beside the above, the refinement `PortKeepsAccount`: `Spec => KeepsAccount`, that
is, `Port` implements `Ledger`.  The sum over the segments is reached by an induction whose
parameter is a set (`SetInduction`: a set of numbers that contains 0 and every successor is
all of them), from which follow that the sum exists, what adding and removing a segment does
to it and how two sums compare.  An open that was admitted takes its cost only steps later,
when its engine is made; `StillFits` is why the ledger still admits it then, whatever the
segments and the wires did in between.  `UsedCovers` is why the code's own sum is on the safe
side: it also counts the joins.

`DoorsProofs`, for every list of rates, set of cells and length of the ring that satisfies
`DoorsAssumption`:

* `TypeCorrect`: `Spec => []TypeOK`.
* `ShadowsDoNotLie`: `Spec => []ShadowIsShown`.
* `ReadbackWasSent`: `Spec => []ReadbackIsSentUndropped`.

The inductive invariant is `Inv`.  A shadow is compared with the node that is the door now,
and the door moves without touching the shadows; so what is kept is said of both nodes,
whichever is the door (`OnPlayback`, `OnCapture`), with `NodesFit` (a capture is bound only
under a sink without a stream) and `UnboundIsPlain` (a capture that is bound anew starts
blank).

`TracesProofs`, for every set of cards and number of starts, failures and acts of the host that
satisfies `TracesAssumption`:

* `TypeCorrect`: `Spec => []TypeOK`.
* `NoThreadUnderEtf`: `Spec => []ThreadTransmits`.
* `LeavesNothing`: `Cardinality(Parents) <= MaxMarks` implies `Spec => []CleanStop`.  Without
  it the last card's mark is dropped by the full table (`reac_served_mark.c` 43, 32 marks)
  and nothing is answerable for it.
* `HostKeepsItsOwn`: `Spec => HostIsLeftAlone`, an action property.

The inductive invariant says who owes each trace: a VLAN, an alias or a qdisc of ours is in
the table that the exit empties, or it is excused (`VlanIsOwed`, `AliasIsOwed`, `EtfIsOwed`);
each step of the exit has emptied its table (`ExitIsOrdered`); and what the table calls minted
is never the host's (`MintedIsNotHosts`).

`RosterProofs`, for any number of wires and any bound of the table:

* `TypeCorrect`: `Spec => []TypeOK`; the lists stay in the order of the names, within the bound.
* `GraphShowsPublished`: `Spec => []ShownIsPublished`.
* `TickShowsEveryWire`: a tick that leaves a node leaves on it only wires that are there, each
  with its present state, and every one of them when they fit (`N <= RosterMax`).  No
  configuration lists it.

`ShownIsPublished` is inductive with `TypeOK`.  The work is in the operators: `RosterAdd` has
exactly one place for a row (`SetInduction` again, to find it), and `AddAll` is the last value
of a recursive function over the names, which is shown to exist and to keep the rows it had.

Only model-checked:

* all liveness, which is every property of `Playback` and `Segconf` and `EvictedRests` of
  `Port`: the prover has neither fairness nor ENABLED;
* `StreamNeedsBox`, which holds only with the ratios of the code's time bars and without a
  failing open, so its invariant has to follow the ages of what a sniffer heard;
* `TypeOK` of `Knock` (for `CatchUp`), `Playback` and `Segconf`.

## 7. Plan

What is left, in this order:

1. Proofs: `TypeOK` of `Knock`, with `CatchUp` as a function to functions and `SetInduction`;
   `StreamNeedsBox` of `Hearing`.
2. `Traces` with two VLANs on a parent, and a host that makes a VLAN in the place of one that
   the daemon minted.
3. `Hearing` with the `role = box` pin and the `--live` start.

## 8. Not modelled

* libreac's engines, the pacer and the receiver: threads at the audio rate whose effect here
  is what they report (`MasterMoves`, `EngineMoves`, `ScenePush`, `FrameSent`, `box`).
* The rate matcher and the graph clock of reac-playback (`reac_sink_node.c` 375-458) and the
  process callback of reac-capture: arithmetic on a time base, and a copy.
  `reac_sink_node_reconnect_rate` and its source twin: nothing calls
  `reac_pacer_request_rate`, so they never run.
* The 64 KiB and 511 byte limits of a configuration file, the texts of refusals, and the
  `REAC_*` keys of `listener_cfg_from_conf` beyond role and box; the composition of names and
  badges; journal texts: data, with no control of their own.
* In `Knock`, the sniffer that an unpinned master keeps beside it (`reac_watch_keep`): a serve
  closes the sniffer there.  `Hearing` has the kept sniffer and its passes.
* `reac_rx_bind.c`: one comparison per frame whose state is the receiver's.
* `reac_knobs.c`, `reac_box_pin.c`, start-up (`main`, arguments, capabilities, root, signals):
  sequential reads of text at the start; their results are constants.
* The curves of `reac_gain.c` and the smoothing of `reac_lat.c`: arithmetic.
* `facts/` (a generated table), `fuzz/` and `tests/` (programs that drive the code).
