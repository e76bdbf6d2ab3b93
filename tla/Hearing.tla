------------------------------- MODULE Hearing -------------------------------
(***************************************************************************)
(* The hearing loop of main.c: how an interface with a link becomes a      *)
(* segment, what is served on it, and how it stops being served.           *)
(*                                                                         *)
(* Everything here runs on the PipeWire main loop.  Every 200 ms           *)
(* on_rate_reopen_timer takes the operator's requests and calls            *)
(* hearing_poll, whose passes are the phases below, in the code's order;   *)
(* each pass handles the interfaces one after the other.  Between two      *)
(* polls netlink moves the scan's table (on_hearing_nl_io) and queues      *)
(* events that only the next poll applies, so every pass before            *)
(* hearing_apply works on a table that is ahead of the listeners and the   *)
(* sniffers.  That gap is what most of the properties are about.           *)
(*                                                                         *)
(* Time is counted in polls; an age saturates at the bar it is compared    *)
(* with.  The scan (reac_ifscan) and the master engine behind a listener   *)
(* are libreac's, modelled from their use here and from their tests.  The  *)
(* link budget, the wake edges and the VLANs of a trunk are not here.      *)
(***************************************************************************)
EXTENDS Watch, Sequences, FiniteSets

CONSTANTS
    Ifaces,        \* the Ethernet interfaces
    Settings,      \* bound: what reac-pw.conf may say of the interfaces and how their links behave
    Wires,         \* bound: the sets of gear a wire may carry in this instance
    NSlots,        \* listener slots
    Listen,        \* REAC_KNOCK_LISTEN_NS in polls: silence that licenses a knock
    Retry,         \* REAC_IFSCAN_RETRY_NS in polls
    DownHold,      \* REAC_IFSCAN_DOWN_HOLD_NS in polls
    EmptyQuiet,    \* REAC_EMPTY_MASTER_QUIET_NS in polls
    Follow,        \* REACPW_FOLLOWS_NOBODY_TICKS, with the heard latch's quiet ticks before it
    Reclass,       \* REACPW_TRUNK_RECLASSIFY_NS in polls
    QMax,          \* bound: events netlink may queue between two polls
    OpenMayFail,   \* may listener_open or the knock's socket fail
    Requests,      \* may the operator ask for another rate or role
    Tagged         \* may an interface turn out to be a trunk's parent

\* A link that stays once it is up, one that goes down and comes back, an interface that
\* is removed and added besides.
Links == {"steady", "flaps", "usb"}

ASSUME HearingAssumption ==
    /\ IsFiniteSet(Ifaces)
    /\ Settings \subseteq [pin : [Ifaces -> Pins], link : [Ifaces -> Links]]
    /\ Wires \subseteq SUBSET Gear /\ {} \in Wires
    /\ NSlots \in Nat
    /\ {Listen, Retry, DownHold, EmptyQuiet, Follow, Reclass} \subseteq Nat \ {0}
    /\ QMax \in Nat
    /\ {OpenMayFail, Requests, Tagged} \subseteq BOOLEAN

VARIABLES
    pin, link,               \* the role the conf gives each interface, and its link's character
    carrier, wire, tagged,   \* the world: link, gear on the wire, VLAN tags on it
    ask,                     \* the operator's pending request
    scan, hold, retry, evq,  \* reac_ifscan: state, hold and retry left, event queue
    sn,                      \* the sniffers, with their hunt and their knock
    lis, past,               \* the listeners; is its master past PROBING
    tag,                     \* the topology tap, its row and the age of its last tag
    phase, todo              \* the pass that is running, interfaces it has yet to see

world   == <<pin, link, carrier, wire, tagged>>
ifscan  == <<scan, hold, retry, evq>>
serving == <<lis, past>>
where   == <<phase, todo>>
vars    == <<world, ask, ifscan, sn, serving, tag, where>>

-----------------------------------------------------------------------------
(* The state.                                                              *)

ScanStates == {"DOWN", "LINKED", "SEGMENT", "HOLD"}
Verbs      == {"LISTEN", "UNLISTEN", "SERVE", "DROP", "KEPT"}
Knocks     == {"LISTENING", "KNOCKING", "ANSWERED", "TRUNK"}
Kinds      == {"none", "vacant", "refused", "tap", "slave", "join", "master"}
Asks       == {"none", "rate", "role"}
Phases     == {"idle", "requests", "hunt", "join", "reevaluate", "rehear", "yield",
               "tick", "apply", "topo"}

\* struct sniffer: the capture, the hunt (seen, opened, anchored, verdict, proven), the
\* watch, and the knock (kw, tx, answer, quiet).
Sniffers ==
    [open     : BOOLEAN,
     seen     : [Gear -> 0..Stale],
     opened   : 0..Stale,        \* age of the hunt's window
     anchored : BOOLEAN,         \* has the window been anchored on a first sighting
     verdict  : Verdicts,
     proven   : BOOLEAN,         \* hunt.silence_proven
     watched  : BOOLEAN,
     said     : BOOLEAN,         \* undecided_said
     kw       : Knocks,
     tx       : BOOLEAN,         \* knock_tx_open
     answer   : BOOLEAN,         \* kw.n_answer > 0
     quiet    : 0..Listen]       \* polls since the last frame

\* memset, and reac_hunt_init on a socket that has heard nothing.
Closed ==
    [open |-> FALSE, seen |-> [g \in Gear |-> Stale], opened |-> 0, anchored |-> FALSE,
     verdict |-> "HUNTING", proven |-> FALSE, watched |-> FALSE, said |-> FALSE,
     kw |-> "LISTENING", tx |-> FALSE, answer |-> FALSE, quiet |-> 0]

Fresh == [Closed EXCEPT !.open = TRUE]

\* struct listener: what is served, follows_nobody_ticks or the empty master's quiet,
\* empty_open and empty.was_past.
Listeners == [kind : Kinds, ticks : 0..(Follow + EmptyQuiet), open : BOOLEAN, was : BOOLEAN]

Listener(kind) == [kind |-> kind, ticks |-> 0, open |-> FALSE, was |-> FALSE]

Served(i)  == lis[i].kind # "none"
Doors      == {"vacant", "refused"}
Followers  == {"tap", "slave", "join"}
OnWire(i)  == IF carrier[i] THEN wire[i] ELSE {}

\* struct topo_tap and the parent's row of reac_topo: is the tap open, has it ever heard a
\* tag, and how long ago (counted from the link-up while this tap has heard none).
Taps  == [open : BOOLEAN, row : BOOLEAN, age : 0..Reclass]
NoTap == [open |-> FALSE, row |-> FALSE, age |-> Reclass]

\* topo_trunk_now: without a tap the row's word stands.
Trunk(i) == tag[i].row /\ (~tag[i].open \/ tag[i].age < Reclass)

TypeOK ==
    /\ [pin |-> pin, link |-> link] \in Settings
    /\ carrier \in [Ifaces -> BOOLEAN]
    /\ wire \in [Ifaces -> Wires]
    /\ tagged \in [Ifaces -> BOOLEAN]
    /\ ask \in [Ifaces -> Asks]
    /\ scan \in [Ifaces -> ScanStates]
    /\ hold \in [Ifaces -> 0..DownHold]
    /\ retry \in [Ifaces -> 0..Retry]
    /\ evq \in Seq(Verbs \X Ifaces)
    /\ sn \in [Ifaces -> Sniffers]
    /\ lis \in [Ifaces -> Listeners]
    /\ past \in [Ifaces -> BOOLEAN]
    /\ tag \in [Ifaces -> Taps]
    /\ phase \in Phases
    /\ todo \in SUBSET Ifaces

\* The daemon has started (hearing_start): nothing is linked yet, nothing is served.
Init ==
    /\ \E set \in Settings : pin = set.pin /\ link = set.link
    /\ carrier = [i \in Ifaces |-> FALSE]
    /\ wire \in [Ifaces -> Wires]
    /\ tagged = [i \in Ifaces |-> FALSE]
    /\ ask = [i \in Ifaces |-> "none"]
    /\ scan = [i \in Ifaces |-> "DOWN"]
    /\ hold = [i \in Ifaces |-> 0]
    /\ retry = [i \in Ifaces |-> 0]
    /\ evq = <<>>
    /\ sn = [i \in Ifaces |-> Closed]
    /\ lis = [i \in Ifaces |-> Listener("none")]
    /\ past = [i \in Ifaces |-> FALSE]
    /\ tag = [i \in Ifaces |-> NoTap]
    /\ phase = "idle" /\ todo = {}

-----------------------------------------------------------------------------
(* The scan's table, libreac's reac_ifscan.  q is the queue it appends to. *)

LinkUp(i) ==
    \/ /\ scan[i] = "DOWN"
       /\ scan' = [scan EXCEPT ![i] = "LINKED"]
       /\ retry' = [retry EXCEPT ![i] = 0]
       /\ evq' = Append(evq, <<"LISTEN", i>>)
       /\ UNCHANGED hold
    \/ /\ scan[i] = "HOLD"
       /\ scan' = [scan EXCEPT ![i] = "SEGMENT"]
       /\ evq' = Append(evq, <<"KEPT", i>>)
       /\ UNCHANGED <<hold, retry>>
    \/ /\ scan[i] \in {"LINKED", "SEGMENT"}
       /\ UNCHANGED ifscan

LinkDown(i) ==
    \/ /\ scan[i] = "LINKED"
       /\ scan' = [scan EXCEPT ![i] = "DOWN"]
       /\ evq' = Append(evq, <<"UNLISTEN", i>>)
       /\ UNCHANGED <<hold, retry>>
    \/ /\ scan[i] = "SEGMENT"
       /\ scan' = [scan EXCEPT ![i] = "HOLD"]
       /\ hold' = [hold EXCEPT ![i] = DownHold]
       /\ UNCHANGED <<retry, evq>>
    \/ /\ scan[i] \in {"DOWN", "HOLD"}
       /\ UNCHANGED ifscan

\* reac_ifscan_gone: the interface is removed; what it had is dropped at once.
Gone(i) ==
    /\ scan' = [scan EXCEPT ![i] = "DOWN"]
    /\ evq' = IF scan[i] \in {"SEGMENT", "HOLD"} THEN Append(evq, <<"DROP", i>>)
              ELSE IF scan[i] = "LINKED" THEN Append(evq, <<"UNLISTEN", i>>)
              ELSE evq
    /\ UNCHANGED <<hold, retry>>

\* reac_ifscan_heard
HeardSegment(i) ==
    /\ scan' = [scan EXCEPT ![i] = "SEGMENT"]
    /\ evq' = Append(evq, <<"SERVE", i>>)
    /\ UNCHANGED <<hold, retry>>

\* reac_ifscan_serve_failed: a segment that is not served is listened to again.
ServeFailed(i, q) ==
    \/ /\ scan[i] \in {"SEGMENT", "HOLD"}
       /\ scan' = [scan EXCEPT ![i] = "LINKED"]
       /\ retry' = [retry EXCEPT ![i] = Retry]
       /\ evq' = Append(q, <<"LISTEN", i>>)
       /\ UNCHANGED hold
    \/ /\ scan[i] \notin {"SEGMENT", "HOLD"}
       /\ evq' = q
       /\ UNCHANGED <<scan, hold, retry>>

-----------------------------------------------------------------------------
(* hearing_serve and hearing_drop.                                         *)

\* segment_defers_as_tap: a desk on the wire is tapped unless the conf says otherwise.
DefersAsTap(i, rival) == rival = "desk" /\ pin[i] \in {"auto", "master"}

\* What a serve opens, from the verdict it is given.
ServeKind(i, verdict, rival) ==
    IF pin[i] = "tap" \/ DefersAsTap(i, rival) THEN "tap"
    ELSE IF verdict = "HUNTING" THEN "vacant"
    ELSE IF verdict = "REFUSED" THEN "refused"
    ELSE IF verdict = "SLAVE" /\ rival = "boxm" THEN "join"
    ELSE IF pin[i] = "slave" \/ verdict = "SLAVE" THEN "slave"
    ELSE "master"

SlotFree(i) == Cardinality({j \in Ifaces \ {i} : Served(j)}) < NSlots

\* Mutant of Serve: the scan is not told that the serve failed.
ServeUntold(i, verdict, rival, q) ==
    /\ past' = [past EXCEPT ![i] = FALSE]
    /\ evq' = q
    /\ UNCHANGED <<scan, hold, retry>>
    /\ \/ /\ SlotFree(i)
          /\ lis' = [lis EXCEPT ![i] = Listener(ServeKind(i, verdict, rival))]
       \/ /\ OpenMayFail \/ ~SlotFree(i)
          /\ lis' = [lis EXCEPT ![i] = Listener("none")]

\* hearing_serve on an interface with no open listener, or one just dropped: a slot and a
\* listener that opens, or reac_ifscan_serve_failed.
Serve(i, verdict, rival, q) ==
    /\ past' = [past EXCEPT ![i] = FALSE]
    /\ \/ /\ SlotFree(i)
          /\ lis' = [lis EXCEPT ![i] = Listener(ServeKind(i, verdict, rival))]
          /\ evq' = q
          /\ UNCHANGED <<scan, hold, retry>>
       \/ /\ OpenMayFail \/ ~SlotFree(i)
          /\ lis' = [lis EXCEPT ![i] = Listener("none")]
          /\ ServeFailed(i, q)

\* hearing_drop
Drop(i) ==
    /\ lis' = [lis EXCEPT ![i] = Listener("none")]
    /\ past' = [past EXCEPT ![i] = FALSE]

\* Mutant of Rehear: the listener is left open.
RehearKept(i) ==
    /\ sn' = [sn EXCEPT ![i] = Fresh]
    /\ ServeFailed(i, evq)
    /\ UNCHANGED serving

\* The seam by which a segment is heard afresh: hearing_drop, sniffer_close,
\* sniffer_open_ex, reac_ifscan_serve_failed.
Rehear(i) ==
    /\ Drop(i)
    /\ sn' = [sn EXCEPT ![i] = Fresh]
    /\ ServeFailed(i, evq)

-----------------------------------------------------------------------------
(* Time and frames.                                                        *)

Older(age, bar) == IF age < bar THEN age + 1 ELSE bar

\* Frames a knock takes for an answer: the ones whose role is not UNKNOWN.
Evidence == {"box", "boxm", "desk", "unknown"}

\* Mutant of Drain: the answer is kept, and the knock's socket is not closed on it.
DrainNotHushed(s, gear) ==
    LET answered == s.kw = "KNOCKING" /\ gear \cap Evidence # {}
        first    == gear # {} /\ ~s.anchored
    IN  [s EXCEPT !.seen     = [g \in Gear |-> IF g \in gear THEN 0 ELSE Older(@[g], Stale)],
                  !.opened   = IF first THEN 0 ELSE Older(@, Stale),
                  !.anchored = @ \/ gear # {},
                  !.proven   = @ \/ answered,
                  !.kw       = IF answered THEN "ANSWERED" ELSE @,
                  !.answer   = @ \/ answered,
                  !.quiet    = IF gear # {} THEN 0 ELSE Older(@, Listen)]

\* sniffer_drain over one poll's frames, gear being what talked: reac_hunt_observe, and
\* reac_knock_wire_heard with what follows when the knock is answered.
Drain(s, gear) ==
    LET answered == s.kw = "KNOCKING" /\ gear \cap Evidence # {}
        first    == gear # {} /\ ~s.anchored
    IN  [open     |-> s.open,
         seen     |-> [g \in Gear |-> IF g \in gear THEN 0 ELSE Older(s.seen[g], Stale)],
         opened   |-> IF first THEN 0 ELSE Older(s.opened, Stale),
         anchored |-> s.anchored \/ gear # {},
         verdict  |-> s.verdict,
         proven   |-> s.proven \/ answered,
         watched  |-> s.watched,
         said     |-> s.said,
         kw       |-> IF answered THEN "ANSWERED" ELSE s.kw,
         tx       |-> s.tx /\ ~answered,
         answer   |-> \/ answered
                      \/ s.answer
                      \/ s.kw = "ANSWERED" /\ gear \cap Evidence # {},
         quiet    |-> IF gear # {} THEN 0 ELSE Older(s.quiet, Listen)]

\* on_topo_io over one poll's frames.
TapRead(t, tags) ==
    IF t.open /\ tags THEN [t EXCEPT !.row = TRUE, !.age = 0]
    ELSE [t EXCEPT !.age = Older(@, Reclass)]

\* topo_watch_iface opens a tap where there is none, topo_unwatch_iface closes it and keeps
\* the row.
TapOpened(t) ==
    IF t.open THEN t ELSE [t EXCEPT !.open = TRUE, !.age = IF t.row THEN 0 ELSE Reclass]
TapClosed(t) == [t EXCEPT !.open = FALSE, !.age = Reclass]

\* A poll's worth of time passes and on_rate_reopen_timer fires.
BeginPoll ==
    /\ phase = "idle"
    /\ phase' = "requests" /\ todo' = Ifaces
    /\ hold' = [i \in Ifaces |-> IF hold[i] > 0 THEN hold[i] - 1 ELSE 0]
    /\ retry' = [i \in Ifaces |-> IF retry[i] > 0 THEN retry[i] - 1 ELSE 0]
    /\ sn' = [i \in Ifaces |-> IF sn[i].open THEN Drain(sn[i], OnWire(i)) ELSE sn[i]]
    /\ tag' = [i \in Ifaces |-> TapRead(tag[i], tagged[i] /\ carrier[i])]
    /\ UNCHANGED <<world, ask, scan, evq, serving>>

\* One pass over the interfaces, and the pass that follows it.
Turn(p, i) == phase = p /\ i \in todo /\ todo' = todo \ {i} /\ UNCHANGED phase

After == [requests |-> "hunt", hunt |-> "join", join |-> "reevaluate",
          reevaluate |-> "rehear", rehear |-> "yield", yield |-> "tick", tick |-> "apply",
          apply |-> "topo", topo |-> "idle"]

NextPass ==
    /\ phase # "idle" /\ todo = {}
    /\ phase = "apply" => evq = <<>>
    /\ phase' = After[phase]
    /\ todo' = IF phase' \in {"idle", "apply"} THEN {} ELSE Ifaces
    /\ UNCHANGED <<world, ask, ifscan, sn, serving, tag>>

-----------------------------------------------------------------------------
(* on_rate_reopen_timer, the operator's requests.                          *)

\* A role request of a listener that has a door to ask at: the wire is heard afresh
\* (listener_reopen_role_reclassify).  A rate request of a running master: the listener
\* is closed and opened (listener_reopen_at_rate), and when that fails nobody is told.
\* A tap has no door; a request that is not taken dies with the node it was made of.
TakeRequest(i) ==
    /\ Turn("requests", i)
    /\ \/ /\ ask[i] = "role" /\ lis[i].kind \notin {"none", "tap"}
          /\ Rehear(i)
       \/ /\ ask[i] = "rate" /\ lis[i].kind = "master"
          /\ \/ lis' = [lis EXCEPT ![i] = Listener("master")]
             \/ OpenMayFail /\ lis' = [lis EXCEPT ![i] = Listener("none")]
          /\ past' = [past EXCEPT ![i] = FALSE]
          /\ UNCHANGED <<ifscan, sn>>
       \/ /\ \/ ask[i] = "none"
             \/ ask[i] = "role" /\ lis[i].kind \in {"none", "tap"}
             \/ ask[i] = "rate" /\ lis[i].kind # "master"
          /\ UNCHANGED <<ifscan, sn, serving>>
    /\ ask' = [ask EXCEPT ![i] = "none"]
    /\ UNCHANGED <<world, tag>>

-----------------------------------------------------------------------------
(* hearing_hunt.                                                           *)

\* Mutant of KnockStep: silence itself is the licence to drive.
KnockStepDrives(s, ok) ==
    IF s.kw # "KNOCKING" /\ s.quiet >= Listen
    THEN [s EXCEPT !.kw = "KNOCKING", !.answer = FALSE, !.tx = ok, !.proven = TRUE]
    ELSE s

\* reac_knock_wire_step on a wire that is no trunk; ok: the knock's socket opened.
KnockStep(s, ok) ==
    IF s.kw = "TRUNK"
    THEN [s EXCEPT !.kw = "LISTENING", !.quiet = 0]
    ELSE IF s.kw # "KNOCKING" /\ s.quiet >= Listen
    THEN [s EXCEPT !.kw = "KNOCKING", !.answer = FALSE, !.tx = ok]
    ELSE s

\* The step's verdict; only a MASTER verdict sets the watch.
HuntStep(s, role) ==
    LET v == Arbitrate(s.seen, s.opened, s.proven, role)
    IN  [s EXCEPT !.verdict = v,
                  !.watched = IF v = "MASTER" THEN Keep("MASTER", Pinned(role)) ELSE @]

\* A wire that talks and that nothing decides is served once, as a vacant door.
Undecided(s, role) ==
    s.verdict = "HUNTING" /\ ~s.said /\ ~Pinned(role) /\ Heard(s.seen) /\ s.opened >= Window

\* hearing_hunt.  The sniffer and the tap are read together here, so a frame the tap has not
\* classified yet, for which the code waits (reac_tapwait_binds), does not occur.
HearingHunt(i) ==
    /\ Turn("hunt", i)
    /\ \/ /\ sn[i].open /\ scan[i] = "LINKED" /\ Trunk(i)
          /\ sn' = IF pin[i] = "auto"
                   THEN [sn EXCEPT ![i].kw = "TRUNK", ![i].tx = FALSE] ELSE sn
          /\ UNCHANGED ifscan
       \/ /\ sn[i].open /\ scan[i] = "LINKED" /\ ~Trunk(i) /\ retry[i] = 0
          /\ pin[i] = "tap"
          /\ HeardSegment(i)
          /\ UNCHANGED sn
       \/ /\ sn[i].open /\ scan[i] = "LINKED" /\ ~Trunk(i) /\ retry[i] = 0
          /\ pin[i] # "tap"
          /\ \E ok \in {TRUE, ~OpenMayFail} :
                LET k == IF pin[i] = "auto" THEN KnockStep(sn[i], ok) ELSE sn[i]
                    s == HuntStep(k, pin[i])
                    u == Undecided(s, pin[i])
                IN  /\ sn' = [sn EXCEPT ![i] = [s EXCEPT !.said = @ \/ u]]
                    /\ \/ (s.verdict # "HUNTING" \/ u) /\ HeardSegment(i)
                       \/ s.verdict = "HUNTING" /\ ~u /\ UNCHANGED ifscan
       \/ /\ ~sn[i].open \/ scan[i] # "LINKED" \/ (~Trunk(i) /\ retry[i] > 0)
          /\ UNCHANGED <<ifscan, sn>>
    /\ UNCHANGED <<world, ask, serving, tag>>

-----------------------------------------------------------------------------
(* The passes over the listeners.                                          *)

\* hearing_join_box_master_on_pinned: the engine of a pinned master that has no box of
\* its own reports a stagebox on M.
JoinBoxMasterOnPinned(i) ==
    /\ Turn("join", i)
    /\ \/ /\ lis[i].kind = "master" /\ pin[i] = "master"
          /\ "boxm" \in OnWire(i) /\ ~past[i]
          /\ Serve(i, "SLAVE", "boxm", evq)
       \/ /\ ~(lis[i].kind = "master" /\ pin[i] = "master"
               /\ "boxm" \in OnWire(i) /\ ~past[i])
          /\ UNCHANGED <<ifscan, serving>>
    /\ UNCHANGED <<world, ask, sn, tag>>

\* hearing_reevaluate asks whether its master's frames still pass the segment's own RX
\* gate: a tap and a slave take downstream, a join takes the stagebox's upstream only.
HeardBy(kind) == IF kind = "join" THEN {"boxm"} ELSE {"desk", "pending"}

\* Mutants of Follows: a tap is never re-heard, a pinned recorder is not exempt.
FollowsUntapped(i) == lis[i].kind \in Followers \ {"tap"} /\ pin[i] # "slave"
FollowsAll(i)      == lis[i].kind \in Followers

Follows(i)  == lis[i].kind \in Followers /\ pin[i] # "slave"
Deserted(i) == OnWire(i) \cap HeardBy(lis[i].kind) = {}

HearingReevaluate(i) ==
    /\ Turn("reevaluate", i)
    /\ \/ /\ Follows(i) /\ Deserted(i) /\ lis[i].ticks + 1 >= Follow
          /\ Rehear(i)
       \/ /\ Follows(i) /\ Deserted(i) /\ lis[i].ticks + 1 < Follow
          /\ lis' = [lis EXCEPT ![i].ticks = @ + 1]
          /\ UNCHANGED <<ifscan, sn, past>>
       \/ /\ Follows(i) /\ ~Deserted(i)
          /\ lis' = [lis EXCEPT ![i].ticks = 0]
          /\ UNCHANGED <<ifscan, sn, past>>
       \/ /\ ~Follows(i)
          /\ UNCHANGED <<ifscan, sn, serving>>
    /\ UNCHANGED <<world, ask, tag>>

\* reac_empty_master_step on a master nobody pinned: what it leaves, and whether the
\* master streams at nobody.
BoxTalks(i) == OnWire(i) \cap {"box", "flood"} # {}

EmptyStep(l, talks, pastProbing) ==
    [l EXCEPT !.was = @ \/ pastProbing,
              !.ticks = IF talks \/ pastProbing THEN 0 ELSE Older(@, EmptyQuiet)]

Empty(l, pastProbing) == ~pastProbing /\ (l.was \/ l.ticks >= EmptyQuiet)

HearingRehearEmptyMasters(i) ==
    LET e == EmptyStep(lis[i], BoxTalks(i), past[i])
        auto == lis[i].kind = "master" /\ ~Pinned(pin[i])
    IN  /\ Turn("rehear", i)
        /\ \/ /\ auto /\ ~lis[i].open
              /\ lis' = [lis EXCEPT ![i] = [Listener("master") EXCEPT !.open = TRUE]]
              /\ UNCHANGED <<ifscan, sn, past>>
           \/ /\ auto /\ lis[i].open /\ Empty(e, past[i])
              /\ Rehear(i)
           \/ /\ auto /\ lis[i].open /\ ~Empty(e, past[i])
              /\ lis' = [lis EXCEPT ![i] = e]
              /\ UNCHANGED <<ifscan, sn, past>>
           \/ /\ ~auto
              /\ UNCHANGED <<ifscan, sn, serving>>
        /\ UNCHANGED <<world, ask, tag>>

\* hearing_yield: the sniffers that were kept, and what a change of verdict does.
HearingYield(i) ==
    LET s == sn[i]
        v == Arbitrate(s.seen, s.opened, s.proven, pin[i])
        act == Decide(lis[i].kind \in Doors, lis[i].kind = "vacant",
                      lis[i].kind = "master", Pinned(pin[i]), v, s.opened)
        looked == s.open /\ Served(i) /\ (lis[i].kind \in Doors \/ s.watched)
    IN  /\ Turn("yield", i)
        /\ \/ /\ looked /\ v # s.verdict
              /\ sn' = [sn EXCEPT ![i].verdict = v]
              /\ \/ act = "STAND" /\ UNCHANGED <<ifscan, serving>>
                 \/ act # "STAND" /\ Serve(i, v, Rival(s.seen), evq)
           \/ /\ ~looked \/ v = s.verdict
              /\ UNCHANGED <<ifscan, sn, serving>>
        /\ UNCHANGED <<world, ask, tag>>

\* reac_ifscan_tick
IfscanTick(i) ==
    /\ Turn("tick", i)
    /\ \/ /\ scan[i] = "HOLD" /\ hold[i] = 0
          /\ scan' = [scan EXCEPT ![i] = "DOWN"]
          /\ evq' = Append(evq, <<"DROP", i>>)
          /\ UNCHANGED <<hold, retry>>
       \/ /\ ~(scan[i] = "HOLD" /\ hold[i] = 0)
          /\ UNCHANGED ifscan
    /\ UNCHANGED <<world, ask, sn, serving, tag>>

-----------------------------------------------------------------------------
(* hearing_apply, one event.                                               *)

\* The verdict is read before its sniffer is closed.  With no sniffer to read, the segment is
\* opened on the conf's word alone, and listener_cfg_defaults says master.
ApplyServe(i) ==
    LET s == sn[i]
    IN  /\ sn' = [sn EXCEPT ![i] =
                    IF ~(s.open /\ Keep(s.verdict, Pinned(pin[i]))) THEN Closed
                    ELSE IF s.answer
                    THEN [s EXCEPT !.answer = FALSE,
                                   !.kw = IF @ = "ANSWERED" THEN "LISTENING" ELSE @]
                    ELSE s]
        /\ \/ /\ ~Served(i)
              /\ Serve(i, IF s.open THEN s.verdict ELSE "MASTER", Rival(s.seen), Tail(evq))
           \/ /\ Served(i)
              /\ evq' = Tail(evq)
              /\ UNCHANGED <<scan, hold, retry, serving>>
        /\ UNCHANGED tag

ApplyDrop(i) ==
    /\ Drop(i)
    /\ sn' = [sn EXCEPT ![i] = Closed]
    /\ tag' = [tag EXCEPT ![i] = NoTap]           \* topo_forget_iface

HearingApply ==
    /\ phase = "apply" /\ evq # <<>>
    /\ LET verb == Head(evq)[1]
           i    == Head(evq)[2]
       IN  \/ /\ verb = "SERVE"
              /\ ApplyServe(i)
           \/ /\ verb # "SERVE"
              /\ evq' = Tail(evq)
              /\ UNCHANGED <<scan, hold, retry>>
              /\ \/ /\ verb = "LISTEN"
                    /\ sn' = IF sn[i].open THEN sn ELSE [sn EXCEPT ![i] = Fresh]
                    /\ tag' = [tag EXCEPT ![i] = TapOpened(@)]
                    /\ UNCHANGED serving
                 \/ /\ verb = "UNLISTEN"
                    /\ sn' = [sn EXCEPT ![i] = Closed]
                    /\ tag' = [tag EXCEPT ![i] = TapClosed(@)]
                    /\ UNCHANGED serving
                 \/ /\ verb = "DROP"
                    /\ ApplyDrop(i)
                 \/ /\ verb = "KEPT"
                    /\ UNCHANGED <<sn, serving, tag>>
    /\ UNCHANGED <<world, ask, where>>

\* topo_apply: a trunk's parent is not a segment.  It goes through the open taps.
TopoApply(i) ==
    /\ Turn("topo", i)
    /\ \/ tag[i].open /\ Trunk(i) /\ Served(i) /\ Drop(i)
       \/ ~(tag[i].open /\ Trunk(i) /\ Served(i)) /\ UNCHANGED serving
    /\ UNCHANGED <<world, ask, ifscan, sn, tag>>

-----------------------------------------------------------------------------
(* Between two polls: the cable, the gear, the operator, the engine.       *)

Idle == phase = "idle" /\ UNCHANGED <<where, tag, sn>>

CarrierUp(i) ==
    /\ Idle /\ ~carrier[i] /\ Len(evq) < QMax
    /\ carrier' = [carrier EXCEPT ![i] = TRUE]
    /\ LinkUp(i)
    /\ UNCHANGED <<pin, link, wire, tagged, ask, serving>>

CarrierDown(i) ==
    /\ Idle /\ carrier[i] /\ Len(evq) < QMax
    /\ carrier' = [carrier EXCEPT ![i] = FALSE]
    /\ \/ link[i] # "steady" /\ LinkDown(i)
       \/ link[i] = "usb" /\ Gone(i)
    /\ UNCHANGED <<pin, link, wire, tagged, ask, serving>>

WireMoves(i) ==
    /\ Idle
    /\ \E w \in Wires \ {wire[i]} : wire' = [wire EXCEPT ![i] = w]
    /\ UNCHANGED <<pin, link, carrier, tagged, ask, ifscan, serving>>

TagsMove(i) ==
    /\ Idle /\ Tagged
    /\ tagged' = [tagged EXCEPT ![i] = ~@]
    /\ UNCHANGED <<pin, link, carrier, wire, ask, ifscan, serving>>

Ask(i) ==
    /\ Idle /\ Requests /\ Served(i) /\ ask[i] = "none"
    /\ \E r \in {"rate", "role"} : ask' = [ask EXCEPT ![i] = r]
    /\ UNCHANGED <<world, ifscan, serving>>

\* libreac's master grants a box that talks, and gives up one that has gone.
MasterMoves(i) ==
    /\ Idle /\ lis[i].kind = "master"
    /\ past[i] # BoxTalks(i)
    /\ past' = [past EXCEPT ![i] = ~@]
    /\ UNCHANGED <<world, ask, ifscan, lis>>

Poll(i) ==
    \/ TakeRequest(i) \/ HearingHunt(i) \/ JoinBoxMasterOnPinned(i) \/ HearingReevaluate(i)
    \/ HearingRehearEmptyMasters(i) \/ HearingYield(i) \/ IfscanTick(i) \/ TopoApply(i)

Daemon == BeginPoll \/ NextPass \/ HearingApply \/ \E i \in Ifaces : Poll(i)

World ==
    \E i \in Ifaces : CarrierUp(i) \/ CarrierDown(i) \/ WireMoves(i) \/ TagsMove(i) \/ Ask(i)
                      \/ MasterMoves(i)

Next == Daemon \/ World

\* The main loop runs its timer; an engine grants the box it hears and gives up the one
\* it has lost, however its own moments fall between the polls.
Fairness == WF_vars(Daemon) /\ \A i \in Ifaces : SF_vars(MasterMoves(i))

Spec == Init /\ [][Next]_vars /\ Fairness

-----------------------------------------------------------------------------
(* Safety.                                                                 *)

Queued(verb, i) == \E k \in 1..Len(evq) : evq[k] = <<verb, i>>

\* A listener is never left behind on an interface the scan has given up: whatever netlink
\* did since the last poll, and whichever pass re-served, re-heard or failed to serve the
\* segment, the scan still has it as a segment or has queued the DROP that closes it
\* (hearing_apply 4533-4550).  A listener without either is closed by nobody.  An interface
\* that is removed and added again between two polls is excepted: the SERVE its hunt queued
\* behind the DROP outlives the pass that puts the scan back to LINKED.
ServedIsTracked ==
    \A i \in Ifaces :
        Served(i) /\ link[i] # "usb" => scan[i] \in {"SEGMENT", "HOLD"} \/ Queued("DROP", i)

\* A segment that follows somebody has no knock of ours on it: whoever it follows ended
\* the knock, also when the sniffer was kept across a yield (sniffer_drain 3306-3323,
\* hearing_yield 4955-4981, hearing_hunt 4766: "transmitting nothing at all").  An interface
\* that is removed and added again between two polls is excepted: its DROP is answered by an
\* UNLISTEN that closes no listener.
FollowerIsQuiet ==
    \A i \in Ifaces : lis[i].kind \in Followers /\ link[i] # "usb" => ~sn[i].tx

\* "No segment is ever streamed at before a box answered on it, in any case" (KNOCK.md,
\* README 152-159): a segment nobody pinned becomes a master only while the sniffer that
\* decides it has a box in its table, through every yield, retake and re-hearing.
StreamNeedsBox ==
    [][\A i \in Ifaces :
          lis[i].kind # "master" /\ lis'[i].kind = "master" /\ pin[i] = "auto" =>
              Live(sn[i].seen, "box") \/ Live(sn[i].seen, "flood")]_vars

\* "Every segment we took on a wire nobody pinned is watched here (its sniffer is the one
\* that was kept)" (hearing_yield 4885): while we drive it, its sniffer is open and
\* hearing_yield looks at it, or the interface is on its way out.
MasterIsWatched ==
    \A i \in Ifaces :
        lis[i].kind = "master" /\ pin[i] = "auto" =>
            (sn[i].open /\ sn[i].watched) \/ Queued("DROP", i)

-----------------------------------------------------------------------------
(* Liveness.                                                               *)

Steady(i, P(_)) == <>[](carrier[i] /\ P(wire[i]))

\* A desk that stays on a wire nobody pinned ends up tapped, however the segment was
\* served before it came: driven, joined, refused or not at all (hearing_yield 4955-4981,
\* segment_defers_as_tap; README 151: "a desk mastering it is tapped").  The link must not
\* bounce: the serve of a sniffer that a bounce has emptied leaves a door nobody watches.
DeskIsTapped ==
    \A i \in Ifaces :
        pin[i] = "auto" /\ link[i] = "steady" /\ Steady(i, LAMBDA w : "desk" \in w)
            => <>[](lis[i].kind = "tap")

\* A box that is alone on a wire nobody pinned is mastered, and a yield is not a one-way
\* door: the desk or the stagebox on M that was there before has no hold on the segment
\* (hearing_reevaluate, hearing_yield 4982-4994, "taking the segment back as MASTER").  An
\* interface that is removed and added again between two polls is excepted.
BoxIsMastered ==
    \A i \in Ifaces :
        pin[i] = "auto" /\ link[i] # "usb" /\ Steady(i, LAMBDA w : w = {"box"})
            => <>[](lis[i].kind = "master")

\* An interface the scan has as a SEGMENT is not left unserved for good: hearing_hunt skips
\* it, so nothing but a listener or reac_ifscan_serve_failed ever moves it on.  Every way to
\* end a serve without a listener must tell the scan: no slot free (main.c 3643), an open
\* that failed (3780), a re-hearing (5145, 5203).  The two ways that do not, a rate or role
\* re-open that fails and a trunk's parent, are not in it: it is checked without Requests
\* and without Tagged.
SegmentIsServed ==
    \A i \in Ifaces :
        (scan[i] = "SEGMENT" /\ ~Served(i) /\ ~Trunk(i)) ~>
            (scan[i] # "SEGMENT" \/ Served(i) \/ Trunk(i))

\* A pin is honoured.  A pinned master defers to the wire and takes its pin up again: with
\* a stagebox on M it joins it, and with nobody else mastering the wire it drives it
\* (hearing_join_box_master_on_pinned, hearing_reevaluate 5119-5145).  A pinned recorder is
\* published whatever the wire carries: a slave stays up on a silent wire ("A PINNED RECORDER
\* IS EXEMPT", 5094-5104), and a tap, which is not exempt, comes back from every re-hearing
\* (hearing_hunt 4683-4693).
PinIsHonoured ==
    \A i \in Ifaces :
        /\ pin[i] = "master" =>
             /\ Steady(i, LAMBDA w : w = {"boxm"}) => <>[](lis[i].kind = "join")
             /\ Steady(i, LAMBDA w : w \subseteq {"box", "flood"}) => <>[](lis[i].kind = "master")
        /\ pin[i] = "slave" /\ Steady(i, LAMBDA w : TRUE)
             => <>[](lis[i].kind \in {"slave", "join"})
        /\ pin[i] = "tap" /\ Steady(i, LAMBDA w : TRUE) => []<>(lis[i].kind = "tap")

\* A segment that found every slot taken, or whose open failed, is served once a slot is
\* free and an open works: the retry of reac_ifscan_serve_failed keeps its sniffer, its
\* verdict and its turn (hearing_serve 3640-3645, 3776-3782, hearing_hunt 4673).  From some
\* time on no retry clock is set while a slot is free, which is an open that failed.
SlotIsPassedOn ==
    \A i \in Ifaces :
        (/\ pin[i] = "auto" /\ Steady(i, LAMBDA w : w = {"box"})
         /\ <>[](retry[i] = Retry => ~SlotFree(i))
         /\ \A j \in Ifaces \ {i} : pin[j] = "auto" /\ <>[](wire[j] = {}))
            => <>[](lis[i].kind = "master")
=============================================================================
