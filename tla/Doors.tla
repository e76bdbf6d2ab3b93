-------------------------------- MODULE Doors --------------------------------
(***************************************************************************)
(* The settings door of one segment.  A controller writes `reac.cfg.rate`,  *)
(* `reac.cfg.role` and `reac.headamp.*` into the Props of the node that is  *)
(* the segment's door (sink_door_assert, reac_sink_node.c; on_param_changed, *)
(* reac_source_node.c); what is accepted waits in the node for the next     *)
(* on_rate_reopen_timer (main.c) or crosses to the pacer thread through its *)
(* command ring; the sink's on_log_timer publishes the answers, each only   *)
(* when it differs from the shadow of what was published last, and the      *)
(* health figures once, when their window closes.                           *)
(*                                                                          *)
(* The door is reac-playback, reac-capture for a box without outputs and    *)
(* for a recorder, and it moves as boxes come and go.  A role change        *)
(* destroys the node it was asked of.  A Props object with several keys is  *)
(* several writes with no timer between them, headamp, rate and role in     *)
(* that order.                                                              *)
(***************************************************************************)
EXTENDS Integers, Sequences

CONSTANTS
    Rates,         \* the closed list of rates
    Drivable,      \* the ones the segment can drive (pacer.drivable_mask)
    RateWrites,    \* the numbers a controller writes, NoRate for one that does not parse
    Cells,         \* head-amp cells: channel and parameter
    RingCap,       \* REAC_HEADAMP_CMD_RING
    Overlong,      \* the states of the discovery table whose JSON does not fit
    Unsaid,        \* a property nobody has published; no cell value
    MaxWrites,     \* bound: Props writes in a behaviour
    MaxMoves,      \* bound: what the box, the engine and the wire do in a behaviour
    MaxFaults      \* bound: nodes lost or refused and segments that do not open

Roles     == {"master", "slave"}
Nodes     == {"snk", "src"}
Keys      == {"rate", "role", "headamp", "disco", "latency"}
Shown     == Keys \cup {"health"}
BoxKinds  == {"none", "mute", "io"}      \* no box; one without outputs; one with
CellVals  == 0..1 \cup {Unsaid}
Figures   == {0, 1, Unsaid}              \* a health window's, told apart from the one before
NoRate    == 0
NoRole    == "none"

ASSUME DoorsAssumption ==
    /\ Rates \subseteq Nat \ {0} /\ Drivable \subseteq Rates /\ Drivable # {}
    /\ RingCap \in Nat \ {0}
    /\ MaxWrites \in Nat /\ MaxMoves \in Nat /\ MaxFaults \in Nat

VARIABLES
    heard,         \* is this a heard segment (hearing_serve), or a --live one
    lis,           \* the listener: opened, cfg.role and forced_rate
    swap,          \* L->role_swap: what was asked, what runs, is an engine up
    pacer,         \* the master engine, or NoPacer
    snk,           \* struct reac_sink_node without its pacer, or NoSink
    src,           \* struct reac_source_node
    shadow,        \* the sink's *_last fields
    shows,         \* the door keys each node carries on the graph
    drops,         \* has the command ring overflowed (pacer.ha_cmd_drops > 0)
    crossed,       \* was a request taken back while it still waited in the node
    spent          \* writes, moves and faults so far

vars == <<heard, lis, swap, pacer, snk, src, shadow, shows, drops, crossed, spent>>

Blank  == [k \in Shown |-> Unsaid]
Unset  == [c \in Cells |-> Unsaid]

\* reac_pacer_open: nothing enrolled, the declared head-amp table empty.
NewPacer(hz) == [rate |-> hz, refused |-> "none", ring |-> <<>>, table |-> Unset,
                 box |-> "none", based |-> FALSE, disco |-> 0, depth |-> 0]
NoPacer      == NewPacer(NoRate)

\* reac_sink_node_new: no stream yet, and nothing asked of it.
NewSink == [made |-> TRUE, stream |-> FALSE, of |-> "none", wantRate |-> NoRate,
            wantRole |-> NoRole, roleRefused |-> FALSE, haRefused |-> "none",
            asserted |-> Unset, health |-> Unsaid]
NoSink  == [NewSink EXCEPT !.made = FALSE]

NewSrc  == [made |-> TRUE, bound |-> FALSE, wantRole |-> NoRole]
NoSrc   == [NewSrc EXCEPT !.made = FALSE]

Spend(what) ==
    /\ spent[what] < (CASE what = "writes" -> MaxWrites [] what = "moves" -> MaxMoves
                        [] what = "faults" -> MaxFaults)
    /\ spent' = [spent EXCEPT ![what] = @ + 1]

TypeOK ==
    /\ heard \in BOOLEAN
    /\ lis \in [open : BOOLEAN, role : Roles, rate : Rates]
    /\ swap \in [asked : Roles, running : Roles, up : BOOLEAN, performing : BOOLEAN]
    /\ pacer.rate \in Rates \cup {NoRate} /\ pacer.box \in BoxKinds
    /\ pacer.ring \in Seq(Cells \X (0..1)) /\ Len(pacer.ring) <= RingCap
    /\ pacer.table \in [Cells -> CellVals] /\ pacer.depth \in 0..1
    /\ snk.health \in Figures
    /\ snk.asserted \in [Cells -> CellVals] /\ snk.wantRate \in Drivable \cup {NoRate}
    /\ snk.wantRole \in Roles \cup {NoRole} /\ src.wantRole \in Roles \cup {NoRole}
    /\ snk.made <=> (lis.open /\ lis.role = "master")
    /\ snk.stream => snk.made
    /\ src.bound => src.made

-----------------------------------------------------------------------------
(* What the segment answers.                                               *)

\* reac_role_swap_state, of the engine's own reading of itself.
RoleState ==
    IF ~swap.up \/ swap.asked # swap.running THEN "pending"
    ELSE IF swap.performing THEN "applied" ELSE "hunting"

\* reac_headamp_cfg_decide, for a segment we master.
HeadampDecide(channels, base) ==
    IF ~channels THEN "no-box" ELSE IF ~base THEN "no-base" ELSE "none"

\* sink_headamp_capability
Capability == HeadampDecide(pacer.box # "none", pacer.based)

\* The properties of each family, as the engine has them now.
Truth(k) ==
    CASE k = "rate"    -> <<pacer.rate, pacer.refused>>
      [] k = "role"    -> <<RoleState, snk.roleRefused>>
      [] k = "headamp" -> <<IF Capability = "none" THEN snk.haRefused ELSE Capability,
                            snk.asserted>>
      [] k = "disco"   -> <<pacer.disco>>
      [] k = "latency" -> <<pacer.depth>>

\* sink_publish_latency: the graph-to-wire delay is a param of the stream, not of the door.
\* A step of pacer.depth is one that reac_lat_poll finds material in the smoothed depth.
Latent(on) == on = "snk"

\* Mutant of Stale: the rate's answer is compared by the rate alone.
StaleByRate(k, on, sh) ==
    /\ IF k = "rate" /\ sh[k] # Unsaid THEN sh[k][1] # pacer.rate ELSE sh[k] # Truth(k)
    /\ k = "disco" => pacer.disco \notin Overlong
    /\ k = "latency" => Latent(on)

\* A family is published when it differs from its shadow; a device list that does not fit
\* is not published at all.
Stale(k, on, sh) ==
    /\ sh[k] # Truth(k)
    /\ k = "disco" => pacer.disco \notin Overlong
    /\ k = "latency" => Latent(on)

\* sink_publish_rate_props, _role_props, _headamp_props, _disco_props and _latency.
Publish(on, sh, shown) ==
    LET moved(k) == k \in Keys /\ Stale(k, on, sh)
    IN  /\ shadow' = [k \in Shown |-> IF moved(k) THEN Truth(k) ELSE sh[k]]
        /\ shows' = [shown EXCEPT ![on] = [k \in Shown |-> IF moved(k) THEN Truth(k)
                                                           ELSE @[k]]]

\* sink_door_capture, sink_has_door
CaptureIsDoor == snk.made /\ ~snk.stream /\ src.made
Door          == IF snk.made /\ snk.stream THEN "snk" ELSE "src"
HasDoor       == IF snk.made THEN snk.stream \/ src.made ELSE src.made

\* A reac-capture that is not bound yet ignores what is written to a master.
Writable      == IF snk.made THEN snk.stream \/ src.bound ELSE src.made

-----------------------------------------------------------------------------
(* The listener.                                                           *)

\* listener_open in a role: a master has its engine and no node yet, a recorder its
\* reac-capture at once, with its answer on it (listener_publish_segment).
PacerOf(role, hz) == IF role = "master" THEN NewPacer(hz) ELSE NoPacer
SinkOf(role)      == IF role = "master" THEN NewSink ELSE NoSink
SrcOf(role)       == IF role = "master" THEN NoSrc ELSE NewSrc

\* reac_source_node_publish_segment
RecorderShows(state) == [Blank EXCEPT !["role"] = <<state, FALSE>>]

\* listener_publish_segment
ShowsOf(role, state) ==
    [n \in Nodes |-> IF n = "src" /\ role = "slave" THEN RecorderShows(state) ELSE Blank]

Opened(role, hz) ==
    /\ lis' = [open |-> TRUE, role |-> role, rate |-> hz]
    /\ swap' = [swap EXCEPT !.running = role, !.up = TRUE, !.performing = FALSE]
    /\ pacer' = PacerOf(role, hz) /\ snk' = SinkOf(role) /\ src' = SrcOf(role)
    /\ shows' = ShowsOf(role, IF swap.asked = role THEN "hunting" ELSE "pending")
    /\ shadow' = Blank /\ drops' = FALSE

\* listener_close, and an open that fails: the segment is down.
Down ==
    /\ lis' = [lis EXCEPT !.open = FALSE]
    /\ swap' = [swap EXCEPT !.up = FALSE, !.performing = FALSE]
    /\ pacer' = NoPacer /\ snk' = NoSink /\ src' = NoSrc
    /\ shadow' = Blank /\ shows' = [n \in Nodes |-> Blank] /\ drops' = FALSE

\* listener_reopen_at_role, listener_reopen_at_rate: "segment down" when the open fails.
Reopened(role, hz) ==
    \/ Opened(role, hz) /\ UNCHANGED spent
    \/ Down /\ Spend("faults")

\* A heard segment is taken down to be classified afresh (listener_reopen_role_reclassify);
\* a --live one is swapped in place.
RoleChanges(role) ==
    IF heard THEN Down /\ UNCHANGED spent ELSE Reopened(role, lis.rate)

RateChanges(hz) == Reopened(lis.role, hz)

\* hearing_serve opens what was dropped in the role the hunt finds; the record starts anew.
HearingServe ==
    /\ heard /\ ~lis.open
    /\ \E role \in Roles :
          /\ lis' = [lis EXCEPT !.open = TRUE, !.role = role]
          /\ swap' = [asked |-> role, running |-> role, up |-> TRUE, performing |-> FALSE]
          /\ pacer' = PacerOf(role, lis.rate) /\ snk' = SinkOf(role) /\ src' = SrcOf(role)
          /\ shows' = ShowsOf(role, "hunting")
    /\ shadow' = Blank /\ drops' = FALSE /\ crossed' = FALSE
    /\ UNCHANGED <<heard, spent>>

Init ==
    /\ heard \in BOOLEAN
    /\ \E role \in Roles, hz \in Drivable :
          /\ lis = [open |-> TRUE, role |-> role, rate |-> hz]
          /\ swap = [asked |-> role, running |-> role, up |-> TRUE, performing |-> FALSE]
          /\ pacer = PacerOf(role, hz) /\ snk = SinkOf(role) /\ src = SrcOf(role)
          /\ shows = ShowsOf(role, "hunting")
    /\ shadow = Blank /\ drops = FALSE /\ crossed = FALSE
    /\ spent = [writes |-> 0, moves |-> 0, faults |-> 0]

-----------------------------------------------------------------------------
(* on_rate_reopen_timer: what was accepted is taken, the role before the    *)
(* rate, and nothing more is done this tick to a segment that was rebuilt.  *)

\* Mutant of Poll: the rate is taken first, and the role request dies with the node.
PollRateFirst ==
    /\ lis.open
    /\ \/ snk.made /\ snk.wantRate # NoRate /\ RateChanges(snk.wantRate)
       \/ snk.made /\ snk.wantRate = NoRate /\ snk.wantRole # NoRole
          /\ RoleChanges(snk.wantRole)
       \/ ~snk.made /\ src.wantRole # NoRole /\ RoleChanges(src.wantRole)
       \/ ~snk.made /\ src.wantRole = NoRole
          /\ shows' = ShowsOf("slave", RoleState)
          /\ UNCHANGED <<lis, swap, pacer, snk, src, shadow, drops, spent>>
    /\ UNCHANGED <<heard, crossed>>

Poll ==
    /\ lis.open
    /\ \/ snk.made /\ snk.wantRole # NoRole /\ RoleChanges(snk.wantRole)
       \/ snk.made /\ snk.wantRole = NoRole /\ snk.wantRate # NoRate
          /\ RateChanges(snk.wantRate)
       \/ ~snk.made /\ src.wantRole # NoRole /\ RoleChanges(src.wantRole)
       \/ ~snk.made /\ src.wantRole = NoRole
          /\ shows' = ShowsOf("slave", RoleState)
          /\ UNCHANGED <<lis, swap, pacer, snk, src, shadow, drops, spent>>
    /\ UNCHANGED <<heard, crossed>>

-----------------------------------------------------------------------------
(* The Props writes.                                                       *)

\* reac_rate_prop_parse and reac_rate_cfg_decide, for a master.
RateRefusal(hz) ==
    IF hz = NoRate THEN "malformed"
    ELSE IF hz \notin Rates THEN "not-closed"
    ELSE IF hz \notin Drivable THEN "not-drivable" ELSE "none"

\* A rate that differs from the node's is stashed for the next poll.
WriteRate ==
    /\ Writable /\ snk.made
    /\ Spend("writes")
    /\ \E hz \in RateWrites :
          /\ pacer' = [pacer EXCEPT !.refused = RateRefusal(hz)]
          /\ snk' = IF RateRefusal(hz) = "none" /\ hz # pacer.rate
                    THEN [snk EXCEPT !.wantRate = hz] ELSE snk
    /\ UNCHANGED <<heard, lis, swap, src, shadow, shows, drops, crossed>>

\* reac_role_swap_request: recorded on the segment; is a swap owed?
Owes(role) == ~(swap.up /\ swap.running = role)

\* The role half of sink_door_assert, and on_param_changed of a recorder's reac-capture,
\* which does not answer a write it cannot read.
WriteRole ==
    /\ Writable
    /\ Spend("writes")
    /\ \E role \in Roles :
          /\ swap' = [swap EXCEPT !.asked = role]
          /\ snk' = IF ~snk.made THEN snk
                    ELSE [snk EXCEPT !.roleRefused = FALSE,
                                     !.wantRole = IF Owes(role) THEN role ELSE @]
          /\ src' = IF ~snk.made /\ Owes(role) THEN [src EXCEPT !.wantRole = role] ELSE src
          /\ crossed' = (crossed \/ (~Owes(role) /\ NoRole # (IF snk.made THEN snk.wantRole
                                                             ELSE src.wantRole)))
    /\ UNCHANGED <<heard, lis, pacer, shadow, shows, drops>>

WriteUnreadableRole ==
    /\ Writable /\ snk.made
    /\ Spend("writes")
    /\ snk' = [snk EXCEPT !.roleRefused = TRUE]
    /\ UNCHANGED <<heard, lis, swap, pacer, src, shadow, shows, drops, crossed>>

\* What a Props object carries under reac.headamp: a key that is no cell, a value out of
\* range, or a setting; at most two of them here, NoWrite for no second one.
HeadampWrites == (Cells \X (0..2)) \cup {<<Unsaid, 0>>}
NoWrite       == <<>>

\* parse_key, value_in_range
WriteRefusal(w) ==
    IF w = NoWrite THEN "none" ELSE IF w[1] \notin Cells THEN "bad-key"
    ELSE IF w[2] \notin 0..1 THEN "out-of-range" ELSE "none"

\* reac_headamp_prop_parse_result: what parses is a setting, and the first refusal stands.
Parses(w)          == w # NoWrite /\ WriteRefusal(w) = "none"
HeadampParse(a, b) == IF WriteRefusal(a) # "none" THEN WriteRefusal(a) ELSE WriteRefusal(b)

\* reac_headamp_asserted_set
Asserted(table, w) == IF Parses(w) THEN [table EXCEPT ![w[1]] = w[2]] ELSE table

\* reac_pacer_headamp_set: a full ring drops the newest.
RingFull(ring)     == Len(ring) >= RingCap
RingTakes(ring, w) == IF Parses(w) /\ ~RingFull(ring) THEN Append(ring, w) ELSE ring

\* The settings of a Props object, one after the other, into the readback and the ring.
ReadbackTakes(a, b) ==
    snk' = [snk EXCEPT !.haRefused = HeadampParse(a, b), !.asserted = Asserted(Asserted(@, a), b)]

PacerTakes(a, b) ==
    LET ring == RingTakes(pacer.ring, a)
    IN  /\ pacer' = [pacer EXCEPT !.ring = RingTakes(ring, b)]
        /\ drops' = (drops \/ (Parses(a) /\ RingFull(pacer.ring)) \/ (Parses(b) /\ RingFull(ring)))

\* Mutant of WriteHeadamp: a cell is mirrored although the segment cannot carry it.
WriteHeadampUnchecked ==
    /\ Writable /\ snk.made
    /\ Spend("writes")
    /\ \E a \in HeadampWrites, b \in HeadampWrites \cup {NoWrite} :
          /\ ReadbackTakes(a, b)
          /\ IF Capability = "none" THEN PacerTakes(a, b) ELSE UNCHANGED <<pacer, drops>>
    /\ UNCHANGED <<heard, lis, swap, src, shadow, shows, crossed>>

\* The head-amp half: where the segment carries head-amps, what parses goes to the pacer
\* and into the readback, and the refusal of what does not is the answer.
WriteHeadamp ==
    /\ Writable /\ snk.made
    /\ Spend("writes")
    /\ \/ Capability # "none" /\ UNCHANGED <<snk, pacer, drops>>
       \/ /\ Capability = "none"
          /\ \E a \in HeadampWrites, b \in HeadampWrites \cup {NoWrite} :
                ReadbackTakes(a, b) /\ PacerTakes(a, b)
    /\ UNCHANGED <<heard, lis, swap, src, shadow, shows, crossed>>

-----------------------------------------------------------------------------
(* on_log_timer and the nodes it publishes on.                             *)

\* sink_publish_health: a window that has closed is stamped on the door of this moment, if
\* there is one, and never again; what is on the door already stays until the next.
Health(figure) ==
    [shows EXCEPT ![Door]["health"] = IF HasDoor /\ figure # snk.health THEN figure ELSE @]

\* Mutant of ShadowsReset: a capture that becomes the door keeps the shadows of the last one.
ShadowsResetNothing == shadow

\* sink_door_shadows_reset; the latency has a baseline of its own, which only a fresh
\* stream resets.
ShadowsReset == [Blank EXCEPT !["latency"] = shadow["latency"]]

\* sink_door_follow, then every family.
LogTimer ==
    /\ snk.made
    /\ src' = [src EXCEPT !.bound = @ \/ CaptureIsDoor]
    /\ \E figure \in {snk.health} \cup (0..1) :
          /\ IF figure = snk.health THEN UNCHANGED spent ELSE Spend("moves")
          /\ snk' = [snk EXCEPT !.health = figure]
          /\ IF HasDoor
             THEN Publish(Door, IF CaptureIsDoor /\ ~src.bound THEN ShadowsReset ELSE shadow,
                          Health(figure))
             ELSE UNCHANGED <<shadow, shows>>
    /\ UNCHANGED <<heard, lis, swap, pacer, drops, crossed>>

\* reac_source_node_set_door(NULL): the keys the door put on reac-capture are taken off.
Unbound(s, shown) == [shown EXCEPT !["src"] = IF s.bound THEN Blank ELSE @]

\* sink_open_filter with reac-capture s: a fresh stream, the shadows reset, the door
\* taken back, and everything published at once.
PlaybackOpens(s) ==
    /\ snk' = [snk EXCEPT !.stream = TRUE, !.of = pacer.box]
    /\ src' = [s EXCEPT !.bound = FALSE]
    /\ Publish("snk", Blank, Unbound(s, [shows EXCEPT !["snk"] = Blank,
                                                      !["src"] = IF s = src THEN @ ELSE Blank]))

\* No reac-playback: the box has no outputs, or the stream was refused after the shadows
\* were reset.
NoPlayback(s, sh) ==
    /\ snk' = [snk EXCEPT !.stream = FALSE, !.of = pacer.box]
    /\ src' = s
    /\ shows' = [shows EXCEPT !["snk"] = Blank, !["src"] = IF s = src THEN @ ELSE Blank]
    /\ shadow' = sh

\* on_autodetect_timer: the nodes follow the box.
AutodetectTimer ==
    /\ snk.made /\ snk.of # pacer.box
    /\ \/ pacer.box = "none" /\ NoPlayback(NoSrc, shadow) /\ UNCHANGED spent
       \/ pacer.box = "mute" /\ NoPlayback(NewSrc, shadow) /\ UNCHANGED spent
       \/ pacer.box = "io" /\ PlaybackOpens(NewSrc) /\ UNCHANGED spent
       \/ pacer.box = "io" /\ NoPlayback(NewSrc, Blank) /\ Spend("faults")
    /\ UNCHANGED <<heard, lis, swap, pacer, drops, crossed>>

\* Its recovery of the side that is not on the graph; the other side is left alone.
RecoverPlayback ==
    /\ snk.made /\ snk.of = "io" /\ pacer.box = "io"
    /\ \/ ~snk.stream /\ PlaybackOpens(src) /\ UNCHANGED spent
       \/ snk.stream /\ (PlaybackOpens(src) \/ NoPlayback(src, Blank)) /\ Spend("faults")
    /\ UNCHANGED <<heard, lis, swap, pacer, drops, crossed>>

RecoverCapture ==
    /\ snk.made /\ src.made
    /\ Spend("faults")
    /\ src' = NewSrc
    /\ shows' = [shows EXCEPT !["src"] = Blank]
    /\ UNCHANGED <<heard, lis, swap, pacer, snk, shadow, drops, crossed>>

-----------------------------------------------------------------------------
(* The pacer thread and the wire.                                          *)

\* reac_pacer_headamp_drain
PacerDrain ==
    /\ pacer.ring # <<>>
    /\ LET cell == Head(pacer.ring)
       IN  pacer' = [pacer EXCEPT !.ring = Tail(@), !.table[cell[1]] = cell[2]]
    /\ UNCHANGED <<heard, lis, swap, snk, src, shadow, shows, drops, crossed, spent>>

\* A box comes, goes, or announces its strap; the sightings change.
WireMoves ==
    /\ snk.made
    /\ Spend("moves")
    /\ \/ \E b \in BoxKinds \ {pacer.box} : pacer' = [pacer EXCEPT !.box = b, !.based = FALSE]
       \/ pacer.box # "none" /\ ~pacer.based /\ pacer' = [pacer EXCEPT !.based = TRUE]
       \/ pacer' = [pacer EXCEPT !.disco = @ + 1]
    /\ UNCHANGED <<heard, lis, swap, snk, src, shadow, shows, drops, crossed>>

\* The engine performs its role, or no longer does; its ring settles at another depth.
EngineMoves ==
    /\ swap.up
    /\ Spend("moves")
    /\ \/ swap' = [swap EXCEPT !.performing = ~@] /\ UNCHANGED pacer
       \/ snk.made /\ pacer' = [pacer EXCEPT !.depth = 1 - @] /\ UNCHANGED swap
    /\ UNCHANGED <<heard, lis, snk, src, shadow, shows, drops, crossed>>

Next ==
    \/ Poll \/ LogTimer \/ AutodetectTimer \/ RecoverPlayback \/ RecoverCapture
    \/ HearingServe
    \/ WriteRate \/ WriteRole \/ WriteUnreadableRole \/ WriteHeadamp
    \/ PacerDrain \/ WireMoves \/ EngineMoves

\* The main loop runs its timers and the pacer thread its slots.
Fairness ==
    /\ WF_vars(Poll) /\ WF_vars(LogTimer) /\ WF_vars(AutodetectTimer)
    /\ WF_vars(HearingServe) /\ WF_vars(PacerDrain)

Spec == Init /\ [][Next]_vars /\ Fairness

-----------------------------------------------------------------------------
(* Properties.                                                             *)

\* A shadow never claims what the door does not show: the comparison that spares an update
\* is against what is on THIS node, through every move of the door and every rebuild of
\* either node; and the health figures, which have no shadow, are those of the window that
\* closed last or none (sink_door_shadows_reset, reac_source_node_set_door).
ShadowIsShown ==
    snk.made /\ HasDoor /\ (Door = "src" => src.bound) =>
        /\ \A k \in Keys : (k = "latency" => Latent(Door)) /\ shadow[k] # Unsaid
                              => shows[Door][k] = shadow[k]
        /\ shows[Door]["health"] \in {Unsaid, snk.health}

\* The send table has v for the cell c once the pacer has taken what its ring holds: the
\* last setting of the cell there is v, or there is none and the table has v now.
Replays(c, v) ==
    LET later(i) == \A j \in DOMAIN pacer.ring : j > i => pacer.ring[j][1] # c
    IN  \/ later(0) /\ pacer.table[c] = v
        \/ \E i \in DOMAIN pacer.ring : pacer.ring[i] = <<c, v>> /\ later(i)

\* The readback of every head-amp cell is what the pacer has been told.
ReadbackIsSent == \A c \in Cells : Replays(c, snk.asserted[c])

\* The readback of a head-amp cell is what the pacer has been told, unless the ring has
\* dropped a command (sink_door_assert: "the readback cannot claim a cell the wire never
\* carried").
ReadbackIsSentUndropped == ~drops => ReadbackIsSent

\* Once the segment is quiet, its door shows what the engine is: the rate and its refusal,
\* the state of the role, the head-amps, and a device list that fits (on_log_timer,
\* listener_publish_segment).
DoorCatchesUp ==
    <>[](HasDoor =>
            \A k \in (IF snk.made THEN Keys ELSE {"role"}) :
                \/ shows[Door][k] = Truth(k)
                \/ k = "disco" /\ pacer.disco \in Overlong
                \/ k = "latency" /\ ~Latent(Door))

\* The engine of a segment that is up ends in the role that was asked for last, unless the
\* role was asked back before the poll took it.
RoleSettlesUncrossed == <>[](lis.open /\ ~crossed => swap.running = swap.asked)

\* The same for every order of the assertions.
RoleSettles == <>[](lis.open => swap.running = swap.asked)
=============================================================================
