-------------------------------- MODULE Port ---------------------------------
(***************************************************************************)
(* The listeners of one physical port: opening and closing a segment,      *)
(* everything it takes from the process and the machine on the way, the    *)
(* unwinding when a later step refuses, and the port's link budget, which  *)
(* a segment that heard a box may take from segments that carry nothing.   *)
(*                                                                         *)
(* Everything here runs on the main loop, so one listener_open runs at a   *)
(* time (run); it is a sequence of steps because the pacer threads of the  *)
(* other segments, the gear and other daemons move between them.           *)
(***************************************************************************)
EXTENDS Naturals, FiniteSets, FiniteSetsExt

CONSTANTS
    Segs,        \* the segments of the port: an interface and its VLANs
    Pinned,      \* those reac-pw.conf pins as MASTER
    BoxPinned,   \* those with a --box pin: their nodes are made at open
    Rates,       \* sample rates
    Default,     \* the rate the configuration gives
    Mbit,        \* the link's speed; 0 when it cannot be read
    Troubles     \* bound: calls that fail, requests and foreign locks in a behaviour

ASSUME PortAssumption ==
    /\ IsFiniteSet(Segs)
    /\ Pinned \subseteq Segs /\ BoxPinned \subseteq Segs
    /\ Rates \subseteq Nat /\ Default \in Rates
    /\ Mbit \in Nat /\ Troubles \in Nat

VARIABLES
    wire,      \* what is on each segment's wire: "silent", "box" or "other"
    lock,      \* who holds each segment's lock: "free", "us", "them"
    scan,      \* reac_ifscan, as far as it is told here: "LINKED" or "SEGMENT"
    yielded,   \* sn->budget_yielded
    opened,    \* L->opened
    cfg,       \* L->cfg: kind of segment, vacant door, wire_heard, rate
    held,      \* what the listener holds, whatever its own flags say
    carry,     \* does anything say that its engine carries something
    run,       \* the listener_open that is running
    troubles

world == <<wire, lock>>
vars  == <<wire, lock, scan, yielded, opened, cfg, held, carry, run, troubles>>

-----------------------------------------------------------------------------
(* The link budget (reac_link_budget.c).                                   *)

FrameBytes    == 1492
WireOverhead  == 24
SamplesPerPkt == 12

reac_link_master_pps(rate) == rate \div SamplesPerPkt
reac_link_cost_kbit(pps)   == (pps * (FrameBytes + WireOverhead) * 8) \div 1000

\* Mutant of reac_link_budget_fits: a full link still takes one more.
FitsWhileNotFull(used, want) == Mbit = 0 \/ used < Mbit * 1000

reac_link_budget_fits(used, want) == Mbit = 0 \/ used + want <= Mbit * 1000

Cost(s) == reac_link_cost_kbit(reac_link_master_pps(cfg[s].rate))

-----------------------------------------------------------------------------
Kinds == {"master", "slave", "join", "tap", "refused", "vacant"}
Stuff == {"rx", "ring", "rx_thread", "tx_ring", "lock", "sink", "src", "timer", "slave",
          "tap", "tap_src"}
Steps == {"tap", "rx", "door", "budget", "yield", "again", "claim", "sink", "slave", "nodes",
          "start"}
Runs  == [at : Steps, why : {"serve", "rate"}, seg : Segs, out : SUBSET Segs]
Idle  == [at |-> "idle"]

\* A slot that hearing_serve has cleared; nobody reads a closed one before that.
Cleared == [kind |-> "vacant", vacant |-> FALSE, heard |-> FALSE, rate |-> Default]

Running(s) == run # Idle /\ run.seg = s
HasSink(s) == opened[s] /\ "sink" \in held[s]

TypeOK ==
    /\ wire \in [Segs -> {"silent", "box", "other"}]
    /\ lock \in [Segs -> {"free", "us", "them"}]
    /\ scan \in [Segs -> {"LINKED", "SEGMENT"}]
    /\ yielded \in [Segs -> BOOLEAN]
    /\ opened \in [Segs -> BOOLEAN]
    /\ cfg \in [Segs -> [kind : Kinds, vacant : BOOLEAN, heard : BOOLEAN, rate : Rates]]
    /\ held \in [Segs -> SUBSET Stuff]
    /\ carry \in [Segs -> BOOLEAN]
    /\ run \in Runs \cup {Idle}
    /\ run # Idle => (run.at = "yield" <=> run.out # {})
    /\ troubles \in 0..Troubles

Init ==
    /\ wire = [s \in Segs |-> "silent"]
    /\ lock = [s \in Segs |-> "free"]
    /\ scan = [s \in Segs |-> "LINKED"]
    /\ yielded = [s \in Segs |-> FALSE]
    /\ opened = [s \in Segs |-> FALSE]
    /\ cfg = [s \in Segs |-> Cleared]
    /\ held = [s \in Segs |-> {}]
    /\ carry = [s \in Segs |-> FALSE]
    /\ run = Idle
    /\ troubles = 0

\* Counted from the engines that run, self left out.
link_used_kbit(s) == MapThenSumSet(Cost, {t \in Segs \ {s} : HasSink(t)})

\* listener_budget_empty
listener_budget_empty(t) == HasSink(t) /\ ~carry[t]

\* Mutant of Yielding: a refused segment waits for the port to empty by itself.
NobodyYields(s) == {}

\* link_budget_yield, the deciding pass: all holders or none.
Yielding(s) ==
    LET holders == {t \in Segs \ {s} : HasSink(t)}
    IN  IF \A t \in holders : listener_budget_empty(t) /\ t \notin Pinned
        THEN holders ELSE {}

Goto(step) == run' = [run EXCEPT !.at = step]
Trouble    == troubles < Troubles /\ troubles' = troubles + 1

-----------------------------------------------------------------------------
(* Closing.                                                                *)

\* Mutant of listener_close: a tap's door keeps the ring its RX sized.
CloseKeepsRing(s) ==
    held[s] \ (IF cfg[s].kind = "tap"
               THEN {"tap", "tap_src", "src", "sink", "timer"}
               ELSE {"rx_thread", "src", "sink", "tap_src", "timer", "slave", "tx_ring",
                     "rx", "ring", "lock"})

\* What is left after listener_close: a tap stops no RX thread and releases no lock.
listener_close(s) ==
    held[s] \ (IF cfg[s].kind = "tap"
               THEN {"tap", "tap_src", "src", "sink", "timer", "rx", "ring"}
               ELSE {"rx_thread", "src", "sink", "tap_src", "timer", "slave", "tx_ring",
                     "rx", "ring", "lock"})

\* The segment holds what it holds; the lock is ours exactly while "lock" is among it.
Hold(s, stuff) ==
    /\ held' = [held EXCEPT ![s] = stuff]
    /\ lock' = IF "lock" \in stuff THEN [lock EXCEPT ![s] = "us"]
               ELSE IF lock[s] = "us" THEN [lock EXCEPT ![s] = "free"]
               ELSE lock

\* hearing_drop, and the scan back at LINKED.
Dropped(s) ==
    /\ Hold(s, listener_close(s))
    /\ opened' = [opened EXCEPT ![s] = FALSE]
    /\ carry' = [carry EXCEPT ![s] = FALSE]
    /\ scan' = [scan EXCEPT ![s] = "LINKED"]
    /\ cfg' = [cfg EXCEPT ![s] = Cleared]

\* What the hearing loop serves on a wire.
Justified(s) ==
    CASE wire[s] = "box"    -> {"master"}
      [] wire[s] = "silent" -> IF s \in Pinned THEN {"master"} ELSE {"master", "vacant"}
      [] wire[s] = "other"  -> IF s \in Pinned THEN {"master", "tap", "join"}
                               ELSE Kinds \ {"master"}

\* The wire's own reasons: a master heard or gone, nobody left.  The link stays.
HearingDrop(s) ==
    /\ run = Idle /\ opened[s]
    /\ cfg[s].kind \notin Justified(s) \/ (wire[s] = "silent" /\ s \notin Pinned)
    /\ Dropped(s)
    /\ UNCHANGED <<wire, yielded, run, troubles>>

\* listener_reopen_role_reclassify: a role request drops the segment to have it classified
\* afresh, by a sniffer of its own.
ReopenAtRole(s) ==
    /\ run = Idle /\ opened[s] /\ Trouble
    /\ Dropped(s)
    /\ yielded' = [yielded EXCEPT ![s] = FALSE]
    /\ UNCHANGED <<wire, run>>

-----------------------------------------------------------------------------
(* Opening, step by step.                                                  *)

\* The open ends: reac_ifscan_serve_failed after a serve, nobody is told after a re-open.
Refused(s, left) ==
    /\ Hold(s, left)
    /\ run' = Idle
    /\ scan' = IF run.why = "serve" THEN [scan EXCEPT ![s] = "LINKED"] ELSE scan
    /\ cfg' = [cfg EXCEPT ![s] = Cleared]
    /\ UNCHANGED <<wire, yielded, opened, carry>>

Up(s, stuff) ==
    /\ Hold(s, stuff)
    /\ run' = Idle
    /\ opened' = [opened EXCEPT ![s] = TRUE]
    /\ UNCHANGED <<wire, scan, yielded, cfg, carry, troubles>>

Further(s, stuff, step) ==
    /\ Hold(s, stuff)
    /\ Goto(step)
    /\ UNCHANGED <<wire, scan, yielded, opened, cfg, carry>>

\* hunt_heard_reac_gear: any gear at all, recognised or not.
Heard(s) == wire[s] # "silent"

\* Mutant of HearingServe: a segment that yielded its budget may take it back on silence.
HearingServeUnlatched(s) ==
    /\ run = Idle /\ ~opened[s] /\ scan[s] = "LINKED"
    /\ \E kind \in Justified(s) :
          /\ cfg' = [cfg EXCEPT ![s] = [kind |-> kind, vacant |-> kind = "vacant",
                                        heard |-> Heard(s), rate |-> Default]]
          /\ run' = [at |-> IF kind = "tap" THEN "tap" ELSE "rx", why |-> "serve",
                     seg |-> s, out |-> {}]
    /\ scan' = [scan EXCEPT ![s] = "SEGMENT"]
    /\ yielded' = [yielded EXCEPT ![s] = FALSE]
    /\ UNCHANGED <<world, opened, held, carry, troubles>>

\* hearing_serve up to listener_open: what the wire shows, or the pin, decides the kind.  A
\* segment that yielded its budget is not driven on silence again; its latch is the sniffer's,
\* which a master clears and which only a door keeps.
HearingServe(s) ==
    /\ run = Idle /\ ~opened[s] /\ scan[s] = "LINKED"
    /\ \E kind \in Justified(s) :
          /\ kind = "master" => Heard(s) \/ ~yielded[s]
          /\ cfg' = [cfg EXCEPT ![s] = [kind |-> kind, vacant |-> kind = "vacant",
                                        heard |-> Heard(s), rate |-> Default]]
          /\ run' = [at |-> IF kind = "tap" THEN "tap" ELSE "rx", why |-> "serve",
                     seg |-> s, out |-> {}]
          /\ yielded' = [yielded EXCEPT ![s] = @ /\ kind \in {"vacant", "refused"}]
    /\ scan' = [scan EXCEPT ![s] = "SEGMENT"]
    /\ UNCHANGED <<world, opened, held, carry, troubles>>

\* listener_open_tap: streams, a vacant door on a wire that says nothing, or a refusal.
OpenTap(s) ==
    /\ run.at = "tap"
    /\ \/ Up(s, {"tap", "tap_src"})
       \/ /\ wire[s] # "other"
          /\ cfg' = [cfg EXCEPT ![s].vacant = TRUE]
          /\ Goto("rx")
          /\ UNCHANGED <<world, scan, yielded, opened, held, carry, troubles>>
       \/ Trouble /\ Refused(s, {})

\* reac_rx_open, and the step the role goes on with.
OpenRx(s) ==
    LET kind == cfg[s].kind
        stuff == held[s] \cup {"rx", "ring"}
    IN  /\ run.at = "rx"
        /\ \/ cfg[s].vacant /\ Up(s, stuff)
           \/ /\ ~cfg[s].vacant
              /\ Further(s, stuff, CASE kind = "refused" -> "door"
                                     [] kind = "master"  -> "budget"
                                     [] OTHER            -> "slave")
              /\ UNCHANGED troubles
           \/ Trouble /\ Refused(s, held[s])

\* The door of a refused segment: one node and nothing that transmits.
OpenDoor(s) ==
    /\ run.at = "door"
    /\ \/ Up(s, held[s] \cup {"src"})
       \/ Trouble /\ Refused(s, held[s] \ {"rx", "ring"})

\* The admission: it fits, the empty masters of the port yield, or the open is refused.
OpenBudget(s) ==
    LET stuff == held[s] \cup {"tx_ring"}
        fits  == reac_link_budget_fits(link_used_kbit(s), Cost(s))
        out   == IF run.at = "budget" /\ cfg[s].heard THEN Yielding(s) ELSE {}
    IN  /\ run.at \in {"budget", "again"}
        /\ UNCHANGED troubles
        /\ \/ fits /\ Further(s, stuff, "claim")
           \/ ~fits /\ out = {} /\ Refused(s, stuff \ {"rx", "ring", "tx_ring"})
           \/ /\ ~fits /\ out # {}
              /\ run' = [run EXCEPT !.at = "yield", !.out = out]
              /\ held' = [held EXCEPT ![s] = stuff]
              /\ UNCHANGED <<world, scan, yielded, opened, cfg, carry>>

\* link_budget_yield, the acting pass: one segment after the other is dropped.
YieldOne(t) ==
    /\ run.at = "yield" /\ t \in run.out
    /\ Dropped(t)
    /\ yielded' = [yielded EXCEPT ![t] = TRUE]
    /\ run' = [run EXCEPT !.out = @ \ {t}, !.at = IF run.out = {t} THEN "again" ELSE @]
    /\ UNCHANGED <<wire, troubles>>

\* reac_seglock_claim: ours, somebody else's (the open ends), or no lock to be had (it
\* goes on unprotected).
OpenClaim(s) ==
    /\ run.at = "claim"
    /\ \/ /\ lock[s] = "free"
          /\ Further(s, held[s] \cup {"lock"}, "sink")
          /\ UNCHANGED troubles
       \/ /\ lock[s] = "them"
          /\ Refused(s, held[s] \ {"rx", "ring", "tx_ring"})
          /\ UNCHANGED troubles
       \/ Trouble /\ Further(s, held[s], "sink")

OpenSink(s) ==
    /\ run.at = "sink"
    /\ \/ Further(s, held[s] \cup {"sink"}, "nodes") /\ UNCHANGED troubles
       \/ Trouble /\ Refused(s, held[s] \ {"rx", "ring", "tx_ring", "lock"})

\* The slave's engine, and the playback node of a joined box; neither refusal ends the open.
OpenSlave(s) ==
    LET stuff == held[s] \cup {"tx_ring"}
        nodes == IF cfg[s].kind = "join" THEN {"slave", "sink"} ELSE {"slave"}
    IN  /\ run.at = "slave"
        /\ \/ Further(s, stuff \cup nodes, "nodes") /\ UNCHANGED troubles
           \/ Trouble /\ \E some \in {{}, {"slave"}} : Further(s, stuff \cup some, "nodes")

\* The autodetect timer of a master, the nodes of a pin, the capture node of a follower;
\* fail_with_nodes is a listener_close.
OpenNodes(s) ==
    LET master == cfg[s].kind = "master"
        made   == (IF master THEN {"timer"} ELSE {})
                  \cup (IF ~master \/ s \in BoxPinned THEN {"src"} ELSE {})
    IN  /\ run.at = "nodes"
        /\ \/ Further(s, held[s] \cup made, "start") /\ UNCHANGED troubles
           \/ "src" \in made /\ Trouble /\ Refused(s, listener_close(s))

\* reac_rx_start by whoever opened.
RxStart(s) ==
    /\ run.at = "start"
    /\ \/ Up(s, held[s] \cup {"rx_thread"})
       \/ Trouble /\ Refused(s, listener_close(s))

\* listener_reopen_at_rate: the close, and the open with another rate.
ReopenAtRate(s) ==
    /\ run = Idle /\ opened[s] /\ cfg[s].kind = "master" /\ Trouble
    /\ \E hz \in Rates \ {cfg[s].rate} : cfg' = [cfg EXCEPT ![s].rate = hz]
    /\ Hold(s, listener_close(s))
    /\ opened' = [opened EXCEPT ![s] = FALSE]
    /\ carry' = [carry EXCEPT ![s] = FALSE]
    /\ run' = [at |-> "rx", why |-> "rate", seg |-> s, out |-> {}]
    /\ UNCHANGED <<wire, scan, yielded>>

OpenStep(s) ==
    /\ Running(s)
    /\ \/ OpenTap(s) \/ OpenRx(s) \/ OpenDoor(s) \/ OpenBudget(s) \/ OpenClaim(s) \/ OpenSink(s)
       \/ OpenSlave(s) \/ OpenNodes(s) \/ RxStart(s)

-----------------------------------------------------------------------------
(* The gear, the engines of the other threads, other daemons.              *)

WireMoves(s) ==
    /\ \E w \in {"silent", "box", "other"} \ {wire[s]} : wire' = [wire EXCEPT ![s] = w]
    /\ UNCHANGED <<lock, scan, yielded, opened, cfg, held, carry, run, troubles>>

\* The engine finds out what the wire carries: it is past PROBING, has recognised a box, or
\* the RX latch hears frames.
EngineMoves(s) ==
    /\ HasSink(s) /\ carry[s] # (wire[s] # "silent")
    /\ carry' = [carry EXCEPT ![s] = ~@]
    /\ UNCHANGED <<world, scan, yielded, opened, cfg, held, run, troubles>>

\* Another daemon takes a segment's lock or gives it back.
ForeignLock(s) ==
    /\ \/ lock[s] = "free" /\ Trouble /\ lock' = [lock EXCEPT ![s] = "them"]
       \/ lock[s] = "them" /\ UNCHANGED troubles /\ lock' = [lock EXCEPT ![s] = "free"]
    /\ UNCHANGED <<wire, scan, yielded, opened, cfg, held, carry, run>>

Next ==
    \E s \in Segs :
        \/ HearingServe(s) \/ HearingDrop(s) \/ ReopenAtRate(s) \/ ReopenAtRole(s)
        \/ OpenStep(s) \/ YieldOne(s) \/ WireMoves(s) \/ EngineMoves(s) \/ ForeignLock(s)

\* The main loop finishes what it began and serves what the scan hears; the engines run.
Fairness ==
    \A s \in Segs :
        /\ WF_vars(OpenStep(s) \/ YieldOne(s)) /\ SF_vars(HearingServe(s))
        /\ SF_vars(HearingDrop(s)) /\ WF_vars(EngineMoves(s))

Spec == Init /\ [][Next]_vars /\ Fairness

-----------------------------------------------------------------------------
(* Properties.                                                             *)

\* A listener that is not open and not being opened holds nothing, whichever step refused
\* the open and whatever had been taken by then: no socket, ring, thread, node, engine or
\* segment lock is left to a struct that the next serve clears (listener_open 2034-2036,
\* 2103-2111, 2230-2292, fail_with_nodes 2654-2660, listener_close; 2655: "a segment that
\* did not come up must leave nothing behind").
NothingLeaks ==
    \A s \in Segs : ~opened[s] /\ ~Running(s) => held[s] = {} /\ lock[s] # "us"

\* What each segment's master engine has committed of the port.
Committed == [s \in Segs |-> IF cfg[s].kind = "master" /\ "sink" \in held[s] THEN Cost(s) ELSE 0]

Account == INSTANCE Ledger WITH
    Costs <- {reac_link_cost_kbit(reac_link_master_pps(hz)) : hz \in Rates},
    Cap <- Mbit * 1000, commit <- Committed

\* The listeners of a port keep its account: through every serve, yield, re-open at another
\* rate, refusal and drop, one segment at a time takes what fits and gives back what it took
\* (listener_open 2215-2255; reac_link_budget.h 43-48).
KeepsAccount == Account!Spec

Mastered(s) == opened[s] /\ cfg[s].kind = "master"

\* A segment that has a box to itself gets its port: empty masters of the port yield to it,
\* and no failed attempt, of its own or of theirs, keeps it out for good (link_budget_yield:
\* "They drop back to listening and the taker gets the port").  Excluded are a lock somebody
\* else keeps and a re-open at another rate that failed, which nobody repeats (2727-2730).
BoxGetsPort ==
    \A s \in Segs :
        <>[](/\ wire[s] = "box" /\ lock[s] # "them"
             /\ \A t \in Segs \ {s} : wire[t] = "silent" /\ t \notin Pinned
             /\ scan[s] = "SEGMENT" => opened[s] \/ Running(s))
        => <>[]Mastered(s)

\* A segment that yielded and hears nothing is left alone: the port does not go back and
\* forth between a box and a wire with nobody on it (4808-4820: "the latch below is what
\* stops the silence licence handing it the budget straight back").
EvictedRests ==
    \A s \in Segs :
        <>[](wire[s] = "silent" /\ s \notin Pinned) => <>[]yielded[s] \/ <>[](~yielded[s])
=============================================================================
