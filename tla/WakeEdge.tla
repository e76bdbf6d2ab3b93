------------------------------- MODULE WakeEdge -------------------------------
(***************************************************************************)
(* One served master and the PHY edges it makes: wake_step (main.c), the   *)
(* life of the listener that owns its state, and the interface it takes    *)
(* down.  The hearing loop serves only a PINNED master for long enough to  *)
(* climb this ladder (hearing_rehear_empty_masters drops any other one     *)
(* after 2 s of silence), so the segment here is served whenever its link  *)
(* has a carrier and dropped when the carrier has been lost for DownHold.  *)
(*                                                                         *)
(* Time is counted in polls of 200 ms.  Tick lets both timers of the main  *)
(* loop become due, the autodetect timer of the listener and the poll of   *)
(* the hearing loop; each fires once, in either order, before the next     *)
(* tick.                                                                   *)
(***************************************************************************)
EXTENDS WakeLadder

CONSTANTS
    Down,          \* REAC_WAKE_DOWN_MS, in ticks
    DownHold,      \* REAC_IFSCAN_DOWN_HOLD_NS, in ticks
    NegMax,        \* bound: ticks a PHY takes at most to find its carrier again
    Reopens,       \* bound: rate or role requests the operator makes in a behaviour
    UpMayFail      \* may the kernel refuse `ip link set up`

\* The first is what tests/test_reac_wake.c (section G) asserts of the two constants.
ASSUME EdgeAssumption ==
    /\ Down \in Nat \ {0} /\ DownHold \in Nat
    /\ Down < DownHold
    /\ NegMax \in Nat
    /\ Reopens \in Nat
    /\ UpMayFail \in BOOLEAN

VARIABLES
    due,           \* the timers that have yet to fire in this tick
    cable,         \* is the cable in, with a powered partner at the other end
    outside,       \* what the reads of /sys find: all well, a served sibling, an error
    admin,         \* the interface's administrative state
    neg,           \* ticks until the PHY has negotiated, once cable and admin are up
    refused,       \* has the kernel refused to bring the link up
    served,        \* is there an open listener
    hold,          \* ticks the carrier has been lost, in the hearing loop's scan
    pacer,         \* what the pacer and its master FSM report of this session
    opened,        \* c->wake_open
    wake,          \* c->wake
    upAt,          \* ticks until c->up_at_ns, or Never
    asked,         \* rate or role requests made so far
    edges          \* history: edges made since the box or the cable last gave a sign

phy  == <<cable, admin, neg, refused>>
adc  == <<opened, wake, upAt>>
vars == <<due, outside, phy, served, hold, pacer, adc, asked, edges>>

Timers == {"autodetect", "poll"}

Outside == {"clear", "siblings", "unreadable", "host"}

Pacers == [probing : BOOLEAN, rx : BOOLEAN, tx : BOOLEAN, pushes : 0..MinPushes]

EdgeCap == MaxBounces + 1

TypeOK ==
    /\ due \in SUBSET Timers /\ outside \in Outside
    /\ cable \in BOOLEAN /\ admin \in BOOLEAN /\ neg \in 0..NegMax
    /\ refused \in BOOLEAN
    /\ served \in BOOLEAN
    /\ hold \in 0..DownHold
    /\ pacer \in Pacers
    /\ opened \in BOOLEAN /\ wake \in Ladders /\ upAt \in -1..Down
    /\ asked \in 0..Reopens
    /\ edges \in 0..EdgeCap

Carrier == cable /\ admin /\ neg = 0

\* on_hearing_nl_io: a carrier that is back is back for the scan at once (KEPT).
Kept == hold' = IF Carrier' THEN 0 ELSE hold

FreshPacer == [probing |-> TRUE, rx |-> FALSE, tx |-> FALSE, pushes |-> 0]

Init ==
    /\ due = {} /\ outside = "clear"
    /\ cable = TRUE /\ admin = TRUE /\ neg = 0 /\ refused = FALSE
    /\ served = FALSE /\ hold = 0
    /\ pacer = FreshPacer
    /\ opened = FALSE /\ wake = LadderZero /\ upAt = Never
    /\ asked = 0 /\ edges = 0

-----------------------------------------------------------------------------
(* The listener: listener_open and listener_close, as far as c->... goes.  *)

\* listener_open starts a fresh pacer and clears the whole autodetect context.
ListenerOpen ==
    /\ served' = TRUE
    /\ pacer' = FreshPacer
    /\ opened' = FALSE /\ wake' = LadderZero /\ upAt' = Never

\* listener_close destroys the timer; the context it ran on is dead with it.
ListenerClose ==
    /\ served' = FALSE
    /\ opened' = FALSE /\ wake' = LadderZero /\ upAt' = Never
    /\ UNCHANGED pacer

\* One poll of the hearing loop: the scan's patience with a lost carrier, and the
\* segment served when there is one.  A serve that fails is tried again.
HearingPoll ==
    /\ "poll" \in due
    /\ due' = due \ {"poll"}
    /\ \/ /\ served /\ Carrier
          /\ UNCHANGED <<hold, served, pacer, adc>>
       \/ /\ served /\ ~Carrier /\ hold + 1 < DownHold
          /\ hold' = hold + 1
          /\ UNCHANGED <<served, pacer, adc>>
       \/ /\ served /\ ~Carrier /\ hold + 1 >= DownHold
          /\ hold' = 0
          /\ ListenerClose
       \/ /\ ~served /\ Carrier
          /\ UNCHANGED hold
          /\ \/ ListenerOpen
             \/ UNCHANGED <<served, pacer, adc>>
       \/ /\ ~served /\ ~Carrier
          /\ UNCHANGED <<hold, served, pacer, adc>>
    /\ UNCHANGED <<outside, phy, asked, edges>>

\* A rate or role request: listener_reopen_at_rate and listener_reopen_at_role close
\* the listener and open it again at once.  (A re-open that fails is Hearing's.)
Reopen ==
    /\ served /\ asked < Reopens
    /\ asked' = asked + 1
    /\ ListenerOpen
    /\ UNCHANGED <<due, outside, phy, hold, edges>>

-----------------------------------------------------------------------------
(* wake_step, run by the listener's autodetect timer.                      *)

\* Mutant of WakeUp: the link is brought up and the edge stays in flight.
WakeUpNotCleared ==
    /\ upAt # Never
    /\ \/ upAt > 0 /\ UNCHANGED phy
       \/ upAt = 0 /\ admin' = TRUE /\ neg' \in 0..NegMax /\ UNCHANGED <<cable, refused>>
    /\ UNCHANGED <<upAt, pacer, opened, wake, edges>>

\* An edge in flight is finished, or waited for, before anything else is asked.
WakeUp ==
    /\ upAt # Never
    /\ \/ /\ upAt > 0
          /\ UNCHANGED <<phy, upAt>>
       \/ /\ upAt = 0
          /\ upAt' = Never
          /\ \/ /\ admin' = TRUE
                /\ neg' \in 0..NegMax
                /\ UNCHANGED refused
             \/ UpMayFail /\ refused' = TRUE /\ UNCHANGED <<admin, neg>>
          /\ UNCHANGED cable
    /\ UNCHANGED <<pacer, opened, wake, edges>>

\* Mutant of WakeFound: every PROBING observation reopens the grace.
WakeFoundReopened ==
    IF ~opened THEN LadderInit
    ELSE IF pacer.probing THEN LadderReopen(wake)
    ELSE wake

\* The ladder's own state as the step finds it: opened by the first observation, its
\* grace reopened by the first PROBING observation after one that was not.
WakeFound ==
    IF ~opened THEN LadderInit
    ELSE IF pacer.probing /\ wake.opened = Never THEN LadderReopen(wake)
    ELSE wake

\* What is observed.  The carrier, the siblings and the interface's owner are read from
\* the kernel: another segment of the port may be served, the interface may turn out to
\* be the host's, and the carrier may be unreadable.
Observed ==
    [probing  |-> pacer.probing,
     carrier  |-> IF outside = "unreadable" THEN "unknown"
                  ELSE IF Carrier THEN "up" ELSE "down",
     rx       |-> pacer.rx,
     host     |-> outside = "host",
     tx       |-> pacer.tx,
     siblings |-> outside = "siblings",
     pushes   |-> pacer.pushes]

\* Mutant of Bounce: nothing remembers to bring the link up again.
BounceForgotten ==
    \/ /\ admin' = FALSE
       /\ edges' = IF edges < EdgeCap THEN edges + 1 ELSE edges
       /\ UNCHANGED <<cable, neg, refused, upAt>>
    \/ UNCHANGED <<phy, upAt, edges>>

\* The link is taken down, or the kernel refuses; the ladder has counted it either way.
Bounce ==
    \/ /\ admin' = FALSE
       /\ upAt' = Down
       /\ edges' = IF edges < EdgeCap THEN edges + 1 ELSE edges
       /\ UNCHANGED <<cable, neg, refused>>
    \/ UNCHANGED <<phy, upAt, edges>>

WakeAsk ==
    /\ upAt = Never
    /\ opened' = TRUE
    /\ pacer' = [pacer EXCEPT !.tx = FALSE]
    /\ LET w == IF pacer.probing THEN WakeFound ELSE LadderClose(WakeFound)
       IN  /\ wake' = LadderStep(w, Observed)
           /\ \/ LadderAct(w, Observed) = "BOUNCE" /\ Bounce
              \/ LadderAct(w, Observed) # "BOUNCE" /\ UNCHANGED <<phy, upAt, edges>>

AutodetectTimer ==
    /\ "autodetect" \in due
    /\ due' = due \ {"autodetect"}
    /\ \/ served /\ (WakeUp \/ WakeAsk)
       \/ ~served /\ UNCHANGED <<phy, pacer, adc, edges>>
    /\ UNCHANGED <<outside, served, asked>>
    /\ Kept

-----------------------------------------------------------------------------
(* The pacer thread, the box and the cable.                                *)

ScenePush ==
    /\ served /\ pacer.probing /\ pacer.pushes < MinPushes
    /\ pacer' = [pacer EXCEPT !.pushes = @ + 1]
    /\ UNCHANGED <<due, outside, phy, served, hold, adc, asked, edges>>

FrameSent ==
    /\ served /\ Carrier /\ ~pacer.tx
    /\ pacer' = [pacer EXCEPT !.tx = TRUE]
    /\ UNCHANGED <<due, outside, phy, served, hold, adc, asked, edges>>

\* The box transmits; it may be granted on it, and a master may give its box up.
BoxFrame ==
    /\ served /\ Carrier
    /\ \E granted \in BOOLEAN :
          pacer' = [probing |-> ~granted, rx |-> TRUE, tx |-> pacer.tx,
                    pushes |-> IF granted THEN 0 ELSE pacer.pushes]
    /\ edges' = 0
    /\ UNCHANGED <<due, outside, phy, served, hold, adc, asked>>

MasterGivesUp ==
    /\ served /\ ~pacer.probing
    /\ pacer' = [probing |-> TRUE, rx |-> pacer.rx, tx |-> pacer.tx, pushes |-> 0]
    /\ UNCHANGED <<due, outside, phy, served, hold, adc, asked, edges>>

CableMoves ==
    /\ cable' = ~cable
    /\ neg' \in (IF cable THEN {neg} ELSE 0..NegMax)
    /\ edges' = 0
    /\ UNCHANGED <<due, outside, admin, refused, served, pacer, adc, asked>>
    /\ Kept

OutsideMoves ==
    /\ outside' \in Outside \ {outside}
    /\ UNCHANGED <<due, phy, served, hold, pacer, adc, asked, edges>>

Tick ==
    /\ due = {}
    /\ due' = Timers
    /\ wake' = LadderAge(wake)
    /\ upAt' = IF upAt > 0 THEN upAt - 1 ELSE upAt
    /\ neg' = IF cable /\ admin /\ neg > 0 THEN neg - 1 ELSE neg
    /\ UNCHANGED <<outside, cable, admin, refused, served, pacer, opened, asked, edges>>
    /\ Kept

Next ==
    \/ Tick \/ HearingPoll \/ AutodetectTimer
    \/ Reopen
    \/ ScenePush \/ FrameSent \/ BoxFrame \/ MasterGivesUp \/ CableMoves \/ OutsideMoves

\* The main loop runs its timers, and a pacer that streams completes pushes and puts
\* frames on a wire that has a carrier.
Fairness ==
    /\ WF_vars(Tick) /\ WF_vars(HearingPoll) /\ WF_vars(AutodetectTimer)
    /\ WF_vars(ScenePush) /\ SF_vars(FrameSent)

Spec == Init /\ [][Next]_vars /\ Fairness

-----------------------------------------------------------------------------
(* Properties.                                                             *)

\* While an edge is in flight the link is down because of it and there is a listener whose
\* timer will end it: no close, reopen or grant between the two halves leaves a pending
\* half behind to raise a link that is up, or to be waited for by nobody (wake_step
\* 915-929, listener_open 2503).
EdgeInFlight ==
    upAt # Never => served /\ ~admin

\* However often the master is granted and falls back to PROBING, and however often the
\* segment is dropped and served again by the edge itself, a box that gives no sign is
\* not flapped more than MaxBounces times (reac_wake.h, reac_wake_reopen: "the BOUNCE
\* COUNT DOES NOT"), as long as no request has replaced the listener that counts and the
\* kernel has granted every edge its second half.
EdgesBounded == asked = 0 /\ ~refused => edges <= MaxBounces

\* A link the daemon has taken down comes back up, unless the kernel refuses to raise it
\* or a request replaces the listener that owes it (wake_step 912-929).
LinkComesBack == ~admin ~> admin \/ refused \/ asked > 0

\* The same whatever is requested ("A link left down because a later step decided
\* something else would be the daemon breaking its own segment", wake_step 913-914).
LinkAlwaysComesBack == ~admin ~> admin \/ refused

\* A silent box is not courted with PHY edges for ever, and not given up in silence:
\* with the cable in, nothing of the host's in the way and no box frame, the ladder ends
\* at its announcement, whether or not the kernel granted the edges (reac_wake_step
\* 85-91; reac_wake.h: ACT_EXHAUSTED "returned EXACTLY ONCE").
LadderEnds ==
    <>[](cable /\ served /\ ~pacer.rx /\ outside = "clear") => <>[](wake.spent)
=============================================================================
