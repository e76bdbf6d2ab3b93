-------------------------------- MODULE Knock --------------------------------
(***************************************************************************)
(* The knock on one silent, unpinned interface: reac_knock_wire.c, the     *)
(* timer and the sniffer that drive it (main.c 3156-3382), its wake ladder *)
(* (reac_knock_ladder_step, hearing_knock_wake) and the answer that the    *)
(* new master is credited with (reac_knock_credit.c).                      *)
(*                                                                         *)
(* A tick is a second: one turn of the ladder, five polls.  Instants are   *)
(* kept relative to now.  The slots of a cycle that carry a control block  *)
(* are Chunks + 3: the transfer's header, its chunks, its final frame, and *)
(* one announce; the filler slots between them send nothing.               *)
(***************************************************************************)
EXTENDS WakeLadder, FiniteSets

CONSTANTS
    Listen,        \* REAC_KNOCK_LISTEN_NS, in ticks
    Cycle,         \* a hunting cycle of libreac's master, in ticks
    PeriodMax,     \* REAC_KNOCK_WIRE_PERIOD_MAX_NS, in ticks
    Down,          \* REAC_WAKE_DOWN_MS, in ticks
    Chunks,        \* REAC_SCENE_CHUNKS
    Doublings,     \* bound: the back-off's exponent saturates here, past PeriodMax
    PushCap,       \* bound: counted transfers, past anything the ladder tells apart
    Frames,        \* bound: frames one sniffer hears
    Disturbs       \* bound: lost frames, cables pulled, gear and trunks that come and go

ASSUME KnockAssumption ==
    /\ {Listen, Cycle, PeriodMax, Down, Chunks} \subseteq Nat \ {0}
    /\ {Doublings, PushCap, Frames, Disturbs} \subseteq Nat
    /\ Listen > 1    \* the poll that finds a box comes within it (200 ms, 500 ms)
    /\ Cycle <= PeriodMax /\ Cycle * 2^Doublings >= PeriodMax
    /\ PushCap >= MinPushes + 2

VARIABLES
    gear,      \* the box on the wire
    cable,     \* is it plugged in
    admin,     \* up, down, or "stuck": down, and the kernel refused to bring it up
    trunk,     \* topo_trunk_now: tagged REAC on this parent's VLANs
    barred,    \* what else the ladder asks: "host", "sibling", or "no"
    open,      \* the sniffer
    frames,    \* sn->frames
    evident,   \* the sniffer's hunt has heard a box
    kw,        \* sn->kw
    tx,        \* sn->knock_tx_open
    armed,     \* ticks until the knock's timer fires, or Off
    kl,        \* the ladder the process keeps for this name
    upIn,      \* ticks until kl->up_at_ns, or Off
    served,    \* the hearing loop has made a segment of it
    credit,    \* its master was given the knock's transfer (reac_knock_credit_transfer)
    told,      \* a whole transfer of this spell reached the box (ghost)
    left,      \* of this knock's transfer: the frames that left (ghost)
    proof,     \* whole transfers that left since the ladder's spell opened (ghost)
    edges,     \* links taken down by this ladder (ghost)
    disturbs

wires == <<gear, cable, admin, trunk, barred>>
vars  == <<gear, cable, admin, trunk, barred, open, frames, evident, kw, tx, armed, kl, upIn,
           served, credit, told, left, proof, edges, disturbs>>

Off   == -1
Slots == Chunks + 3
Emit(slot) == CASE slot = 0          -> "head"
                [] slot \in 1..Chunks -> "chunk"
                [] slot = Chunks + 1 -> "tail"
                [] OTHER             -> "announce"

Gears  == {"none",     \* nothing on the wire
           "cold",     \* says nothing until it has heard a whole transfer
           "flood",    \* just up: FILLER, until it has heard a master
           "talks",    \* declares and joins
           "dropped"}  \* answers nothing at all until it sees a PHY link-up
States == {"LISTENING", "KNOCKING", "ANSWERED", "TRUNK"}

KnockWires ==
    [state : States, quiet : 0..Listen, heard : -1..Listen, unanswered : 0..Doublings,
     resting : BOOLEAN, wait : -PeriodMax..PeriodMax, age : 0..PeriodMax, slot : 0..Slots,
     head : BOOLEAN, chunks : 0..Chunks, pushes : 0..PushCap, knocks : 0..(Disturbs + 1),
     spoke : BOOLEAN, kept : BOOLEAN]

KnockLadders == [wake : Ladders, pushes0 : 0..PushCap, last : 0..PushCap,
                 frames0 : 0..Frames, knocks : 0..(Disturbs + 1)]

TypeOK ==
    /\ gear \in Gears /\ cable \in BOOLEAN /\ admin \in {"up", "down", "stuck"}
    /\ trunk \in BOOLEAN /\ barred \in {"host", "sibling", "no"}
    /\ open \in BOOLEAN /\ frames \in 0..Frames /\ evident \in BOOLEAN
    /\ kw \in KnockWires /\ tx \in BOOLEAN /\ armed \in -1..PeriodMax
    /\ kl \in KnockLadders /\ upIn \in -1..Down
    /\ served \in BOOLEAN /\ credit \in BOOLEAN /\ told \in BOOLEAN /\ left \in 0..(Chunks + 2)
    /\ proof \in 0..MinPushes /\ edges \in 0..(MaxBounces + 1) /\ disturbs \in 0..Disturbs

Carrier == cable /\ admin = "up"

-----------------------------------------------------------------------------
(* The wire's own machine (reac_knock_wire.c): pure.                       *)

reac_knock_wire_init ==
    [state |-> "LISTENING", quiet |-> 0, heard |-> Never, unanswered |-> 0, resting |-> FALSE,
     wait |-> 0, age |-> 0, slot |-> 0, head |-> FALSE, chunks |-> 0, pushes |-> 0,
     knocks |-> 0, spoke |-> FALSE, kept |-> FALSE]

AtMost(n, cap) == IF n <= cap THEN n ELSE cap

reac_knock_wire_period_ns(n) == AtMost(Cycle * 2^n, PeriodMax)

\* knock_open, for a knock whose slot 0 fell `late` ticks ago: what was due since then is late.
knock_open(w, late) ==
    [w EXCEPT !.resting = FALSE, !.age = late, !.slot = (late * Slots) \div Cycle,
              !.head = FALSE, !.chunks = 0, !.wait = 0]

\* knock_rest
knock_rest(w) ==
    [w EXCEPT !.wait = reac_knock_wire_period_ns(w.unanswered) - w.age,
              !.unanswered = AtMost(@ + 1, Doublings), !.resting = TRUE]

\* knock_peek: ticks until the next frame of this knock, its end, or the next knock.
knock_peek(w) ==
    IF w.resting THEN (IF w.wait < 0 THEN 0 ELSE w.wait)
    ELSE IF w.slot < Slots \/ w.age >= Cycle THEN 0
    ELSE Cycle - w.age

\* reac_knock_wire_step
KnockStep(w) ==
    IF trunk THEN [w EXCEPT !.state = "TRUNK"]
    ELSE IF w.state = "TRUNK" THEN [w EXCEPT !.state = "LISTENING", !.quiet = 0, !.unanswered = 0]
    ELSE IF w.state # "KNOCKING" /\ w.quiet = Listen
    THEN knock_open([w EXCEPT !.state = "KNOCKING", !.knocks = @ + 1, !.spoke = FALSE,
                              !.kept = FALSE], 0)
    ELSE w

\* Mutant of reac_knock_wire_heard: the frame that ends the knock is not kept.
HeardKeepsLater(w, evidence) ==
    IF w.state = "TRUNK" THEN w
    ELSE [w EXCEPT !.heard = 0, !.quiet = 0,
                   !.state = IF @ = "KNOCKING" /\ evidence THEN "ANSWERED" ELSE @,
                   !.kept = @ \/ (w.state = "ANSWERED" /\ evidence)]

\* reac_knock_wire_heard: a frame after a silence ends the back-off and the rest, evidence
\* ends the knock, and the control frames from then on are kept.
reac_knock_wire_heard(w, evidence) ==
    IF w.state = "TRUNK" THEN w
    ELSE LET woken == w.heard = Never \/ w.heard = Listen
             state == IF w.state = "KNOCKING" /\ evidence THEN "ANSWERED" ELSE w.state
         IN  [w EXCEPT !.heard = 0, !.quiet = 0, !.state = state,
                       !.unanswered = IF woken THEN 0 ELSE @,
                       !.wait = IF woken /\ w.state = "KNOCKING" /\ w.resting THEN 0 ELSE @,
                       !.kept = @ \/ (state = "ANSWERED" /\ evidence)]

\* What reac_knock_wire_run books for a frame of the transfer, 284-298.
CountScene(w, emit, out) ==
    CASE emit = "announce"        -> w
      [] emit # "announce" /\ ~out -> [w EXCEPT !.head = FALSE]
      [] emit = "head" /\ out     -> [w EXCEPT !.head = TRUE, !.chunks = 0]
      [] emit = "chunk" /\ out    -> [w EXCEPT !.chunks = @ + 1]
      [] emit = "tail" /\ out     ->
            IF w.head /\ w.chunks = Chunks
            THEN [w EXCEPT !.pushes = AtMost(@ + 1, PushCap), !.head = FALSE] ELSE w

\* One slot of the cycle: its frame left, or it was late or refused.
KnockSlot(w, out) ==
    LET emit == Emit(w.slot)
    IN  [CountScene(w, emit, out) EXCEPT !.slot = @ + 1, !.spoke = @ \/ out]

\* The knock whose time is over by `d` ticks: cycles that are past are stepped through with
\* every frame late, until one is running or the next is still to come.
CatchUp[d \in 0..PeriodMax, n \in 0..Doublings] ==
    LET p == reac_knock_wire_period_ns(n)
        m == AtMost(n + 1, Doublings)
    IN  IF d < Cycle THEN [resting |-> FALSE, by |-> d, n |-> n]
        ELSE IF d < p THEN [resting |-> TRUE, by |-> p - d, n |-> m]
        ELSE CatchUp[d - p, m]

\* reac_knock_wire_run with the rest over.
KnockAgain(w) ==
    LET c == CatchUp[-w.wait, w.unanswered]
    IN  IF c.resting THEN [w EXCEPT !.wait = c.by, !.unanswered = c.n]
        ELSE knock_open([w EXCEPT !.unanswered = c.n], c.by)

-----------------------------------------------------------------------------
(* The ladder's eyes (reac_knock_ladder_step).                             *)

\* The first spell of the ladder, or one that the wire's counters say is new.
NewSpell(l, w) == \/ l.wake.opened = Never \/ w.knocks # l.knocks
                  \/ w.pushes < l.last \/ frames < l.frames0

\* The count a spell starts from.  It is brought down so that MinPushes more fit under PushCap;
\* what is left is more than a fresh sniffer can have counted by its first turn.
Base(w) == AtMost(w.pushes, PushCap - MinPushes)

\* The ladder before the observation: a new spell keeps the count of edges.
SpellOf(l, w) ==
    IF NewSpell(l, w)
    THEN [wake |-> IF l.wake.opened = Never THEN LadderInit ELSE LadderReopen(l.wake),
          pushes0 |-> Base(w), last |-> Base(w), frames0 |-> frames, knocks |-> w.knocks]
    ELSE [l EXCEPT !.last = w.pushes]

\* Mutants of KnockObs: a wire that is knocking is taken to have heard nothing; the pushes
\* are counted from the last turn and not from the spell's first.
KnockObsDeaf(l, w) ==
    [probing |-> TRUE, carrier |-> IF Carrier THEN "up" ELSE "down", rx |-> FALSE,
     host |-> barred = "host", tx |-> w.spoke, siblings |-> barred = "sibling",
     pushes |-> AtMost(w.pushes - l.pushes0, MinPushes)]

KnockObsSince(l, w) ==
    [probing |-> TRUE, carrier |-> IF Carrier THEN "up" ELSE "down", rx |-> frames # l.frames0,
     host |-> barred = "host", tx |-> w.spoke, siblings |-> barred = "sibling",
     pushes |-> AtMost(w.pushes - l.last, MinPushes)]

KnockObs(l, w) ==
    [probing |-> TRUE, carrier |-> IF Carrier THEN "up" ELSE "down", rx |-> frames # l.frames0,
     host |-> barred = "host", tx |-> w.spoke, siblings |-> barred = "sibling",
     pushes |-> AtMost(w.pushes - l.pushes0, MinPushes)]

-----------------------------------------------------------------------------
LadderFree == [wake |-> LadderZero, pushes0 |-> 0, last |-> 0, frames0 |-> 0, knocks |-> 0]

Init ==
    /\ gear \in Gears /\ cable = TRUE /\ admin = "up" /\ trunk \in BOOLEAN /\ barred = "no"
    /\ open = FALSE /\ frames = 0 /\ evident = FALSE
    /\ kw = reac_knock_wire_init /\ tx = FALSE /\ armed = Off
    /\ kl = LadderFree /\ upIn = Off /\ served = FALSE /\ credit = FALSE /\ told = FALSE
    /\ left = 0 /\ proof = 0 /\ edges = 0 /\ disturbs = 0

Disturb == disturbs < Disturbs /\ disturbs' = disturbs + 1

\* Mutant of knock_arm: a knock that rests arms nothing.
ArmInCycle(sending, w) ==
    IF sending /\ w.state = "KNOCKING" /\ ~w.resting THEN knock_peek(w) ELSE Off

\* knock_arm: the timer at the next frame, or off.
knock_arm(sending, w) == IF sending /\ w.state = "KNOCKING" THEN knock_peek(w) ELSE Off

\* hearing_apply LISTEN and UNLISTEN: sniffer_open, sniffer_close.
SnifferOpen ==
    /\ Carrier /\ ~open /\ ~served
    /\ open' = TRUE
    /\ frames' = 0 /\ evident' = FALSE
    /\ kw' = reac_knock_wire_init /\ tx' = FALSE /\ armed' = Off
    /\ left' = 0 /\ proof' = 0 /\ told' = FALSE
    /\ UNCHANGED <<wires, kl, upIn, served, credit, edges, disturbs>>

\* Mutant of SnifferClose: the edge in flight is forgotten with the sniffer that asked for it.
SnifferCloseForgets ==
    /\ ~Carrier /\ (open \/ served)
    /\ open' = FALSE /\ served' = FALSE /\ credit' = FALSE /\ told' = FALSE
    /\ frames' = 0 /\ evident' = FALSE
    /\ kw' = reac_knock_wire_init /\ tx' = FALSE /\ armed' = Off
    /\ kl' = [LadderFree EXCEPT !.wake = [kl.wake EXCEPT !.opened = Never]] /\ upIn' = Off
    /\ UNCHANGED <<wires, left, proof, edges, disturbs>>

SnifferClose ==
    /\ ~Carrier /\ (open \/ served)
    /\ open' = FALSE /\ served' = FALSE /\ credit' = FALSE /\ told' = FALSE
    /\ frames' = 0 /\ evident' = FALSE
    /\ kw' = reac_knock_wire_init /\ tx' = FALSE /\ armed' = Off
    /\ UNCHANGED <<wires, kl, upIn, left, proof, edges, disturbs>>

\* on_knock_timer: reac_knock_wire_run, then knock_arm.  A frame that is late or refused is a
\* disturbance.
OnKnockTimer ==
    /\ armed = 0 /\ open
    /\ \/ \E out \in BOOLEAN :
             LET scene == out /\ Emit(kw.slot) # "announce"
                 sent  == IF scene THEN left + 1 ELSE left
             IN  /\ ~kw.resting /\ kw.slot < Slots
                 /\ IF out THEN UNCHANGED disturbs ELSE Disturb
                 /\ kw' = KnockSlot(kw, out)
                 /\ left' = sent
                 /\ proof' = IF scene /\ sent = Chunks + 2 THEN AtMost(proof + 1, MinPushes)
                             ELSE proof
                 /\ gear' = IF ~Carrier THEN gear
                            ELSE IF gear = "flood" /\ out THEN "talks"
                            ELSE IF gear = "cold" /\ scene /\ sent = Chunks + 2 THEN "talks"
                            ELSE gear
                 /\ told' = (told \/ (Carrier /\ gear # "none" /\ scene /\ sent = Chunks + 2))
       \/ /\ ~kw.resting /\ kw.slot = Slots /\ kw.age >= Cycle
          /\ kw' = LET r == knock_rest(kw) IN IF r.wait <= 0 THEN KnockAgain(r) ELSE r
          /\ left' = IF kw'.resting THEN left ELSE 0
          /\ UNCHANGED <<told, proof, gear, disturbs>>
       \/ /\ kw.resting /\ kw.wait <= 0
          /\ kw' = KnockAgain(kw)
          /\ left' = IF kw'.resting THEN left ELSE 0
          /\ UNCHANGED <<told, proof, gear, disturbs>>
    /\ armed' = knock_arm(tx, kw')
    /\ UNCHANGED <<cable, admin, trunk, barred, open, frames, evident, tx, kl, upIn, served,
                   credit, edges>>

\* sniffer_drain: a frame of the box.  The knock's timer is touched only when the knock ends.
SnifferDrain ==
    LET evidence == gear = "talks"
        hush     == kw.state = "KNOCKING" /\ evidence
    IN  /\ open /\ Carrier /\ gear \in {"flood", "talks"} 
        /\ frames < (IF evidence THEN Frames ELSE Frames - 1)
        /\ frames' = frames + 1
        /\ evident' = (evident \/ evidence)
        /\ kw' = reac_knock_wire_heard(kw, evidence)
        /\ tx' = (tx /\ ~hush)
        /\ armed' = IF hush THEN Off ELSE armed
        /\ UNCHANGED <<wires, open, kl, upIn, served, credit, told, left, proof, edges, disturbs>>

-----------------------------------------------------------------------------
(* The second: time, and hearing_poll as far as the knock goes.            *)

Aged(w) ==
    [w EXCEPT !.quiet = AtMost(@ + 1, Listen), !.heard = Older(@, Listen),
              !.wait = IF w.resting /\ @ > -PeriodMax THEN @ - 1 ELSE @,
              !.age = IF w.resting \/ w.state # "KNOCKING" THEN @ ELSE AtMost(@ + 1, PeriodMax)]

\* Nobody waits past an instant that is due; the slots of a running cycle have until its end.
MayPass ==
    armed # 0 \/ (~kw.resting /\ kw.slot < Slots /\ kw.age < Cycle)

\* A box that has dropped comes back on a PHY link-up.
Woken(g) == IF g = "dropped" THEN "flood" ELSE g

\* The edge in flight is finished first, 5231-5245; the kernel may refuse, and that was it.
LinkBackUp(due) ==
    IF due THEN \/ /\ admin' = "up" /\ UNCHANGED disturbs
                   /\ gear' = IF cable THEN Woken(gear) ELSE gear
                \/ admin' = "stuck" /\ UNCHANGED gear /\ Disturb
    ELSE UNCHANGED <<gear, admin, disturbs>>

\* REAC_WAKE_ACT_BOUNCE: the link goes down, or the kernel refuses and nothing was touched.
TakeDown ==
    \/ /\ edges' = edges + 1
       /\ admin' = "down" /\ upIn' = Down /\ UNCHANGED <<gear, disturbs>>
    \/ /\ edges' = edges
       /\ UNCHANGED <<gear, admin>> /\ upIn' = Off /\ Disturb

\* hearing_hunt's part, 4640-4735: the trunk, the licence, the sender; and the wire is served
\* on a box.
Hunted == IF open THEN KnockStep(Aged(kw)) ELSE kw

\* reac_sink_node_new 2305-2310: the credit of a knock that was answered.
Credit(w) == w.kept /\ w.pushes > 0

HearingServe ==
    /\ open /\ evident /\ ~trunk /\ MayPass
    /\ served' = TRUE /\ open' = FALSE
    /\ credit' = Credit(Hunted)
    /\ frames' = 0 /\ evident' = FALSE
    /\ kw' = reac_knock_wire_init /\ tx' = FALSE /\ armed' = Off
    /\ kl' = [kl EXCEPT !.wake = LadderAge(@)]
    /\ upIn' = IF upIn > 1 THEN upIn - 1 ELSE Off
    /\ LinkBackUp(upIn = 1)
    /\ UNCHANGED <<cable, trunk, barred, told, left, proof, edges>>

\* knock_start, whose sender may not open and is not asked for again in this spell, and
\* knock_stop: is the sender open after a poll that leaves the wire at w.
Senders(w, begun) ==
    IF w.state = "TRUNK" THEN {FALSE} ELSE IF begun THEN {TRUE, tx} ELSE {tx}

\* A poll that serves nothing: the knock's step, then hearing_knock_wake.
HearingPoll ==
    LET w       == Hunted
        begun   == w.state = "KNOCKING" /\ kw.state # "KNOCKING"
        old     == [kl EXCEPT !.wake = LadderAge(@)]
        turn(k) == open /\ k /\ w.state = "KNOCKING" /\ upIn \in {Off, 1}
        new     == SpellOf(old, w)
        obs     == KnockObs(new, kw')
    IN  /\ MayPass /\ (evident => ~open \/ trunk)
        /\ \E k \in Senders(w, begun) :
              /\ tx' = k
              /\ kw' = IF turn(k) /\ NewSpell(old, w) THEN [w EXCEPT !.pushes = Base(w)] ELSE w
              /\ armed' = IF begun \/ w.state = "TRUNK" THEN knock_arm(k, w)
                          ELSE IF armed > 0 THEN armed - 1 ELSE armed
              /\ IF turn(k)
                 THEN /\ kl' = [new EXCEPT !.wake = LadderStep(new.wake, obs)]
                      /\ proof' = IF NewSpell(old, w) THEN 0 ELSE proof
                      /\ IF LadderAct(new.wake, obs) = "BOUNCE" THEN TakeDown
                         ELSE /\ upIn' = Off /\ LinkBackUp(upIn = 1) /\ UNCHANGED edges
                 ELSE /\ kl' = old /\ UNCHANGED <<proof, edges>>
                      /\ upIn' = IF upIn > 1 THEN upIn - 1 ELSE Off
                      /\ LinkBackUp(upIn = 1)
        /\ told' = (told /\ w.state # "TRUNK")
        /\ left' = IF begun THEN 0 ELSE left
        /\ UNCHANGED <<cable, trunk, barred, open, frames, evident, served, credit>>

-----------------------------------------------------------------------------
(* Outside: the gear, the cable, the VLANs, the host and the port.         *)

inside == <<open, frames, evident, kw, tx, armed, kl, upIn, served, credit, left, proof, edges>>

GearMoves ==
    /\ Disturb
    /\ \E g \in Gears \ {"talks", gear} : gear' = g
    /\ told' = FALSE
    /\ UNCHANGED <<cable, admin, trunk, barred, inside>>

CableMoves ==
    /\ Disturb
    /\ cable' = ~cable
    /\ gear' = IF cable' /\ admin = "up" THEN Woken(gear) ELSE gear
    /\ UNCHANGED <<admin, trunk, barred, told, inside>>

HostMoves ==
    /\ Disturb
    /\ \/ trunk' = ~trunk /\ UNCHANGED barred
       \/ barred' \in {"host", "sibling", "no"} \ {barred} /\ UNCHANGED trunk
    /\ UNCHANGED <<gear, cable, admin, told, inside>>

\* The master of a box that is gone is dropped, and the wire listened to again.
SegmentDrop ==
    /\ served /\ gear \in {"none", "dropped"}
    /\ served' = FALSE /\ credit' = FALSE
    /\ UNCHANGED <<wires, open, frames, evident, kw, tx, armed, kl, upIn, told, left, proof,
                   edges, disturbs>>

Events == SnifferOpen \/ SnifferClose \/ SnifferDrain \/ SegmentDrop
Timers == OnKnockTimer \/ HearingServe \/ HearingPoll

Next == Events \/ Timers \/ GearMoves \/ CableMoves \/ HostMoves

\* The main loop turns: neither its sockets nor its timers are left waiting for ever.
Fairness == WF_vars(Events) /\ WF_vars(Timers)

Spec == Init /\ [][Next]_vars /\ Fairness

-----------------------------------------------------------------------------
(* Properties.                                                             *)

\* The link is taken down only after MinPushes whole transfers have left since the ladder's
\* spell opened, on a wire that has carried no frame since then, never on the host's own NIC
\* and never under a sibling that is served (hearing_knock_wake; reac_wake.h).
EdgeIsProven ==
    [][edges' # edges =>
          /\ proof = MinPushes /\ Carrier /\ frames = kl'.frames0 /\ barred = "no"]_vars

\* The link that the knock took down has its instant to come back, although the edge itself
\* closes the sniffer that asked for it and may end a segment (2929-2938, 5231-5245); only a
\* kernel that refuses to bring it up leaves it down.
LinkIsOwed == admin = "down" => upIn # Off

Quiet == Carrier /\ gear \in {"none", "dropped"} /\ ~trunk /\ (kw.state = "KNOCKING" => tx)

\* A silent wire goes on being knocked, with whole transfers, however far the knock has
\* backed off: it neither falls silent nor stays behind itself (reac_knock_wire.h 31-35).
SilenceIsKnocked ==
    <>[]Quiet => []<>(left = Chunks + 2 /\ kw.slot > Chunks + 1)

\* A box that has dropped on a wire that its sniffer has never heard a frame on is given all
\* the edges the ladder has (reac_knock_wire.h 190-197).
DroppedBoxWakes ==
    <>[](Quiet /\ gear = "dropped" /\ barred = "no" /\ frames = 0)
    => <>[](kl.wake.bounces = MaxBounces)

\* Stronger, and not so: whatever the sniffer has heard before the box dropped.
AnyDroppedBoxWakes ==
    <>[](Quiet /\ gear = "dropped" /\ barred = "no") => <>[](kl.wake.bounces = MaxBounces)

\* A frame after a silence opens a knock that rests: its timer fires at once
\* (reac_knock_wire.h 158-166: "a resting knock opens at once: something just came up").
RestOpensAtOnce ==
    [][frames' > frames /\ kw.resting /\ kw'.state = "KNOCKING" /\ kw'.wait # kw.wait
       => armed' = 0]_vars

\* A box that was told by a whole transfer and answers has its master credited with it: it is
\* granted on the JOIN it sent (reac_knock_credit.h; main.c 4516-4531, 3742-3759).
AnswerIsCredited == served /\ told => credit
=============================================================================
