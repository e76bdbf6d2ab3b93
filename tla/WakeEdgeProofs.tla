---------------------------- MODULE WakeEdgeProofs ----------------------------
(***************************************************************************)
(* What WakeEdge promises for every value of its constants.                *)
(***************************************************************************)
EXTENDS WakeEdge, TLAPS

USE DEF Never

-----------------------------------------------------------------------------
(* The ladder's operators.                                                 *)

\* A ladder that is observed is still a ladder: its count stays within MaxBounces because
\* the step that counts is the step that found it not spent.
LEMMA LadderStepType ==
    ASSUME NEW w \in Ladders, NEW o \in Observations
    PROVE  LadderStep(w, o) \in Ladders
<1>1. Refusal(w, o) \in Refusals
  BY DEF Refusal, Refusals
<1>2. Refusal(w, o) = "OK" => w.bounces + 1 \in 0..MaxBounces
  BY LadderAssumption DEF Refusal, Spent, Ladders
<1>3. QED
  BY <1>1, <1>2, LadderAssumption DEF LadderStep, Ladders

\* The other operators on ladders.
LEMMA LadderTypes ==
    /\ LadderInit \in Ladders
    /\ LadderZero \in Ladders
    /\ \A w \in Ladders : /\ LadderReopen(w) \in Ladders
                          /\ LadderClose(w) \in Ladders
                          /\ LadderAge(w) \in Ladders
BY LadderAssumption
   DEF LadderInit, LadderZero, LadderReopen, LadderClose, LadderAge, Older, Ladders, Refusals

\* The only step that adds to the count is the one that orders an edge, and no operator
\* but LadderInit and LadderZero takes from it.
LEMMA LadderCounts ==
    ASSUME NEW w \in Ladders, NEW o \in Observations
    PROVE  /\ LadderStep(w, o).bounces =
                 IF LadderAct(w, o) = "BOUNCE" THEN w.bounces + 1 ELSE w.bounces
           /\ LadderReopen(w).bounces = w.bounces
           /\ LadderClose(w).bounces = w.bounces
           /\ LadderAge(w).bounces = w.bounces
BY DEF LadderStep, LadderAct, LadderReopen, LadderClose, LadderAge, Ladders

\* What the timer observes is an observation, and it finds a ladder.
LEMMA ObservedType ==
    ASSUME TypeOK
    PROVE  Observed \in Observations /\ WakeFound \in Ladders
<1>1. Observed \in Observations
  BY LadderAssumption DEF TypeOK, Observed, Observations, Pacers, Outside
<1>2. WakeFound \in Ladders
  BY LadderTypes DEF TypeOK, WakeFound
<1>3. QED
  BY <1>1, <1>2

-----------------------------------------------------------------------------
(* Type correctness.                                                       *)

LEMMA FreshPacerType == FreshPacer \in Pacers
BY LadderAssumption DEF FreshPacer, Pacers

\* The timer's step, the only one that runs the ladder.
LEMMA AutodetectType ==
    ASSUME TypeOK, AutodetectTimer
    PROVE  TypeOK'
<1> USE LadderAssumption, EdgeAssumption
<1>1. UNCHANGED <<outside, served, asked>> /\ due' \in SUBSET Timers /\ hold' \in 0..DownHold
  BY DEF AutodetectTimer, TypeOK, Kept
<1>2. CASE WakeUp
  <2>1. cable' \in BOOLEAN /\ admin' \in BOOLEAN /\ refused' \in BOOLEAN
    BY <1>2 DEF WakeUp, TypeOK, phy
  <2>2. neg' \in 0..NegMax
    BY <1>2 DEF WakeUp, TypeOK, phy
  <2>3. upAt' \in -1..Down
    BY <1>2 DEF WakeUp, TypeOK
  <2>4. QED
    BY <1>1, <1>2, <2>1, <2>2, <2>3 DEF WakeUp, TypeOK
<1>3. CASE WakeAsk
  <2> DEFINE w == IF pacer.probing THEN WakeFound ELSE LadderClose(WakeFound)
  <2>1. w \in Ladders
    BY ObservedType, LadderTypes
  <2>2. wake' \in Ladders
    BY <1>3, <2>1, ObservedType, LadderStepType DEF WakeAsk
  <2>3. pacer' \in Pacers
    BY <1>3 DEF WakeAsk, TypeOK, Pacers
  <2>4. opened' \in BOOLEAN
    BY <1>3 DEF WakeAsk
  <2>5. Bounce \/ UNCHANGED <<phy, upAt, edges>>
    BY <1>3 DEF WakeAsk
  <2>6. cable' \in BOOLEAN /\ admin' \in BOOLEAN /\ refused' \in BOOLEAN
    BY <2>5 DEF Bounce, TypeOK, phy
  <2>7. neg' \in 0..NegMax
    BY <2>5 DEF Bounce, TypeOK, phy
  <2>8. upAt' \in -1..Down
    BY <2>5 DEF Bounce, TypeOK, phy
  <2>9. edges' \in 0..EdgeCap
    BY <2>5 DEF Bounce, TypeOK, phy, EdgeCap
  <2>10. QED
    BY <1>1, <2>2, <2>3, <2>4, <2>6, <2>7, <2>8, <2>9 DEF TypeOK
<1>4. CASE ~served /\ UNCHANGED <<phy, pacer, adc, edges>>
  BY <1>1, <1>4 DEF TypeOK, phy, adc
<1>5. QED
  BY <1>2, <1>3, <1>4 DEF AutodetectTimer

LEMMA TypeInit ==
    ASSUME Init
    PROVE  TypeOK
<1>1. neg \in 0..NegMax /\ hold \in 0..DownHold /\ upAt \in -1..Down
         /\ asked \in 0..Reopens /\ edges \in 0..EdgeCap
  BY LadderAssumption, EdgeAssumption DEF Init, EdgeCap
<1>2. QED
  BY <1>1, LadderTypes, FreshPacerType DEF Init, TypeOK, Outside

LEMMA TypeStep ==
    ASSUME TypeOK, [Next]_vars
    PROVE  TypeOK'
<1> USE LadderAssumption, EdgeAssumption
<1>1. CASE Tick
  BY <1>1, LadderTypes DEF Tick, TypeOK, Kept, Timers
<1>2. CASE HearingPoll
  <2>1. hold' \in 0..DownHold /\ upAt' \in -1..Down
    BY <1>2 DEF HearingPoll, ListenerOpen, ListenerClose, TypeOK, adc
  <2>2. served' \in BOOLEAN /\ pacer' \in Pacers /\ opened' \in BOOLEAN /\ wake' \in Ladders
    BY <1>2, LadderTypes, FreshPacerType
       DEF HearingPoll, ListenerOpen, ListenerClose, TypeOK, adc
  <2>3. due' \in SUBSET Timers
    BY <1>2 DEF HearingPoll, TypeOK
  <2>4. QED
    BY <1>2, <2>1, <2>2, <2>3 DEF HearingPoll, TypeOK, phy
<1>3. CASE AutodetectTimer
  BY <1>3, AutodetectType
<1>4. CASE Reopen
  <2>1. asked' \in 0..Reopens /\ upAt' \in -1..Down
    BY <1>4 DEF Reopen, ListenerOpen, TypeOK
  <2>2. QED
    BY <1>4, <2>1, LadderTypes, FreshPacerType DEF Reopen, ListenerOpen, TypeOK, phy
<1>5. CASE ScenePush
  BY <1>5 DEF ScenePush, TypeOK, Pacers, phy, adc
<1>6. CASE FrameSent
  BY <1>6 DEF FrameSent, TypeOK, Pacers, phy, adc
<1>7. CASE BoxFrame
  BY <1>7 DEF BoxFrame, TypeOK, Pacers, phy, adc, EdgeCap
<1>8. CASE MasterGivesUp
  BY <1>8 DEF MasterGivesUp, TypeOK, Pacers, phy, adc
<1>9. CASE CableMoves
  BY <1>9 DEF CableMoves, TypeOK, Kept, adc, EdgeCap
<1>10. CASE OutsideMoves
  BY <1>10 DEF OutsideMoves, TypeOK, phy, adc
<1>11. CASE UNCHANGED vars
  BY <1>11 DEF vars, phy, adc, TypeOK
<1>12. QED
  BY <1>1, <1>2, <1>3, <1>4, <1>5, <1>6, <1>7, <1>8, <1>9, <1>10, <1>11 DEF Next

\* Every field of the state keeps its type: in particular the ladder's count never
\* exceeds MaxBounces and a pending edge is never further away than Down.
THEOREM TypeCorrect == Spec => []TypeOK
<1>1. Init => TypeOK
  BY TypeInit
<1>2. TypeOK /\ [Next]_vars => TypeOK'
  BY TypeStep
<1>3. QED
  BY <1>1, <1>2, PTL DEF Spec

-----------------------------------------------------------------------------
(* An edge in flight belongs to a listener and to a link that is down.     *)

LEMMA InFlightStep ==
    ASSUME EdgeInFlight, [Next]_vars
    PROVE  EdgeInFlight'
<1>1. CASE Tick
  BY <1>1 DEF Tick, EdgeInFlight
<1>2. CASE HearingPoll
  BY <1>2 DEF HearingPoll, ListenerOpen, ListenerClose, EdgeInFlight, phy, adc
<1>3. CASE AutodetectTimer
  <2>1. CASE served /\ WakeUp
    BY <1>3, <2>1 DEF AutodetectTimer, WakeUp, EdgeInFlight, phy
  <2>2. CASE served /\ WakeAsk
    BY <1>3, <2>2 DEF AutodetectTimer, WakeAsk, Bounce, EdgeInFlight, phy
  <2>3. CASE ~served /\ UNCHANGED <<phy, pacer, adc, edges>>
    BY <1>3, <2>3 DEF AutodetectTimer, EdgeInFlight, phy, adc
  <2>4. QED
    BY <1>3, <2>1, <2>2, <2>3 DEF AutodetectTimer
<1>4. CASE Reopen
  BY <1>4 DEF Reopen, ListenerOpen, EdgeInFlight
<1>5. CASE ScenePush \/ FrameSent \/ BoxFrame \/ MasterGivesUp \/ OutsideMoves
  BY <1>5 DEF ScenePush, FrameSent, BoxFrame, MasterGivesUp, OutsideMoves, EdgeInFlight,
              phy, adc
<1>6. CASE CableMoves
  BY <1>6 DEF CableMoves, EdgeInFlight, adc
<1>7. CASE UNCHANGED vars
  BY <1>7 DEF vars, phy, adc, EdgeInFlight
<1>8. QED
  BY <1>1, <1>2, <1>3, <1>4, <1>5, <1>6, <1>7 DEF Next

\* Whatever is closed, reopened, dropped or refused, no pending half of an edge outlives
\* the listener that made it or is left on a link that is already up.
THEOREM InFlight == Spec => []EdgeInFlight
<1>1. Init => EdgeInFlight
  BY DEF Init, EdgeInFlight
<1>2. EdgeInFlight /\ [Next]_vars => EdgeInFlight'
  BY InFlightStep
<1>3. QED
  BY <1>1, <1>2, PTL DEF Spec

-----------------------------------------------------------------------------
(* The bound on the edges.                                                 *)

\* A link that comes back within the scan's patience.
QuickLink == 1 + Down + NegMax < DownHold

\* An operator who has asked for nothing and a kernel that has raised what it took down.
Undisturbed == asked = 0 /\ ~refused

\* The polls of this tick that have yet to count against the patience.
PollsLeft == IF "poll" \in due THEN 1 ELSE 0

\* The scan's patience outlasts what is left of the edge: its down time and the
\* negotiation while it is in flight, the negotiation once the link is up.
Patience ==
    /\ Carrier => hold = 0
    /\ upAt = 0 => "autodetect" \in due
    /\ upAt # Never => hold + PollsLeft + upAt + NegMax < DownHold
    /\ edges > 0 /\ upAt = Never =>
          cable /\ admin /\ (neg > 0 => hold + PollsLeft + neg < DownHold)

\* So the listener whose ladder counted the edges is still the one that is served.
Counted == edges > 0 => served /\ cable /\ opened /\ edges <= wake.bounces

EdgeInv == TypeOK /\ EdgeInFlight /\ Patience /\ Counted

\* What is inductive: the patience and the count hold until a request or a refusal.
BoundInv == TypeOK /\ EdgeInFlight /\ (Undisturbed => Patience /\ Counted)

\* The count the timer's step works on is the one it found, unless this is the first
\* observation of the listener, when there was none.
LEMMA FoundCount ==
    ASSUME TypeOK, WakeAsk
    PROVE  /\ \/ /\ wake'.bounces = (IF opened THEN wake.bounces ELSE 0) + 1
                 /\ Bounce
                 /\ Carrier
              \/ /\ wake'.bounces = (IF opened THEN wake.bounces ELSE 0)
                 /\ UNCHANGED <<phy, upAt, edges>>
           /\ upAt = Never /\ opened' = TRUE
<1> DEFINE w == IF pacer.probing THEN WakeFound ELSE LadderClose(WakeFound)
<1>1. WakeFound.bounces = IF opened THEN wake.bounces ELSE 0
  BY LadderCounts DEF WakeFound, LadderInit, LadderReopen
<1>2. w \in Ladders /\ w.bounces = IF opened THEN wake.bounces ELSE 0
  BY <1>1, ObservedType, LadderTypes DEF LadderClose, Ladders
<1>3. wake' = LadderStep(w, Observed)
  BY DEF WakeAsk
<1>4. wake'.bounces = IF LadderAct(w, Observed) = "BOUNCE" THEN w.bounces + 1 ELSE w.bounces
  BY <1>2, <1>3, ObservedType, LadderCounts
<1>5. LadderAct(w, Observed) = "BOUNCE" => Carrier
  BY DEF LadderAct, Refusal, Observed
<1>6. CASE LadderAct(w, Observed) = "BOUNCE"
  BY <1>2, <1>4, <1>5, <1>6 DEF WakeAsk
<1>7. CASE LadderAct(w, Observed) # "BOUNCE"
  BY <1>2, <1>4, <1>7 DEF WakeAsk
<1>8. QED
  BY <1>6, <1>7

LEMMA TimerKeepsPatience ==
    ASSUME EdgeInv, AutodetectTimer, QuickLink, ~refused'
    PROVE  Patience' /\ Counted'
<1> USE EdgeAssumption, LadderAssumption
<1>1. due' = due \ {"autodetect"} /\ "autodetect" \in due /\ PollsLeft' = PollsLeft
        /\ hold' = (IF Carrier' THEN 0 ELSE hold) /\ served' = served
  BY DEF AutodetectTimer, Kept, PollsLeft
<1>2. hold \in 0..DownHold /\ PollsLeft \in 0..1 /\ upAt \in -1..Down /\ neg \in 0..NegMax
        /\ edges \in 0..EdgeCap /\ wake.bounces \in 0..MaxBounces
  BY DEF EdgeInv, TypeOK, PollsLeft, Ladders
<1>3. CASE served /\ WakeUp /\ upAt > 0
  <2>1. UNCHANGED <<phy, upAt, pacer, opened, wake, edges>>
    BY <1>2, <1>3 DEF WakeUp
  <2>2. QED
    BY <1>1, <1>2, <1>3, <2>1 DEF EdgeInv, Patience, Counted, Carrier, phy
<1>4. CASE served /\ WakeUp /\ upAt = 0
  <2>1. upAt' = -1 /\ admin' = TRUE /\ neg' \in 0..NegMax
           /\ UNCHANGED <<cable, pacer, opened, wake, edges>>
    BY <1>4 DEF WakeUp, QuickLink
  <2>2. hold + PollsLeft + NegMax < DownHold
    BY <1>2, <1>4 DEF EdgeInv, Patience
  <2>3. Patience'
    <3>1. hold' \in 0..hold
      BY <1>1, <1>2
    <3>2. hold' + PollsLeft' + neg' < DownHold
      <4>1. \A h, h2, p, n \in Int :
               h + p + NegMax < DownHold /\ h2 <= h /\ n <= NegMax => h2 + p + n < DownHold
        OBVIOUS
      <4>2. hold \in Int /\ hold' \in Int /\ PollsLeft \in Int /\ neg' \in Int
               /\ hold' <= hold /\ neg' <= NegMax
        BY <1>2, <2>1, <3>1
      <4>3. PollsLeft' = PollsLeft
        BY <1>1
      <4>4. QED
        BY <2>2, <4>1, <4>2, <4>3
    <3>3. edges > 0 => cable' /\ admin'
      BY <2>1 DEF EdgeInv, Counted
    <3>4. Carrier' => hold' = 0
      BY <1>1
    <3>5. QED
      BY <2>1, <3>2, <3>3, <3>4 DEF Patience
  <2>4. Counted'
    BY <1>1, <2>1 DEF EdgeInv, Counted
  <2>5. QED
    BY <2>3, <2>4
<1>5. CASE served /\ WakeAsk /\ Bounce /\ Carrier
             /\ wake'.bounces = (IF opened THEN wake.bounces ELSE 0) + 1
  <2>1. upAt = -1 /\ opened' = TRUE
    BY <1>5, FoundCount DEF EdgeInv
  <2>2. CASE admin' = FALSE /\ upAt' = Down /\ UNCHANGED <<cable, neg>>
               /\ edges' = IF edges < EdgeCap THEN edges + 1 ELSE edges
    <3>1. hold' = 0 /\ ~Carrier'
      BY <1>1, <1>5, <2>2 DEF EdgeInv, Patience, Carrier
    <3>2. Patience'
      BY <1>1, <1>2, <2>2, <3>1 DEF Patience, QuickLink
    <3>3. Counted'
      BY <1>1, <1>2, <1>5, <2>1, <2>2 DEF EdgeInv, Counted, Carrier
    <3>4. QED
      BY <3>2, <3>3
  <2>3. CASE UNCHANGED <<phy, upAt, edges>>
    <3>1. Patience'
      BY <1>1, <1>2, <2>1, <2>3 DEF EdgeInv, Patience, Carrier, phy
    <3>2. Counted'
      BY <1>1, <1>2, <1>5, <2>1, <2>3 DEF EdgeInv, Counted, phy
    <3>3. QED
      BY <3>1, <3>2
  <2>4. QED
    BY <1>5, <2>2, <2>3 DEF Bounce
<1>6. CASE served /\ WakeAsk /\ UNCHANGED <<phy, upAt, edges>>
             /\ wake'.bounces = (IF opened THEN wake.bounces ELSE 0)
  <2>1. upAt = -1 /\ opened' = TRUE
    BY <1>6, FoundCount DEF EdgeInv
  <2>2. Patience'
    BY <1>1, <1>2, <1>6, <2>1 DEF EdgeInv, Patience, Carrier, phy
  <2>3. Counted'
    BY <1>1, <1>2, <1>6, <2>1 DEF EdgeInv, Counted, phy
  <2>4. QED
    BY <2>2, <2>3
<1>7. CASE ~served /\ UNCHANGED <<phy, pacer, adc, edges>>
  <2>1. upAt = -1 /\ edges = 0
    BY <1>2, <1>7 DEF EdgeInv, EdgeInFlight, Counted
  <2>2. QED
    BY <1>1, <1>2, <1>7, <2>1 DEF EdgeInv, Patience, Counted, Carrier, phy, adc
<1>8. upAt > 0 \/ upAt = 0 \/ upAt = -1
  BY <1>2
<1>9. served /\ WakeAsk => \/ Bounce /\ Carrier
                                /\ wake'.bounces = (IF opened THEN wake.bounces ELSE 0) + 1
                           \/ UNCHANGED <<phy, upAt, edges>>
                                /\ wake'.bounces = (IF opened THEN wake.bounces ELSE 0)
  BY FoundCount DEF EdgeInv
<1>10. WakeUp => upAt # -1
  BY DEF WakeUp
<1>11. QED
  BY <1>3, <1>4, <1>5, <1>6, <1>7, <1>8, <1>9, <1>10 DEF AutodetectTimer

LEMMA PollKeepsPatience ==
    ASSUME EdgeInv, HearingPoll, QuickLink
    PROVE  Patience' /\ Counted'
<1> USE EdgeAssumption, LadderAssumption
<1>1. PollsLeft = 1 /\ PollsLeft' = 0 /\ ("autodetect" \in due' <=> "autodetect" \in due)
  BY DEF HearingPoll, PollsLeft
<1>2. UNCHANGED <<cable, admin, neg, edges>> /\ (Carrier' <=> Carrier)
  BY DEF HearingPoll, phy, Carrier
<1>3. hold \in 0..DownHold /\ upAt \in -1..Down /\ neg \in 0..NegMax /\ edges \in 0..EdgeCap
  BY DEF EdgeInv, TypeOK
<1>4. edges > 0 /\ ~Carrier => hold + 1 < DownHold
  BY <1>1, <1>3 DEF EdgeInv, Patience, Carrier
<1>5. upAt # -1 => hold + 1 < DownHold
  BY <1>1, <1>3 DEF EdgeInv, Patience
<1>6. CASE UNCHANGED <<hold, served, pacer, adc>>
  BY <1>1, <1>2, <1>3, <1>6 DEF EdgeInv, Patience, Counted, adc
<1>7. CASE served /\ ~Carrier /\ hold' = hold + 1 /\ UNCHANGED <<served, pacer, adc>>
  <2>1. Counted'
    BY <1>2, <1>7 DEF EdgeInv, Counted, adc
  <2>2. Patience'
    BY <1>1, <1>2, <1>3, <1>7 DEF EdgeInv, Patience, adc
  <2>3. QED
    BY <2>1, <2>2
<1>8. CASE ~Carrier /\ hold + 1 >= DownHold /\ hold' = 0 /\ ListenerClose
  <2>1. edges = 0 /\ upAt' = -1
    BY <1>3, <1>4, <1>8 DEF ListenerClose
  <2>2. QED
    BY <1>2, <1>8, <2>1 DEF Patience, Counted
<1>9. CASE ~served /\ Carrier /\ UNCHANGED hold /\ ListenerOpen
  <2>1. edges = 0 /\ upAt' = -1
    BY <1>3, <1>9 DEF EdgeInv, Counted, ListenerOpen
  <2>2. QED
    BY <1>2, <1>9, <2>1 DEF EdgeInv, Patience, Counted
<1>10. QED
  BY <1>6, <1>7, <1>8, <1>9 DEF HearingPoll

LEMMA TickKeepsPatience ==
    ASSUME EdgeInv, Tick, QuickLink
    PROVE  Patience' /\ Counted'
<1> USE EdgeAssumption, LadderAssumption
<1>1. PollsLeft = 0 /\ PollsLeft' = 1 /\ "autodetect" \in due' /\ "autodetect" \notin due
  BY DEF Tick, PollsLeft, Timers
<1>2. UNCHANGED <<cable, admin, served, opened, edges>>
  BY DEF Tick
<1>3. hold \in 0..DownHold /\ upAt \in -1..Down /\ neg \in 0..NegMax /\ edges \in 0..EdgeCap
  BY DEF EdgeInv, TypeOK
<1>4. wake'.bounces = wake.bounces
  BY DEF Tick, LadderAge
<1>5. Counted'
  BY <1>2, <1>4 DEF EdgeInv, Counted
<1>6. hold' = IF Carrier' THEN 0 ELSE hold
  BY DEF Tick, Kept
<1>7. upAt # 0 /\ upAt' = (IF upAt > 0 THEN upAt - 1 ELSE upAt)
  BY <1>1 DEF Tick, EdgeInv, Patience
<1>8. neg' = IF cable /\ admin /\ neg > 0 THEN neg - 1 ELSE neg
  BY DEF Tick
<1>9. upAt' # -1 => hold' + PollsLeft' + upAt' + NegMax < DownHold
  BY <1>1, <1>3, <1>6, <1>7 DEF EdgeInv, Patience
<1>10. edges' > 0 /\ upAt' = -1 =>
          cable' /\ admin' /\ (neg' > 0 => hold' + PollsLeft' + neg' < DownHold)
  BY <1>1, <1>2, <1>3, <1>6, <1>7, <1>8 DEF EdgeInv, Patience
<1>11. QED
  BY <1>1, <1>5, <1>6, <1>9, <1>10 DEF Patience

\* When the link comes back within the scan's patience, no box that gives no sign is
\* flapped more than MaxBounces times, until a request or a refused `up`: the edge never
\* costs the listener whose ladder counts it, so a re-serve never starts the count again.
THEOREM Bounded ==
    ASSUME QuickLink
    PROVE  Spec => []EdgesBounded
<1>1. Init => BoundInv
  <2> SUFFICES ASSUME Init PROVE BoundInv
    OBVIOUS
  <2>1. upAt = -1 /\ edges = 0 /\ hold = 0
    BY DEF Init
  <2>2. EdgeInFlight /\ Patience /\ Counted
    BY <2>1 DEF EdgeInFlight, Patience, Counted
  <2>3. QED
    BY <2>2, TypeInit DEF BoundInv
<1>2. BoundInv /\ [Next]_vars => BoundInv'
  <2> SUFFICES ASSUME BoundInv, [Next]_vars, Undisturbed' PROVE Patience' /\ Counted'
    BY TypeStep, InFlightStep DEF BoundInv
  <2>0. Undisturbed
    <3>1. asked' = 0 => asked = 0
      BY EdgeAssumption DEF BoundInv, TypeOK, Next, vars, Tick, HearingPoll, AutodetectTimer,
         Reopen, ScenePush, FrameSent, BoxFrame, MasterGivesUp, CableMoves, OutsideMoves
    <3>2. refused => refused'
      BY DEF Next, vars, phy, Tick, HearingPoll, AutodetectTimer, WakeUp, WakeAsk, Bounce,
         Reopen, ScenePush, FrameSent, BoxFrame, MasterGivesUp, CableMoves, OutsideMoves
    <3>3. QED
      BY <3>1, <3>2 DEF Undisturbed
  <2>10. EdgeInv
    BY <2>0 DEF BoundInv, EdgeInv
  <2> USE EdgeAssumption, LadderAssumption
  <2>1. CASE Tick
    BY <2>10, <2>1, QuickLink, TickKeepsPatience
  <2>2. CASE HearingPoll
    BY <2>10, <2>2, QuickLink, PollKeepsPatience
  <2>3. CASE AutodetectTimer
    BY <2>10, <2>3, QuickLink, TimerKeepsPatience DEF Undisturbed
  <2>4. CASE Reopen
    <3>1. asked \in Nat /\ asked' = asked + 1
      BY <2>4, <2>10 DEF Reopen, EdgeInv, TypeOK
    <3>2. QED
      BY <3>1 DEF Undisturbed
  <2>5. CASE ScenePush \/ FrameSent \/ MasterGivesUp \/ OutsideMoves
    BY <2>10, <2>5 DEF ScenePush, FrameSent, MasterGivesUp, OutsideMoves, EdgeInv, Patience,
                Counted, Carrier, PollsLeft, phy, adc
  <2>6. CASE BoxFrame
    BY <2>10, <2>6 DEF BoxFrame, EdgeInv, Patience, Counted, Carrier, PollsLeft, phy, adc
  <2>7. CASE CableMoves
    <3>1. edges' = 0 /\ UNCHANGED <<due, upAt>> /\ hold' = (IF Carrier' THEN 0 ELSE hold)
             /\ PollsLeft' = PollsLeft
      BY <2>7 DEF CableMoves, Kept, PollsLeft, adc
    <3>2. hold \in 0..DownHold /\ PollsLeft \in 0..1 /\ upAt \in -1..Down
      BY <2>10 DEF EdgeInv, TypeOK, PollsLeft
    <3>3. hold' \in 0..hold
      BY <3>1, <3>2
    <3>4. upAt' # -1 => hold' + PollsLeft' + upAt' + NegMax < DownHold
      BY <2>10, <3>1, <3>2, <3>3 DEF EdgeInv, Patience
    <3>5. QED
      BY <2>10, <3>1, <3>4 DEF EdgeInv, Patience, Counted
  <2>8. CASE UNCHANGED vars
    BY <2>10, <2>8 DEF vars, phy, adc, EdgeInv, Patience, Counted, Carrier, PollsLeft
  <2>9. QED
    BY <2>1, <2>2, <2>3, <2>4, <2>5, <2>6, <2>7, <2>8 DEF Next
<1>3. BoundInv => EdgesBounded
  BY LadderAssumption
     DEF BoundInv, Undisturbed, TypeOK, Ladders, Counted, EdgesBounded, EdgeCap
<1>4. QED
  BY <1>1, <1>2, <1>3, PTL DEF Spec
=============================================================================
