----------------------------- MODULE PortProofs ------------------------------
(***************************************************************************)
(* What the listeners of a port take is given back, for every number of    *)
(* segments, every set of pins and rates and every link: TypeOK and        *)
(* NothingLeaks of Port; and the port's account is kept, Port => Ledger    *)
(* (KeepsAccount).                                                         *)
(***************************************************************************)
EXTENDS Port, FiniteSetTheorems, WellFoundedInduction, TLAPS

\* What listener_close gives back: of a tap, and of every other segment.
OfTap  == {"tap", "tap_src", "rx", "ring"}
OfRest == {"rx_thread", "src", "sink", "tap_src", "timer", "slave", "tx_ring", "rx", "ring",
           "lock"}

\* What an open holds when it arrives at a step.
Within(at) ==
    CASE at \in {"tap", "rx"}                -> {}
      [] at \in {"door", "budget", "slave"}  -> {"rx", "ring"}
      [] at \in {"yield", "again", "claim"}  -> {"rx", "ring", "tx_ring"}
      [] at = "sink"                         -> {"rx", "ring", "tx_ring", "lock"}
      [] OTHER                               -> OfRest

\* The lock that is ours is among what the segment holds.
LockIsHeld == \A s \in Segs : lock[s] = "us" <=> "lock" \in held[s]

\* A segment that is neither open nor being opened holds nothing.
ClosedHoldsNothing == \A s \in Segs : ~opened[s] /\ ~Running(s) => held[s] = {}

\* An open segment holds no more than its close gives back.
OpenIsClosable ==
    \A s \in Segs : opened[s] => held[s] \subseteq (IF cfg[s].kind = "tap" THEN OfTap ELSE OfRest)

\* An open that is under way holds no more than the refusal of its step gives back.
RunIsBounded ==
    run # Idle =>
        /\ ~opened[run.seg] /\ run.seg \notin run.out
        /\ held[run.seg] \subseteq Within(run.at)
        /\ run.at = "tap" => cfg[run.seg].kind = "tap"
        /\ run.at \notin {"tap", "rx"} => cfg[run.seg].kind # "tap"
        /\ run.at = "rx" /\ cfg[run.seg].kind = "tap" => cfg[run.seg].vacant

Inv == TypeOK /\ LockIsHeld /\ ClosedHoldsNothing /\ OpenIsClosable /\ RunIsBounded

-----------------------------------------------------------------------------
\* Hold keeps the types of what is held and of the locks, keeps the lock and its segment
\* together, and touches no other segment.
LEMMA HoldLemma ==
    ASSUME TypeOK, LockIsHeld, NEW s \in Segs, NEW stuff \in SUBSET Stuff, Hold(s, stuff)
    PROVE  /\ held' \in [Segs -> SUBSET Stuff]
           /\ lock' \in [Segs -> {"free", "us", "them"}]
           /\ LockIsHeld'
           /\ held'[s] = stuff
           /\ \A t \in Segs \ {s} : held'[t] = held[t]
<1>1. /\ held \in [Segs -> SUBSET Stuff]
      /\ lock \in [Segs -> {"free", "us", "them"}]
  BY DEF TypeOK
<1>2. /\ held' = [held EXCEPT ![s] = stuff]
      /\ lock' = IF "lock" \in stuff THEN [lock EXCEPT ![s] = "us"]
                 ELSE IF lock[s] = "us" THEN [lock EXCEPT ![s] = "free"]
                 ELSE lock
  BY DEF Hold
<1>3. /\ held' \in [Segs -> SUBSET Stuff]
      /\ held'[s] = stuff
      /\ \A t \in Segs \ {s} : held'[t] = held[t]
  BY <1>1, <1>2
<1>4. lock' \in [Segs -> {"free", "us", "them"}]
  BY <1>1, <1>2
<1>5. \A t \in Segs : lock'[t] = "us" <=> "lock" \in held'[t]
  <2> TAKE t \in Segs
  <2>1. CASE t = s
    BY <1>1, <1>2, <1>3, <2>1
  <2>2. CASE t # s
    BY <1>1, <1>2, <1>3, <2>2 DEF LockIsHeld
  <2> QED BY <2>1, <2>2
<1> QED BY <1>3, <1>4, <1>5 DEF LockIsHeld

\* What listener_close leaves of a segment that is open, or that is closed already.
LEMMA CloseLemma ==
    ASSUME Inv, NEW s \in Segs
    PROVE  /\ listener_close(s) \in SUBSET Stuff
           /\ ~Running(s) => listener_close(s) = {}
<1>1. held[s] \in SUBSET Stuff
  BY DEF Inv, TypeOK
<1>2. listener_close(s) \in SUBSET Stuff
  BY <1>1 DEF listener_close
<1>3. ASSUME ~Running(s) PROVE listener_close(s) = {}
  <2>1. CASE ~opened[s]
    BY <1>3, <2>1 DEF Inv, ClosedHoldsNothing, listener_close
  <2>2. CASE opened[s] /\ cfg[s].kind = "tap"
    <3>1. held[s] \subseteq OfTap
      BY <2>2 DEF Inv, OpenIsClosable
    <3> QED BY <3>1, <2>2 DEF OfTap, listener_close
  <2>3. CASE opened[s] /\ cfg[s].kind # "tap"
    <3>1. held[s] \subseteq OfRest
      BY <2>3 DEF Inv, OpenIsClosable
    <3> QED BY <3>1, <2>3 DEF OfRest, listener_close
  <2> QED BY <2>1, <2>2, <2>3
<1> QED BY <1>2, <1>3

-----------------------------------------------------------------------------
(* What one step may do, whatever it is.                                   *)

\* The types of everything but what is held and the locks.
OtherTypes ==
    /\ wire \in [Segs -> {"silent", "box", "other"}]
    /\ scan \in [Segs -> {"LINKED", "SEGMENT"}]
    /\ yielded \in [Segs -> BOOLEAN]
    /\ opened \in [Segs -> BOOLEAN]
    /\ cfg \in [Segs -> [kind : Kinds, vacant : BOOLEAN, heard : BOOLEAN, rate : Rates]]
    /\ carry \in [Segs -> BOOLEAN]
    /\ run \in Runs \cup {Idle}
    /\ run # Idle => (run.at = "yield" <=> run.out # {})
    /\ troubles \in 0..Troubles

\* An open that is under way is a record of Runs, and it is nobody else's.
LEMMA RunLemma ==
    ASSUME TypeOK, run # Idle
    PROVE  /\ run \in Runs /\ run.seg \in Segs
           /\ \A s \in Segs : Running(s) <=> s = run.seg
           /\ run.at # "yield" <=> run.out = {}
<1>1. run \in Runs
  BY DEF TypeOK
<1> QED BY <1>1 DEF TypeOK, Runs, Running

\* A step of one segment keeps the invariant when that segment's own part of it is kept.
LEMMA OneSegment ==
    ASSUME Inv, NEW s \in Segs, NEW stuff \in SUBSET Stuff, Hold(s, stuff), OtherTypes',
           \A t \in Segs \ {s} : /\ opened'[t] = opened[t] /\ cfg'[t] = cfg[t]
                                 /\ Running(t)' <=> Running(t),
           ~opened'[s] /\ ~Running(s)' => stuff = {},
           opened'[s] => stuff \subseteq (IF cfg'[s].kind = "tap" THEN OfTap ELSE OfRest),
           RunIsBounded'
    PROVE  Inv'
<1>1. /\ held' \in [Segs -> SUBSET Stuff]
      /\ lock' \in [Segs -> {"free", "us", "them"}]
      /\ LockIsHeld'
      /\ held'[s] = stuff
      /\ \A t \in Segs \ {s} : held'[t] = held[t]
  BY HoldLemma DEF Inv
<1>2. TypeOK'
  BY <1>1 DEF TypeOK, OtherTypes
<1>3. ClosedHoldsNothing'
  <2> SUFFICES ASSUME NEW t \in Segs, ~opened'[t], ~Running(t)' PROVE held'[t] = {}
    BY DEF ClosedHoldsNothing
  <2>1. CASE t = s
    BY <1>1, <2>1
  <2>2. CASE t # s
    BY <1>1, <2>2 DEF Inv, ClosedHoldsNothing
  <2> QED BY <2>1, <2>2
<1>4. OpenIsClosable'
  <2> SUFFICES ASSUME NEW t \in Segs, opened'[t]
               PROVE  held'[t] \subseteq (IF cfg'[t].kind = "tap" THEN OfTap ELSE OfRest)
    BY DEF OpenIsClosable, OfTap, OfRest
  <2>1. CASE t = s
    BY <1>1, <2>1
  <2>2. CASE t # s
    BY <1>1, <2>2 DEF Inv, OpenIsClosable
  <2> QED BY <2>1, <2>2
<1> QED BY <1>1, <1>2, <1>3, <1>4 DEF Inv

\* A drop, with no open under way or with the open of another segment going on.
LEMMA DroppedLemma ==
    ASSUME Inv, NEW s \in Segs, Dropped(s), ~Running(s), OtherTypes', RunIsBounded',
           run = Idle <=> run' = Idle, run # Idle => run'.seg = run.seg
    PROVE  Inv'
<1>1. listener_close(s) \in SUBSET Stuff /\ listener_close(s) = {}
  BY CloseLemma
<1>2. Hold(s, listener_close(s))
  BY DEF Dropped
<1>3. /\ opened' = [opened EXCEPT ![s] = FALSE] /\ cfg' = [cfg EXCEPT ![s] = Cleared]
      /\ opened \in [Segs -> BOOLEAN]
      /\ cfg \in [Segs -> [kind : Kinds, vacant : BOOLEAN, heard : BOOLEAN, rate : Rates]]
  BY DEF Dropped, Inv, TypeOK
<1>4. \A t \in Segs \ {s} : /\ opened'[t] = opened[t] /\ cfg'[t] = cfg[t]
                            /\ Running(t)' <=> Running(t)
  BY <1>3 DEF Running
<1>5. ~opened'[s]
  BY <1>3
<1> QED BY <1>1, <1>2, <1>4, <1>5, OneSegment

\* A refusal that gives back everything.
LEMMA RefusedLemma ==
    ASSUME Inv, NEW s \in Segs, Running(s), NEW left, left = {}, Refused(s, left),
           troubles' \in 0..Troubles
    PROVE  Inv'
<1>1. TypeOK /\ run # Idle /\ ~opened[s]
  BY DEF Inv, RunIsBounded, Running
<1>2. OtherTypes'
  BY <1>1, PortAssumption DEF TypeOK, OtherTypes, Refused, Cleared, Kinds
<1>3. \A t \in Segs \ {s} : /\ opened'[t] = opened[t] /\ cfg'[t] = cfg[t]
                            /\ Running(t)' <=> Running(t)
  BY <1>1 DEF TypeOK, Refused, Running
<1>4. RunIsBounded' /\ ~opened'[s]
  BY <1>1 DEF Refused, RunIsBounded
<1> QED BY <1>2, <1>3, <1>4, OneSegment DEF Refused

\* The open ends with no more than its close gives back.
LEMMA UpLemma ==
    ASSUME Inv, NEW s \in Segs, Running(s), NEW stuff \in SUBSET Stuff, Up(s, stuff),
           stuff \subseteq (IF cfg[s].kind = "tap" THEN OfTap ELSE OfRest)
    PROVE  Inv'
<1>1. TypeOK
  BY DEF Inv
<1>2. OtherTypes'
  BY <1>1 DEF TypeOK, OtherTypes, Up
<1>3. \A t \in Segs \ {s} : /\ opened'[t] = opened[t] /\ cfg'[t] = cfg[t]
                            /\ Running(t)' <=> Running(t)
  BY <1>1 DEF TypeOK, Up, Running
<1>4. RunIsBounded' /\ opened'[s] /\ cfg'[s] = cfg[s]
  BY <1>1 DEF Up, RunIsBounded, TypeOK
<1> QED BY <1>2, <1>3, <1>4, OneSegment DEF Up

\* The open goes on to a step within which it holds what it holds.
LEMMA FurtherLemma ==
    ASSUME Inv, NEW s \in Segs, Running(s), NEW stuff \in SUBSET Stuff,
           NEW step \in Steps \ {"tap", "rx", "yield"}, run.at # "yield",
           Further(s, stuff, step), stuff \subseteq Within(step), cfg[s].kind # "tap",
           troubles' \in 0..Troubles
    PROVE  Inv'
<1>1. TypeOK /\ run # Idle /\ run \in Runs /\ run.seg = s /\ run.out = {} /\ ~opened[s]
  BY RunLemma DEF Inv, Running, RunIsBounded
<1>2. run' = [run EXCEPT !.at = step]
  BY DEF Further, Goto
<1>3. run' \in Runs /\ run'.seg = s /\ run'.out = {} /\ run'.at = step /\ run' # Idle
  BY <1>1, <1>2 DEF Runs, Idle, Steps
<1>4. OtherTypes'
  BY <1>1, <1>3 DEF TypeOK, OtherTypes, Further
<1>5. \A t \in Segs \ {s} : /\ opened'[t] = opened[t] /\ cfg'[t] = cfg[t]
                            /\ Running(t)' <=> Running(t)
  BY <1>1, <1>3 DEF Further, Running
<1>6. Hold(s, stuff) /\ Running(s)' /\ ~opened'[s] /\ cfg' = cfg
  BY <1>1, <1>3 DEF Further, Running
<1>7. held'[s] = stuff
  BY <1>1, <1>6, HoldLemma DEF Inv
<1>8. RunIsBounded'
  BY <1>3, <1>6, <1>7 DEF RunIsBounded, Within
<1> QED BY <1>4, <1>5, <1>6, <1>8, OneSegment

-----------------------------------------------------------------------------
(* The actions.                                                            *)

LEMMA HearingServeLemma ==
    ASSUME Inv, NEW s \in Segs, HearingServe(s)
    PROVE  Inv'
<1>1. TypeOK /\ run = Idle /\ ~opened[s] /\ held[s] = {}
  BY DEF Inv, HearingServe, ClosedHoldsNothing, Running
<1>2. PICK kind \in Justified(s) :
         /\ cfg' = [cfg EXCEPT ![s] = [kind |-> kind, vacant |-> kind = "vacant",
                                       heard |-> Heard(s), rate |-> Default]]
         /\ run' = [at |-> IF kind = "tap" THEN "tap" ELSE "rx", why |-> "serve",
                    seg |-> s, out |-> {}]
         /\ yielded' = [yielded EXCEPT ![s] = @ /\ kind \in {"vacant", "refused"}]
  BY DEF HearingServe
<1>3. kind \in Kinds
  <2>1. wire[s] \in {"silent", "box", "other"}
    BY <1>1 DEF TypeOK
  <2> QED BY <1>2, <2>1 DEF Justified, Kinds
<1>4. /\ run' \in Runs /\ run' # Idle /\ run'.seg = s /\ run'.out = {}
      /\ run'.at = "tap" \/ run'.at = "rx"
      /\ run'.at = "rx" <=> kind # "tap"
  BY <1>2 DEF Runs, Steps, Idle
<1>5. /\ cfg' \in [Segs -> [kind : Kinds, vacant : BOOLEAN, heard : BOOLEAN, rate : Rates]]
      /\ cfg'[s].kind = kind
      /\ \A t \in Segs \ {s} : cfg'[t] = cfg[t]
  BY <1>1, <1>2, <1>3, PortAssumption DEF TypeOK, Heard
<1>6. yielded' \in [Segs -> BOOLEAN] /\ scan' \in [Segs -> {"LINKED", "SEGMENT"}]
  BY <1>1, <1>2 DEF TypeOK, HearingServe
<1>7. UNCHANGED <<wire, lock, opened, held, carry, troubles>>
  BY DEF HearingServe, world
<1>8. OtherTypes'
  BY <1>1, <1>4, <1>5, <1>6, <1>7 DEF TypeOK, OtherTypes
<1>9. Hold(s, {})
  <2>1. held' = [held EXCEPT ![s] = {}]
    BY <1>1, <1>7 DEF TypeOK
  <2>2. lock[s] # "us"
    BY <1>1 DEF Inv, LockIsHeld
  <2> QED BY <1>7, <2>1, <2>2 DEF Hold
<1>10. \A t \in Segs \ {s} : /\ opened'[t] = opened[t] /\ cfg'[t] = cfg[t]
                             /\ Running(t)' <=> Running(t)
  BY <1>1, <1>4, <1>5, <1>7 DEF Running
<1>11. RunIsBounded'
  BY <1>1, <1>4, <1>5, <1>7 DEF RunIsBounded
<1>12. Running(s)' /\ ~opened'[s]
  BY <1>1, <1>4, <1>7 DEF Running
<1>13. {} \in SUBSET Stuff
  OBVIOUS
<1> QED BY <1>8, <1>9, <1>10, <1>11, <1>12, <1>13, OneSegment

\* What a drop that begins and ends with no open under way leaves of the types.
LEMMA DroppedTypes ==
    ASSUME TypeOK, NEW s \in Segs, Dropped(s), UNCHANGED wire,
           yielded' \in [Segs -> BOOLEAN], run' \in Runs \cup {Idle},
           run' # Idle => (run'.at = "yield" <=> run'.out # {}), troubles' \in 0..Troubles
    PROVE  OtherTypes'
<1>1. Cleared \in [kind : Kinds, vacant : BOOLEAN, heard : BOOLEAN, rate : Rates]
  BY PortAssumption DEF Cleared, Kinds
<1> QED BY <1>1 DEF TypeOK, Dropped, OtherTypes

LEMMA DropLemma ==
    ASSUME Inv, NEW s \in Segs, HearingDrop(s) \/ ReopenAtRole(s)
    PROVE  Inv'
<1>1. /\ TypeOK /\ run = Idle /\ run' = Idle /\ Dropped(s) /\ UNCHANGED wire
      /\ yielded' \in [Segs -> BOOLEAN]
  BY DEF Inv, TypeOK, HearingDrop, ReopenAtRole
<1>2. troubles' \in 0..Troubles
  BY <1>1, PortAssumption DEF TypeOK, HearingDrop, ReopenAtRole, Trouble
<1>3. OtherTypes'
  BY <1>1, <1>2, DroppedTypes DEF TypeOK
<1>4. RunIsBounded' /\ ~Running(s)
  BY <1>1 DEF RunIsBounded, Running
<1> QED BY <1>1, <1>3, <1>4, DroppedLemma

LEMMA YieldOneLemma ==
    ASSUME Inv, NEW t \in Segs, YieldOne(t)
    PROVE  Inv'
<1>1. /\ TypeOK /\ run.at = "yield" /\ t \in run.out /\ Dropped(t)
      /\ UNCHANGED <<wire, troubles>>
      /\ run' = [run EXCEPT !.out = @ \ {t}, !.at = IF run.out = {t} THEN "again" ELSE @]
  BY DEF Inv, YieldOne
<1>2. run # Idle /\ run \in Runs /\ run.seg # t
  BY <1>1 DEF Inv, TypeOK, Idle, RunIsBounded
<1>3. /\ run' \in Runs /\ run' # Idle /\ run'.seg = run.seg /\ run'.out = run.out \ {t}
      /\ run'.at = IF run.out = {t} THEN "again" ELSE "yield"
  BY <1>1, <1>2 DEF Runs, Idle, Steps
<1>4. run'.at = "yield" <=> run'.out # {}
  BY <1>1, <1>3
<1>5. yielded' \in [Segs -> BOOLEAN] /\ troubles' \in 0..Troubles
  BY <1>1 DEF TypeOK, YieldOne
<1>6. OtherTypes'
  BY <1>1, <1>3, <1>4, <1>5, DroppedTypes
<1>7. run.seg \in Segs
  BY <1>2 DEF Runs
<1>8. /\ held'[run.seg] = held[run.seg] /\ opened'[run.seg] = opened[run.seg]
      /\ cfg'[run.seg] = cfg[run.seg]
  BY <1>1, <1>2, <1>7 DEF Dropped, Hold, TypeOK
<1>9. held[run.seg] \subseteq Within("yield")
  BY <1>1, <1>2 DEF Inv, RunIsBounded
<1>10. Within(run'.at) = Within("yield")
  BY <1>3 DEF Within
<1>11. RunIsBounded'
  BY <1>1, <1>2, <1>3, <1>8, <1>9, <1>10 DEF Inv, RunIsBounded
<1>12. ~Running(t)
  BY <1>2 DEF Running
<1> QED BY <1>1, <1>2, <1>3, <1>6, <1>11, <1>12, DroppedLemma

LEMMA ReopenAtRateLemma ==
    ASSUME Inv, NEW s \in Segs, ReopenAtRate(s)
    PROVE  Inv'
<1>1. TypeOK /\ run = Idle /\ opened[s] /\ cfg[s].kind = "master" /\ ~Running(s)
  BY DEF Inv, ReopenAtRate, Running
<1>2. listener_close(s) = {} /\ Hold(s, {})
  BY <1>1, CloseLemma DEF ReopenAtRate
<1>3. PICK hz \in Rates : cfg' = [cfg EXCEPT ![s].rate = hz]
  BY DEF ReopenAtRate
<1>4. /\ cfg' \in [Segs -> [kind : Kinds, vacant : BOOLEAN, heard : BOOLEAN, rate : Rates]]
      /\ cfg'[s].kind = "master"
      /\ \A t \in Segs \ {s} : cfg'[t] = cfg[t]
  BY <1>1, <1>3 DEF TypeOK
<1>5. run' \in Runs /\ run' # Idle /\ run'.seg = s /\ run'.out = {} /\ run'.at = "rx"
  BY DEF ReopenAtRate, Runs, Steps, Idle
<1>6. troubles' \in 0..Troubles
  BY <1>1, PortAssumption DEF TypeOK, ReopenAtRate, Trouble
<1>7. /\ opened' = [opened EXCEPT ![s] = FALSE] /\ carry' = [carry EXCEPT ![s] = FALSE]
      /\ UNCHANGED <<wire, scan, yielded>>
  BY DEF ReopenAtRate
<1>8. OtherTypes'
  BY <1>1, <1>4, <1>5, <1>6, <1>7 DEF TypeOK, OtherTypes
<1>9. \A t \in Segs \ {s} : /\ opened'[t] = opened[t] /\ cfg'[t] = cfg[t]
                            /\ Running(t)' <=> Running(t)
  BY <1>1, <1>4, <1>5, <1>7 DEF Running, TypeOK
<1>10. held'[s] = {}
  BY <1>1, <1>2, HoldLemma DEF Inv
<1>11. ~opened'[s] /\ Running(s)'
  BY <1>1, <1>5, <1>7 DEF Running, TypeOK
<1>12. RunIsBounded'
  BY <1>4, <1>5, <1>10, <1>11 DEF RunIsBounded
<1>13. {} \in SUBSET Stuff
  OBVIOUS
<1> QED BY <1>2, <1>8, <1>9, <1>11, <1>12, <1>13, OneSegment

\* What is known at a step of the open of segment s.
LEMMA StepLemma ==
    ASSUME Inv, NEW s \in Segs, Running(s)
    PROVE  /\ TypeOK /\ run # Idle /\ run \in Runs /\ run.seg = s
           /\ ~opened[s] /\ held[s] \subseteq Within(run.at)
           /\ held[s] \in SUBSET Stuff /\ troubles \in 0..Troubles
           /\ Trouble => troubles' \in 0..Troubles
           /\ run.at = "tap" => cfg[s].kind = "tap"
           /\ run.at \notin {"tap", "rx"} => cfg[s].kind # "tap"
           /\ run.at = "rx" /\ cfg[s].kind = "tap" => cfg[s].vacant
<1>1. TypeOK /\ run # Idle /\ run.seg = s /\ RunIsBounded
  BY DEF Inv, Running
<1>2. held[s] \in SUBSET Stuff /\ troubles \in 0..Troubles /\ run \in Runs
  BY <1>1 DEF TypeOK
<1>3. Trouble => troubles' \in 0..Troubles
  BY <1>2, PortAssumption DEF Trouble
<1> QED BY <1>1, <1>2, <1>3 DEF RunIsBounded

LEMMA OpenTapLemma ==
    ASSUME Inv, NEW s \in Segs, Running(s), OpenTap(s)
    PROVE  Inv'
<1>1. run.at = "tap" /\ cfg[s].kind = "tap" /\ held[s] = {}
  BY StepLemma DEF OpenTap, Within
<1>2. CASE Up(s, {"tap", "tap_src"})
  <2>1. {"tap", "tap_src"} \in SUBSET Stuff /\ {"tap", "tap_src"} \subseteq OfTap
    BY DEF Stuff, OfTap
  <2> QED BY <1>1, <1>2, <2>1, UpLemma
<1>3. CASE /\ cfg' = [cfg EXCEPT ![s].vacant = TRUE] /\ Goto("rx")
           /\ UNCHANGED <<world, scan, yielded, opened, held, carry, troubles>>
  <2>1. TypeOK /\ run # Idle /\ run \in Runs /\ run.seg = s /\ ~opened[s] /\ run.out = {}
    BY <1>1, StepLemma, RunLemma
  <2>2. run' = [run EXCEPT !.at = "rx"]
    BY <1>3 DEF Goto
  <2>3. run' \in Runs /\ run' # Idle /\ run'.seg = s /\ run'.out = {} /\ run'.at = "rx"
    BY <2>1, <2>2 DEF Runs, Idle, Steps
  <2>4. /\ cfg' \in [Segs -> [kind : Kinds, vacant : BOOLEAN, heard : BOOLEAN, rate : Rates]]
        /\ cfg'[s].vacant = TRUE
        /\ \A t \in Segs \ {s} : cfg'[t] = cfg[t]
    <3> DEFINE door == [cfg[s] EXCEPT !.vacant = TRUE]
    <3>1. cfg \in [Segs -> [kind : Kinds, vacant : BOOLEAN, heard : BOOLEAN, rate : Rates]]
      BY <2>1 DEF TypeOK
    <3>2. cfg' = [cfg EXCEPT ![s] = door]
      BY <1>3
    <3>3. cfg[s] \in [kind : Kinds, vacant : BOOLEAN, heard : BOOLEAN, rate : Rates]
      BY <3>1
    <3>4. door \in [kind : Kinds, vacant : BOOLEAN, heard : BOOLEAN, rate : Rates]
      BY <3>3, Zenon
    <3>5. door.vacant = TRUE
      BY <3>3
    <3> HIDE DEF door
    <3> QED BY <3>1, <3>2, <3>4, <3>5
  <2>5. UNCHANGED <<wire, lock, scan, yielded, opened, held, carry, troubles>>
    BY <1>3 DEF world
  <2>6. OtherTypes'
    BY <2>1, <2>3, <2>4, <2>5 DEF TypeOK, OtherTypes
  <2>7. Hold(s, {})
    <3>1. held' = [held EXCEPT ![s] = {}]
      BY <1>1, <2>1, <2>5 DEF TypeOK
    <3>2. lock[s] # "us"
      BY <1>1 DEF Inv, LockIsHeld
    <3> QED BY <2>5, <3>1, <3>2 DEF Hold
  <2>8. \A t \in Segs \ {s} : /\ opened'[t] = opened[t] /\ cfg'[t] = cfg[t]
                              /\ Running(t)' <=> Running(t)
    BY <2>1, <2>3, <2>4, <2>5 DEF Running
  <2>9. RunIsBounded' /\ ~opened'[s] /\ Running(s)'
    BY <1>1, <2>1, <2>3, <2>4, <2>5 DEF RunIsBounded, Running
  <2>10. {} \in SUBSET Stuff
    OBVIOUS
  <2> QED BY <2>6, <2>7, <2>8, <2>9, <2>10, OneSegment
<1>4. CASE Trouble /\ Refused(s, {})
  BY <1>4, StepLemma, RefusedLemma
<1> QED BY <1>2, <1>3, <1>4 DEF OpenTap

LEMMA OpenRxLemma ==
    ASSUME Inv, NEW s \in Segs, Running(s), OpenRx(s)
    PROVE  Inv'
<1> DEFINE stuff == held[s] \cup {"rx", "ring"}
           step  == CASE cfg[s].kind = "refused" -> "door"
                      [] cfg[s].kind = "master"  -> "budget"
                      [] OTHER                   -> "slave"
<1>1. run.at = "rx" /\ held[s] = {} /\ stuff = {"rx", "ring"}
  BY StepLemma DEF OpenRx, Within
<1>2. stuff \in SUBSET Stuff /\ stuff \subseteq OfTap /\ stuff \subseteq OfRest
  BY <1>1 DEF Stuff, OfTap, OfRest
<1>3. CASE cfg[s].vacant /\ Up(s, stuff)
  BY <1>2, <1>3, UpLemma
<1>4. CASE ~cfg[s].vacant /\ Further(s, stuff, step) /\ UNCHANGED troubles
  <2>1. step \in {"door", "budget", "slave"}
    OBVIOUS
  <2>2. step \in Steps \ {"tap", "rx", "yield"}
    BY <2>1 DEF Steps
  <2>3. stuff \subseteq Within(step)
    <3> HIDE DEF step
    <3> QED BY <1>1, <2>1 DEF Within
  <2>4. cfg[s].kind # "tap" /\ troubles' \in 0..Troubles /\ run.at # "yield"
    BY <1>1, <1>4, StepLemma
  <2> HIDE DEF step
  <2> QED BY <1>2, <1>4, <2>2, <2>3, <2>4, FurtherLemma
<1>5. CASE Trouble /\ Refused(s, held[s])
  BY <1>1, <1>5, StepLemma, RefusedLemma
<1> QED BY <1>3, <1>4, <1>5 DEF OpenRx

LEMMA OpenDoorLemma ==
    ASSUME Inv, NEW s \in Segs, Running(s), OpenDoor(s)
    PROVE  Inv'
<1>1. run.at = "door" /\ cfg[s].kind # "tap" /\ held[s] \subseteq {"rx", "ring"}
  BY StepLemma DEF OpenDoor, Within
<1>2. CASE Up(s, held[s] \cup {"src"})
  <2>1. held[s] \cup {"src"} \in SUBSET Stuff /\ held[s] \cup {"src"} \subseteq OfRest
    BY <1>1 DEF Stuff, OfRest
  <2> QED BY <1>1, <1>2, <2>1, UpLemma
<1>3. CASE Trouble /\ Refused(s, held[s] \ {"rx", "ring"})
  BY <1>1, <1>3, StepLemma, RefusedLemma
<1> QED BY <1>2, <1>3 DEF OpenDoor

LEMMA OpenBudgetLemma ==
    ASSUME Inv, NEW s \in Segs, Running(s), OpenBudget(s)
    PROVE  Inv'
<1> DEFINE stuff == held[s] \cup {"tx_ring"}
           out   == IF run.at = "budget" /\ cfg[s].heard THEN Yielding(s) ELSE {}
<1>1. /\ run.at \in {"budget", "again"} /\ UNCHANGED troubles /\ cfg[s].kind # "tap"
      /\ held[s] \subseteq {"rx", "ring", "tx_ring"} /\ troubles' \in 0..Troubles
  BY StepLemma DEF OpenBudget, Within
<1>2. stuff \in SUBSET Stuff /\ stuff \subseteq {"rx", "ring", "tx_ring"}
  BY <1>1 DEF Stuff
<1>3. CASE Further(s, stuff, "claim")
  <2>1. stuff \subseteq Within("claim") /\ "claim" \in Steps \ {"tap", "rx", "yield"}
    BY <1>2 DEF Within, Steps
  <2> QED BY <1>1, <1>2, <1>3, <2>1, FurtherLemma
<1>4. CASE Refused(s, stuff \ {"rx", "ring", "tx_ring"})
  BY <1>1, <1>2, <1>4, RefusedLemma
<1>5. CASE /\ out # {} /\ run' = [run EXCEPT !.at = "yield", !.out = out]
           /\ held' = [held EXCEPT ![s] = stuff]
           /\ UNCHANGED <<world, scan, yielded, opened, cfg, carry>>
  <2>1. TypeOK /\ run # Idle /\ run \in Runs /\ run.seg = s /\ ~opened[s]
    BY StepLemma
  <2>2. out \in SUBSET Segs /\ s \notin out
    BY DEF Yielding
  <2>3. /\ run' \in Runs /\ run' # Idle /\ run'.seg = s /\ run'.out = out
        /\ run'.at = "yield"
    <3> HIDE DEF out
    <3> QED BY <1>5, <2>1, <2>2 DEF Runs, Idle, Steps
  <2>4. UNCHANGED <<wire, lock, scan, yielded, opened, cfg, carry>>
    BY <1>5 DEF world
  <2>5. OtherTypes'
    <3> HIDE DEF out
    <3> QED BY <1>1, <1>5, <2>1, <2>3, <2>4 DEF TypeOK, OtherTypes
  <2>6. Hold(s, stuff)
    <3>1. lock[s] # "us" /\ "lock" \notin stuff
      BY <1>1 DEF Inv, LockIsHeld
    <3> QED BY <1>5, <2>4, <3>1 DEF Hold
  <2>7. \A t \in Segs \ {s} : /\ opened'[t] = opened[t] /\ cfg'[t] = cfg[t]
                              /\ Running(t)' <=> Running(t)
    BY <2>1, <2>3, <2>4 DEF Running
  <2>8. held'[s] = stuff
    BY <1>2, <2>1, <2>6, HoldLemma DEF Inv
  <2>9. stuff \subseteq Within("yield")
    BY <1>2 DEF Within
  <2>10. RunIsBounded' /\ ~opened'[s] /\ Running(s)'
    <3> HIDE DEF out
    <3> QED BY <1>1, <2>1, <2>2, <2>3, <2>4, <2>8, <2>9 DEF RunIsBounded, Running
  <2> HIDE DEF out
  <2> QED BY <1>2, <2>5, <2>6, <2>7, <2>10, OneSegment
<1> QED BY <1>3, <1>4, <1>5 DEF OpenBudget

LEMMA OpenClaimLemma ==
    ASSUME Inv, NEW s \in Segs, Running(s), OpenClaim(s)
    PROVE  Inv'
<1>1. /\ run.at = "claim" /\ cfg[s].kind # "tap" /\ held[s] \subseteq {"rx", "ring", "tx_ring"}
      /\ held[s] \in SUBSET Stuff /\ troubles \in 0..Troubles
      /\ Trouble => troubles' \in 0..Troubles
  BY StepLemma DEF OpenClaim, Within
<1>2. "sink" \in Steps \ {"tap", "rx", "yield"}
  BY DEF Steps
<1>3. CASE Further(s, held[s] \cup {"lock"}, "sink") /\ UNCHANGED troubles
  <2>1. /\ held[s] \cup {"lock"} \in SUBSET Stuff
        /\ held[s] \cup {"lock"} \subseteq Within("sink")
    BY <1>1 DEF Stuff, Within
  <2> QED BY <1>1, <1>2, <1>3, <2>1, FurtherLemma
<1>4. CASE Refused(s, held[s] \ {"rx", "ring", "tx_ring"}) /\ UNCHANGED troubles
  BY <1>1, <1>4, RefusedLemma
<1>5. CASE Trouble /\ Further(s, held[s], "sink")
  <2>1. held[s] \subseteq Within("sink")
    BY <1>1 DEF Within
  <2> QED BY <1>1, <1>2, <1>5, <2>1, FurtherLemma
<1> QED BY <1>3, <1>4, <1>5 DEF OpenClaim

LEMMA OpenSinkLemma ==
    ASSUME Inv, NEW s \in Segs, Running(s), OpenSink(s)
    PROVE  Inv'
<1>1. /\ run.at = "sink" /\ cfg[s].kind # "tap"
      /\ held[s] \subseteq {"rx", "ring", "tx_ring", "lock"}
      /\ held[s] \in SUBSET Stuff /\ troubles \in 0..Troubles
      /\ Trouble => troubles' \in 0..Troubles
  BY StepLemma DEF OpenSink, Within
<1>2. CASE Further(s, held[s] \cup {"sink"}, "nodes") /\ UNCHANGED troubles
  <2>1. /\ held[s] \cup {"sink"} \in SUBSET Stuff
        /\ held[s] \cup {"sink"} \subseteq Within("nodes")
        /\ "nodes" \in Steps \ {"tap", "rx", "yield"}
    BY <1>1 DEF Stuff, Within, OfRest, Steps
  <2> QED BY <1>1, <1>2, <2>1, FurtherLemma
<1>3. CASE Trouble /\ Refused(s, held[s] \ {"rx", "ring", "tx_ring", "lock"})
  BY <1>1, <1>3, RefusedLemma
<1> QED BY <1>2, <1>3 DEF OpenSink

LEMMA OpenSlaveLemma ==
    ASSUME Inv, NEW s \in Segs, Running(s), OpenSlave(s)
    PROVE  Inv'
<1>1. /\ run.at = "slave" /\ cfg[s].kind # "tap" /\ held[s] \subseteq {"rx", "ring"}
      /\ troubles \in 0..Troubles
      /\ Trouble => troubles' \in 0..Troubles
  BY StepLemma DEF OpenSlave, Within
<1>2. PICK some \in {{}, {"slave"}, {"slave", "sink"}} :
         /\ Further(s, (held[s] \cup {"tx_ring"}) \cup some, "nodes")
         /\ Trouble \/ UNCHANGED troubles
  BY DEF OpenSlave
<1> DEFINE stuff == (held[s] \cup {"tx_ring"}) \cup some
<1>3. stuff \in SUBSET Stuff /\ stuff \subseteq OfRest
  BY <1>1 DEF Stuff, OfRest
<1>4. stuff \subseteq Within("nodes") /\ "nodes" \in Steps \ {"tap", "rx", "yield"}
  BY <1>3 DEF Within, Steps
<1>5. troubles' \in 0..Troubles
  BY <1>1, <1>2
<1> HIDE DEF stuff
<1>6. Further(s, stuff, "nodes")
  BY <1>2 DEF stuff
<1> QED BY <1>1, <1>3, <1>4, <1>5, <1>6, FurtherLemma

\* Past the engine, every refusal is a listener_close, and that gives back everything.
LEMMA FailWithNodes ==
    ASSUME Inv, NEW s \in Segs, Running(s), run.at \in {"nodes", "start"}
    PROVE  /\ cfg[s].kind # "tap" /\ held[s] \subseteq OfRest /\ listener_close(s) = {}
           /\ troubles \in 0..Troubles
           /\ Trouble => troubles' \in 0..Troubles
           /\ run.at # "yield"
<1>1. /\ cfg[s].kind # "tap" /\ held[s] \subseteq Within(run.at)
      /\ troubles \in 0..Troubles
      /\ Trouble => troubles' \in 0..Troubles
  BY StepLemma
<1>2. held[s] \subseteq OfRest
  BY <1>1 DEF Within
<1> QED BY <1>1, <1>2 DEF listener_close, OfRest

LEMMA OpenNodesLemma ==
    ASSUME Inv, NEW s \in Segs, Running(s), OpenNodes(s)
    PROVE  Inv'
<1>1. run.at = "nodes"
  BY DEF OpenNodes
<1>2. CASE \E made \in SUBSET {"timer", "src"} :
             Further(s, held[s] \cup made, "start") /\ UNCHANGED troubles
  <2>1. PICK made \in SUBSET {"timer", "src"} :
           Further(s, held[s] \cup made, "start") /\ UNCHANGED troubles
    BY <1>2
  <2>2. held[s] \cup made \subseteq OfRest /\ OfRest \subseteq Stuff
    BY <1>1, FailWithNodes DEF OfRest, Stuff
  <2>3. "start" \in Steps \ {"tap", "rx", "yield"} /\ Within("start") = OfRest
    BY DEF Steps, Within
  <2>4. held[s] \cup made \in SUBSET Stuff /\ held[s] \cup made \subseteq Within("start")
    BY <2>2, <2>3
  <2> QED BY <1>1, <2>1, <2>3, <2>4, FailWithNodes, FurtherLemma
<1>3. CASE Trouble /\ Refused(s, listener_close(s))
  BY <1>1, <1>3, FailWithNodes, RefusedLemma
<1> QED BY <1>2, <1>3 DEF OpenNodes

LEMMA RxStartLemma ==
    ASSUME Inv, NEW s \in Segs, Running(s), RxStart(s)
    PROVE  Inv'
<1>1. run.at = "start"
  BY DEF RxStart
<1>2. CASE Up(s, held[s] \cup {"rx_thread"})
  <2>1. held[s] \cup {"rx_thread"} \subseteq OfRest /\ OfRest \subseteq Stuff
    BY <1>1, FailWithNodes DEF OfRest, Stuff
  <2>2. held[s] \cup {"rx_thread"} \in SUBSET Stuff
    BY <2>1
  <2> QED BY <1>1, <1>2, <2>1, <2>2, FailWithNodes, UpLemma
<1>3. CASE Trouble /\ Refused(s, listener_close(s))
  BY <1>1, <1>3, FailWithNodes, RefusedLemma
<1> QED BY <1>2, <1>3 DEF RxStart

\* The world moves, and the engines with it: nothing the daemon holds is touched.
LEMMA WorldLemma ==
    ASSUME Inv, NEW s \in Segs, WireMoves(s) \/ EngineMoves(s) \/ ForeignLock(s)
    PROVE  Inv'
<1>1. UNCHANGED <<scan, yielded, opened, cfg, held, run>>
  BY DEF WireMoves, EngineMoves, ForeignLock
<1>2. TypeOK'
  <2>1. CASE WireMoves(s)
    BY <1>1, <2>1 DEF Inv, TypeOK, WireMoves
  <2>2. CASE EngineMoves(s)
    <3>1. carry' \in [Segs -> BOOLEAN]
      BY <2>2 DEF Inv, TypeOK, EngineMoves
    <3> QED BY <1>1, <2>2, <3>1 DEF Inv, TypeOK, EngineMoves, world
  <2>3. CASE ForeignLock(s)
    <3>1. troubles' \in 0..Troubles
      BY <2>3, PortAssumption DEF Inv, TypeOK, ForeignLock, Trouble
    <3>2. lock' \in [Segs -> {"free", "us", "them"}] /\ UNCHANGED <<wire, carry>>
      BY <2>3 DEF Inv, TypeOK, ForeignLock
    <3> QED BY <1>1, <3>1, <3>2 DEF Inv, TypeOK
  <2> QED BY <2>1, <2>2, <2>3
<1>3. \A t \in Segs : lock'[t] = "us" <=> lock[t] = "us"
  BY DEF Inv, TypeOK, WireMoves, EngineMoves, ForeignLock, world
<1>4. LockIsHeld'
  BY <1>1, <1>3 DEF Inv, LockIsHeld
<1> QED
  BY <1>1, <1>2, <1>4 DEF Inv, ClosedHoldsNothing, OpenIsClosable, RunIsBounded, Running

-----------------------------------------------------------------------------
LEMMA InitInv == Init => Inv
<1> SUFFICES ASSUME Init PROVE Inv
  OBVIOUS
<1>1. Cleared \in [kind : Kinds, vacant : BOOLEAN, heard : BOOLEAN, rate : Rates]
  BY PortAssumption DEF Cleared, Kinds
<1>2. TypeOK
  BY <1>1, PortAssumption DEF Init, TypeOK
<1> QED
  BY <1>2 DEF Init, Inv, LockIsHeld, ClosedHoldsNothing, OpenIsClosable, RunIsBounded

LEMMA NextInv == Inv /\ [Next]_vars => Inv'
<1> SUFFICES ASSUME Inv, [Next]_vars PROVE Inv'
  OBVIOUS
<1>1. CASE UNCHANGED vars
  BY <1>1 DEF vars, Inv, TypeOK, LockIsHeld, ClosedHoldsNothing, OpenIsClosable,
              RunIsBounded, Running
<1>2. CASE Next
  <2>1. PICK s \in Segs :
           \/ HearingServe(s) \/ HearingDrop(s) \/ ReopenAtRate(s) \/ ReopenAtRole(s)
           \/ OpenStep(s) \/ YieldOne(s) \/ WireMoves(s) \/ EngineMoves(s) \/ ForeignLock(s)
    BY <1>2 DEF Next
  <2>2. CASE HearingServe(s)
    BY <2>2, HearingServeLemma
  <2>3. CASE HearingDrop(s) \/ ReopenAtRole(s)
    BY <2>3, DropLemma
  <2>4. CASE ReopenAtRate(s)
    BY <2>4, ReopenAtRateLemma
  <2>5. CASE OpenStep(s)
    BY <2>5, OpenTapLemma, OpenRxLemma, OpenDoorLemma, OpenBudgetLemma, OpenClaimLemma,
       OpenSinkLemma, OpenSlaveLemma, OpenNodesLemma, RxStartLemma DEF OpenStep
  <2>6. CASE YieldOne(s)
    BY <2>6, YieldOneLemma
  <2>7. CASE WireMoves(s) \/ EngineMoves(s) \/ ForeignLock(s)
    BY <2>7, WorldLemma
  <2> QED BY <2>1, <2>2, <2>3, <2>4, <2>5, <2>6, <2>7
<1> QED BY <1>1, <1>2

\* The types of Port hold for every port: in particular a yield that is under way always
\* has somebody left to drop, and one that is over has nobody (link_budget_yield).
THEOREM TypeCorrect == Spec => []TypeOK
<1>1. Inv => TypeOK
  BY DEF Inv
<1> QED BY InitInv, NextInv, <1>1, PTL DEF Spec

\* Whichever step of listener_open refuses, and whatever the other segments, the gear and
\* other daemons did meanwhile, a segment that is not up leaves nothing behind, its lock
\* included.
THEOREM LeavesNothingBehind == Spec => []NothingLeaks
<1>1. Inv => NothingLeaks
  BY DEF Inv, LockIsHeld, ClosedHoldsNothing, NothingLeaks
<1> QED BY InitInv, NextInv, <1>1, PTL DEF Spec

-----------------------------------------------------------------------------
(* Sums over sets of segments, as MapThenSumSet of the library takes them: *)
(* in the order CHOOSE gives, which is not the same for every set.         *)

\* A set that has 0 and with every number the next has them all.
LEMMA SetInduction ==
    ASSUME NEW P, 0 \in P, \A n \in Nat : n \in P => n + 1 \in P
    PROVE  \A n \in Nat : n \in P
<1>1. PICK d : d = Nat \ P
    OBVIOUS
<1>2. SUFFICES ASSUME d # {} PROVE FALSE
    BY <1>1
<1>3. d \in SUBSET Nat
    BY <1>1
<1>4. \E x \in d : \A y \in d : ~(<<y, x>> \in OpToRel(<, Nat))
    BY <1>2, <1>3, NatLessThanWellFounded, WFMin, Zenon
<1>5. PICK x \in d : \A y \in d : ~(y < x)
    BY <1>3, <1>4 DEF OpToRel
<1>6. x # 0 /\ x - 1 \in Nat /\ x - 1 \notin d /\ (x - 1) + 1 = x
    BY <1>1, <1>3, <1>5
<1> QED BY <1>1, <1>6

Pick(T) == CHOOSE x \in T : TRUE

\* g sums f over every subset of S.
IsSum(g, f, S) ==
    g = [T \in SUBSET S |-> IF T = {} THEN 0 ELSE f[Pick(T)] + g[T \ {Pick(T)}]]

\* Taking one element out of a finite set.
LEMMA OneLess ==
    ASSUME NEW S, IsFiniteSet(S), NEW T \in SUBSET S
    PROVE  /\ Cardinality(T) \in Nat /\ (Cardinality(T) = 0 <=> T = {})
           /\ T # {} => Pick(T) \in T
           /\ \A x \in T : T \ {x} \in SUBSET S /\ Cardinality(T \ {x}) = Cardinality(T) - 1
<1>1. IsFiniteSet(T)
    BY FS_Subset
<1>2. Cardinality(T) \in Nat /\ (Cardinality(T) = 0 <=> T = {})
    BY <1>1, FS_CardinalityType, FS_EmptySet
<1>3. T # {} => Pick(T) \in T
    BY DEF Pick
<1>4. \A x \in T : Cardinality(T \ {x}) = Cardinality(T) - 1
    BY <1>1, FS_RemoveElement
<1> QED BY <1>2, <1>3, <1>4

\* There is such a sum: it is built up from the small sets to the large ones.
LEMMA SumExists ==
    ASSUME NEW S, IsFiniteSet(S), NEW f
    PROVE  \E g : IsSum(g, f, S)
<1> DEFINE Small(n) == {T \in SUBSET S : Cardinality(T) <= n}
           Done(n) == \E g : g = [T \in Small(n) |->
                                    IF T = {} THEN 0 ELSE f[Pick(T)] + g[T \ {Pick(T)}]]
           P == {n \in Nat : Done(n)}
<1>1. 0 \in P
    <2>1. PICK g : g = [T \in Small(0) |-> 0]
        OBVIOUS
    <2>2. \A T \in Small(0) : T = {}
        BY OneLess
    <2>3. g = [T \in Small(0) |-> IF T = {} THEN 0 ELSE f[Pick(T)] + g[T \ {Pick(T)}]]
        BY <2>1, <2>2
    <2> QED BY <2>3
<1>2. ASSUME NEW n \in Nat, n \in P PROVE n + 1 \in P
    <2>1. PICK g : g = [T \in Small(n) |-> IF T = {} THEN 0 ELSE f[Pick(T)] + g[T \ {Pick(T)}]]
        BY <1>2
    <2>2. PICK h : h = [T \in Small(n + 1) |->
                           IF T = {} THEN 0 ELSE f[Pick(T)] + g[T \ {Pick(T)}]]
        OBVIOUS
    <2>3. ASSUME NEW T \in Small(n + 1), T # {}
          PROVE  h[T \ {Pick(T)}] = g[T \ {Pick(T)}]
        <3>1. PICK u : u = T \ {Pick(T)}
            OBVIOUS
        <3>2. u \in Small(n) /\ u \in Small(n + 1)
            BY <2>3, <3>1, OneLess
        <3>3. h[u] = g[u]
            BY <2>1, <2>2, <3>2
        <3> QED BY <3>1, <3>3
    <2>4. h = [T \in Small(n + 1) |-> IF T = {} THEN 0 ELSE f[Pick(T)] + h[T \ {Pick(T)}]]
        BY <2>2, <2>3
    <2>5. Done(n + 1)
        BY <2>4, Zenon
    <2>6. n + 1 \in Nat
        OBVIOUS
    <2> HIDE DEF Done
    <2> QED BY <2>5, <2>6
<1>3. Cardinality(S) \in P
    <2>1. Cardinality(S) \in Nat
        BY FS_CardinalityType
    <2> HIDE DEF P
    <2> QED BY <1>1, <1>2, <2>1, SetInduction
<1>4. Small(Cardinality(S)) = SUBSET S
    BY FS_Subset
<1> QED BY <1>3, <1>4 DEF IsSum

LEMMA SumStep ==
    ASSUME NEW S, IsFiniteSet(S), NEW f, NEW g, IsSum(g, f, S), NEW T \in SUBSET S
    PROVE  g[T] = IF T = {} THEN 0 ELSE f[Pick(T)] + g[T \ {Pick(T)}]
BY DEF IsSum

LEMMA SumType ==
    ASSUME NEW S, IsFiniteSet(S), NEW f \in [S -> Nat], NEW g, IsSum(g, f, S)
    PROVE  \A T \in SUBSET S : g[T] \in Nat
<1> DEFINE P == {n \in Nat : \A T \in SUBSET S : Cardinality(T) = n => g[T] \in Nat}
<1>1. 0 \in P
    <2>1. g[{}] = 0
        BY SumStep
    <2>2. \A T \in SUBSET S : Cardinality(T) = 0 => T = {}
        BY OneLess
    <2> QED BY <2>1, <2>2
<1>2. ASSUME NEW n \in Nat, n \in P PROVE n + 1 \in P
    <2>1. SUFFICES ASSUME NEW T \in SUBSET S, Cardinality(T) = n + 1 PROVE g[T] \in Nat
        OBVIOUS
    <2>2. /\ T # {} /\ Pick(T) \in S /\ T \ {Pick(T)} \in SUBSET S
          /\ Cardinality(T \ {Pick(T)}) = n
        BY <2>1, OneLess
    <2>3. g[T \ {Pick(T)}] \in Nat
        BY <1>2, <2>2
    <2>4. g[T] = f[Pick(T)] + g[T \ {Pick(T)}]
        BY <2>2, SumStep
    <2> QED BY <2>2, <2>3, <2>4
<1>3. \A n \in Nat : n \in P
    <2> HIDE DEF P
    <2> QED BY <1>1, <1>2, SetInduction
<1> QED BY <1>3, OneLess

\* Any element may be taken first.
LEMMA SumTakes ==
    ASSUME NEW S, IsFiniteSet(S), NEW f \in [S -> Nat], NEW g, IsSum(g, f, S)
    PROVE  \A T \in SUBSET S : \A x \in T : g[T] = f[x] + g[T \ {x}]
<1> DEFINE P == {n \in Nat : \A T \in SUBSET S : Cardinality(T) = n =>
                                 \A x \in T : g[T] = f[x] + g[T \ {x}]}
<1>1. 0 \in P
    BY OneLess
<1>2. ASSUME NEW n \in Nat, n \in P PROVE n + 1 \in P
    <2>1. SUFFICES ASSUME NEW T \in SUBSET S, Cardinality(T) = n + 1, NEW x \in T
                   PROVE  g[T] = f[x] + g[T \ {x}]
        OBVIOUS
    <2>2. PICK c : c = Pick(T)
        OBVIOUS
    <2>3. c \in T /\ T # {}
        BY <2>2, OneLess
    <2>4. g[T] = f[c] + g[T \ {c}]
        BY <2>2, <2>3, SumStep
    <2>5. CASE x = c
        BY <2>4, <2>5
    <2>6. CASE x # c
        <3>1. /\ T \ {c} \in SUBSET S /\ Cardinality(T \ {c}) = n /\ x \in T \ {c}
              /\ T \ {x} \in SUBSET S /\ Cardinality(T \ {x}) = n /\ c \in T \ {x}
            BY <2>1, <2>3, <2>6, OneLess
        <3>2. g[T \ {c}] = f[x] + g[(T \ {c}) \ {x}] /\ g[T \ {x}] = f[c] + g[(T \ {x}) \ {c}]
            BY <1>2, <3>1
        <3>3. (T \ {c}) \ {x} = (T \ {x}) \ {c}
            OBVIOUS
        <3>4. f[x] \in Nat /\ f[c] \in Nat /\ g[(T \ {x}) \ {c}] \in Nat
            BY <2>3, SumType
        <3>5. PICK r \in Nat : r = g[(T \ {x}) \ {c}]
            BY <3>4
        <3>6. g[T \ {c}] = f[x] + r /\ g[T \ {x}] = f[c] + r
            BY <3>2, <3>3, <3>5
        <3> QED BY <2>4, <3>4, <3>6
    <2> QED BY <2>5, <2>6
<1>3. \A n \in Nat : n \in P
    <2> HIDE DEF P
    <2> QED BY <1>1, <1>2, SetInduction
<1>4. ASSUME NEW T \in SUBSET S PROVE \A x \in T : g[T] = f[x] + g[T \ {x}]
    <2>1. PICK n : n = Cardinality(T)
        OBVIOUS
    <2>2. n \in P
        BY <1>3, <2>1, OneLess
    <2> QED BY <2>1, <2>2
<1> HIDE DEF P
<1> QED BY <1>4, Zenon

\* A sum of less over more is not more, if the more is nothing.
LEMMA SumBounds ==
    ASSUME NEW S, IsFiniteSet(S), NEW U \in SUBSET S,
           NEW f \in [S -> Nat], NEW g, IsSum(g, f, S),
           NEW e \in [U -> Nat], NEW h, IsSum(h, e, U),
           \A x \in S : f[x] = 0 \/ (x \in U /\ f[x] <= e[x])
    PROVE  g[S] <= h[U]
<1>1. IsFiniteSet(U)
    BY FS_Subset
<1> DEFINE P == {n \in Nat : \A T \in SUBSET S : Cardinality(T) = n => g[T] <= h[T \cap U]}
<1>2. 0 \in P
    <2>1. g[{}] = 0 /\ h[{}] = 0
        BY <1>1, SumStep
    <2>2. \A T \in SUBSET S : Cardinality(T) = 0 => T = {} /\ T \cap U = {}
        BY OneLess
    <2> QED BY <2>1, <2>2
<1>3. ASSUME NEW n \in Nat, n \in P PROVE n + 1 \in P
    <2>1. SUFFICES ASSUME NEW T \in SUBSET S, Cardinality(T) = n + 1 PROVE g[T] <= h[T \cap U]
        OBVIOUS
    <2>2. PICK c : c = Pick(T)
        OBVIOUS
    <2>3. c \in T /\ T \ {c} \in SUBSET S /\ Cardinality(T \ {c}) = n
        BY <2>1, <2>2, OneLess
    <2>4. g[T] = f[c] + g[T \ {c}]
        BY <2>3, SumTakes
    <2>5. g[T \ {c}] <= h[(T \ {c}) \cap U]
        BY <1>3, <2>3
    <2>6. /\ f[c] \in Nat /\ g[T \ {c}] \in Nat
          /\ h[(T \ {c}) \cap U] \in Nat
        <3>1. (T \ {c}) \cap U \in SUBSET U
            OBVIOUS
        <3> QED BY <1>1, <2>3, <3>1, SumType
    <2>7. CASE c \in U
        <3>1. (T \ {c}) \cap U = (T \cap U) \ {c} /\ T \cap U \in SUBSET U /\ c \in T \cap U
            BY <2>3, <2>7
        <3>2. h[T \cap U] = e[c] + h[(T \cap U) \ {c}]
            BY <1>1, <3>1, SumTakes
        <3>3. e[c] \in Nat /\ f[c] <= e[c]
            BY <2>3, <2>7
        <3> QED BY <2>4, <2>5, <2>6, <3>1, <3>2, <3>3
    <2>8. CASE c \notin U
        <3>1. (T \ {c}) \cap U = T \cap U /\ f[c] = 0
            BY <2>3, <2>8
        <3>2. g[T] = g[T \ {c}]
            BY <2>4, <2>6, <3>1
        <3>3. g[T \ {c}] <= h[T \cap U]
            BY <2>5, <3>1, Zenon
        <3> QED BY <3>2, <3>3, Zenon
    <2> QED BY <2>7, <2>8
<1>4. \A n \in Nat : n \in P
    <2> HIDE DEF P
    <2> QED BY <1>2, <1>3, SetInduction
<1>5. g[S] <= h[S \cap U]
    <2>1. S \in SUBSET S /\ Cardinality(S) \in Nat
        BY FS_CardinalityType
    <2> QED BY <1>4, <2>1
<1>6. S \cap U = U
    OBVIOUS
<1> QED BY <1>5, <1>6

-----------------------------------------------------------------------------
(* The account of the port: every step of Port is one of Ledger.           *)

SumOf(f) == (CHOOSE g : IsSum(g, f, Segs))[Segs]

\* What the account holds is the sum of what is committed, before a step and after it.
LEMMA TotalIsSum == Account!Total = SumOf(Committed)
BY DEF Account!MapThenSumSet, Account!MapThenFoldSet, Account!Total, SumOf, IsSum, Pick

LEMMA TotalIsSumNext == Account!Total' = SumOf(Committed')
BY DEF Account!MapThenSumSet, Account!MapThenFoldSet, Account!Total, SumOf, IsSum, Pick

LEMMA CostType ==
    ASSUME TypeOK, NEW s \in Segs
    PROVE  Cost(s) \in Nat /\ \E hz \in Rates : Cost(s) = reac_link_cost_kbit(reac_link_master_pps(hz))
<1>1. PICK hz \in Rates : cfg[s].rate = hz
    BY DEF TypeOK
<1>2. Cost(s) = reac_link_cost_kbit(reac_link_master_pps(hz))
    BY <1>1 DEF Cost
<1>3. hz \in Nat
    BY PortAssumption
<1>4. PICK pps \in Nat : pps = hz \div 12
    BY <1>3
<1>5. reac_link_cost_kbit(reac_link_master_pps(hz)) = (pps * 1516 * 8) \div 1000
    BY <1>4 DEF reac_link_cost_kbit, reac_link_master_pps, FrameBytes, WireOverhead, SamplesPerPkt
<1>6. (pps * 1516 * 8) \div 1000 \in Nat
    BY <1>4
<1> QED BY <1>1, <1>2, <1>5, <1>6

\* What link_used_kbit counts covers what the account says is committed.
LEMMA UsedCovers ==
    ASSUME Inv, NEW s \in Segs, Running(s), "sink" \notin held[s]
    PROVE  Account!Total \in Nat /\ link_used_kbit(s) \in Nat /\ Account!Total <= link_used_kbit(s)
<1>1. TypeOK /\ IsFiniteSet(Segs)
    BY PortAssumption DEF Inv
<1>2. PICK U : U = {t \in Segs \ {s} : HasSink(t)}
    OBVIOUS
<1>3. U \in SUBSET Segs /\ IsFiniteSet(U)
    BY <1>1, <1>2, FS_Subset
<1>4. PICK e : e = [t \in U |-> Cost(t)]
    OBVIOUS
<1>5. e \in [U -> Nat]
    BY <1>1, <1>3, <1>4, CostType
<1>6. PICK h : IsSum(h, e, U) /\ link_used_kbit(s) = h[U]
    <2>1. PICK h : h = CHOOSE g : g = [T \in SUBSET U |->
                          IF T = {} THEN 0 ELSE Cost(Pick(T)) + g[T \ {Pick(T)}]]
        OBVIOUS
    <2>2. link_used_kbit(s) = h[U]
        BY <1>2, <2>1 DEF link_used_kbit, MapThenSumSet, MapThenFoldSet, Pick
    <2>3. \A T \in SUBSET U : T # {} => e[Pick(T)] = Cost(Pick(T))
        BY <1>4 DEF Pick
    <2>4. PICK g : IsSum(g, e, U)
        BY <1>3, SumExists
    <2>5. g = [T \in SUBSET U |-> IF T = {} THEN 0 ELSE Cost(Pick(T)) + g[T \ {Pick(T)}]]
        BY <2>3, <2>4 DEF IsSum
    <2>6. h = [T \in SUBSET U |-> IF T = {} THEN 0 ELSE Cost(Pick(T)) + h[T \ {Pick(T)}]]
        BY <2>1, <2>5
    <2>7. IsSum(h, e, U)
        BY <2>3, <2>6 DEF IsSum
    <2> QED BY <2>2, <2>7
<1>7. Committed \in [Segs -> Nat]
    BY <1>1, CostType DEF Committed
<1>8. PICK g : IsSum(g, Committed, Segs) /\ Account!Total = g[Segs]
    <2>1. \E g : IsSum(g, Committed, Segs)
        BY <1>1, SumExists
    <2>2. IsSum(CHOOSE g : IsSum(g, Committed, Segs), Committed, Segs)
        BY <2>1
    <2> QED BY <2>2, TotalIsSum DEF SumOf
<1>9. ASSUME NEW x \in Segs PROVE Committed[x] = 0 \/ (x \in U /\ Committed[x] <= e[x])
    <2>1. SUFFICES ASSUME Committed[x] # 0 PROVE x \in U /\ Committed[x] <= e[x]
        OBVIOUS
    <2>2. "sink" \in held[x] /\ Committed[x] = Cost(x)
        BY <2>1 DEF Committed
    <2>3. x # s /\ ~Running(x)
        BY <2>2 DEF Running
    <2>4. opened[x]
        BY <2>2, <2>3 DEF Inv, ClosedHoldsNothing
    <2>5. x \in U
        BY <1>2, <2>2, <2>3, <2>4 DEF HasSink
    <2>6. Cost(x) \in Nat
        BY <1>1, CostType
    <2> QED BY <1>4, <2>2, <2>5, <2>6
<1>10. g[Segs] <= h[U]
    BY <1>1, <1>3, <1>5, <1>6, <1>7, <1>8, <1>9, SumBounds
<1>11. g[Segs] \in Nat /\ h[U] \in Nat
    BY <1>1, <1>3, <1>5, <1>6, <1>7, <1>8, SumType
<1> QED BY <1>6, <1>8, <1>10, <1>11

\* An open that was admitted and has not its engine yet still fits: nobody else has taken
\* anything since.
StillFits ==
    run # Idle /\ run.at \in {"claim", "sink"} =>
        Mbit = 0 \/ Account!Total + Cost(run.seg) <= Mbit * 1000

LEMMA StaysFitting ==
    ASSUME StillFits, Committed' = Committed,
           \/ run' = Idle \/ run'.at \notin {"claim", "sink"}
           \/ /\ run # Idle /\ run.at \in {"claim", "sink"} /\ run'.seg = run.seg
              /\ cfg'[run.seg] = cfg[run.seg]
    PROVE  StillFits'
<1>1. Account!Total' = Account!Total
    BY TotalIsSum, TotalIsSumNext
<1>2. cfg'[run.seg] = cfg[run.seg] /\ run'.seg = run.seg => Cost(run.seg)' = Cost(run.seg)
    BY DEF Cost
<1> QED BY <1>1, <1>2 DEF StillFits

\* The others' accounts are not touched.
OthersKeep(s) == \A t \in Segs \ {s} : Committed'[t] = Committed[t]

LEMMA AccountKept ==
    ASSUME NEW s \in Segs, OthersKeep(s), Committed'[s] = Committed[s]
    PROVE  Committed' = Committed
<1>1. \A t \in Segs : Committed'[t] = Committed[t]
    BY DEF OthersKeep
<1>2. Committed = [t \in Segs |-> Committed[t]] /\ Committed' = [t \in Segs |-> Committed'[t]]
    BY DEF Committed
<1> QED BY <1>1, <1>2

LEMMA AccountMoved ==
    ASSUME NEW s \in Segs, OthersKeep(s)
    PROVE  Committed' = [Committed EXCEPT ![s] = Committed'[s]]
<1>1. Committed = [t \in Segs |-> Committed[t]] /\ Committed' = [t \in Segs |-> Committed'[t]]
    BY DEF Committed
<1> QED BY <1>1 DEF OthersKeep

LEMMA AccountReleased ==
    ASSUME NEW s \in Segs, OthersKeep(s), Committed'[s] = 0
    PROVE  [Account!Next]_Committed
<1>1. CASE Committed[s] = 0
    BY <1>1, AccountKept
<1>2. CASE Committed[s] # 0
    <2>1. Account!Release(s)
        BY <1>2, AccountMoved DEF Account!Release
    <2> QED BY <2>1 DEF Account!Next
<1> QED BY <1>1, <1>2

\* What a step does to the account and to an open that was admitted.
Accounted == [Account!Next]_Committed /\ StillFits'

\* A segment is closed, or its open refused: it gives back what it took.
LEMMA ClearedAccounts ==
    ASSUME TypeOK, NEW s \in Segs, NEW stuff, held' = [held EXCEPT ![s] = stuff],
           cfg' = [cfg EXCEPT ![s] = Cleared]
    PROVE  [Account!Next]_Committed
<1>1. cfg'[s].kind # "master" /\ \A t \in Segs \ {s} : cfg'[t] = cfg[t] /\ held'[t] = held[t]
    BY DEF TypeOK, Cleared
<1>2. OthersKeep(s) /\ Committed'[s] = 0
    BY <1>1 DEF OthersKeep, Committed, Cost
<1> QED BY <1>2, AccountReleased

LEMMA RefusedAccounts ==
    ASSUME TypeOK, StillFits, NEW s \in Segs, NEW left, Refused(s, left)
    PROVE  Accounted
<1>1. [Account!Next]_Committed
    BY ClearedAccounts DEF Refused, Hold
<1>2. StillFits'
    BY DEF Refused, StillFits
<1> QED BY <1>1, <1>2 DEF Accounted

\* A step that starts and stops no engine of a master.
LEMMA QuietAccounts ==
    ASSUME TypeOK, StillFits, NEW s \in Segs, NEW stuff, held' = [held EXCEPT ![s] = stuff],
           \A t \in Segs : cfg'[t].kind = cfg[t].kind /\ cfg'[t].rate = cfg[t].rate,
           cfg[s].kind = "master" => ("sink" \in stuff <=> "sink" \in held[s]),
           \/ run' = Idle \/ run'.at \notin {"claim", "sink"}
           \/ /\ run # Idle /\ run.at \in {"claim", "sink"} /\ run'.seg = run.seg
              /\ cfg'[run.seg] = cfg[run.seg]
    PROVE  Accounted
<1>1. \A t \in Segs : Committed'[t] = Committed[t]
    BY DEF TypeOK, Committed, Cost
<1>2. Committed' = Committed
    BY <1>1, AccountKept DEF OthersKeep
<1>3. StillFits'
    BY <1>2, StaysFitting
<1> QED BY <1>2, <1>3 DEF Accounted

LEMMA UpAccounts ==
    ASSUME TypeOK, StillFits, NEW s \in Segs, NEW stuff, Up(s, stuff),
           cfg[s].kind = "master" => ("sink" \in stuff <=> "sink" \in held[s])
    PROVE  Accounted
<1>1. run' = Idle /\ cfg' = cfg /\ held' = [held EXCEPT ![s] = stuff]
    BY DEF Up, Hold
<1> QED BY <1>1, QuietAccounts

LEMMA FurtherAccounts ==
    ASSUME TypeOK, StillFits, NEW s \in Segs, NEW stuff, NEW step, Running(s),
           Further(s, stuff, step), step # "claim", step = "sink" => run.at = "claim",
           cfg[s].kind = "master" => ("sink" \in stuff <=> "sink" \in held[s])
    PROVE  Accounted
<1>1. /\ run # Idle /\ run.seg = s /\ run \in Runs
      /\ run' = [run EXCEPT !.at = step] /\ cfg' = cfg /\ held' = [held EXCEPT ![s] = stuff]
    BY DEF Further, Hold, Goto, Running, TypeOK
<1>2. run'.at = step /\ run'.seg = s
    BY <1>1 DEF Runs
<1> QED BY <1>1, <1>2, QuietAccounts

\* What the steps of an open hold, as far as the account is concerned.
LEMMA RunsEngine ==
    ASSUME Inv, NEW s \in Segs, Running(s)
    PROVE  /\ TypeOK /\ run # Idle /\ run.seg = s
           /\ run.at \in {"tap", "rx", "door", "budget", "again", "claim", "sink", "slave"}
                 => "sink" \notin held[s]
BY DEF Inv, RunIsBounded, Running, Within

LEMMA OpenAccounts ==
    ASSUME Inv, StillFits, NEW s \in Segs, Running(s),
           \/ OpenTap(s) \/ OpenRx(s) \/ OpenDoor(s) \/ OpenClaim(s) \/ OpenSlave(s)
           \/ OpenNodes(s) \/ RxStart(s)
    PROVE  Accounted
<1>1. /\ TypeOK /\ run # Idle /\ run.seg = s
      /\ run.at \in {"tap", "rx", "door", "budget", "again", "claim", "sink", "slave"}
            => "sink" \notin held[s]
    BY RunsEngine
<1>2. CASE OpenTap(s)
    <2>1. CASE Up(s, {"tap", "tap_src"})
        BY <1>1, <1>2, <2>1, UpAccounts DEF OpenTap
    <2>2. CASE cfg' = [cfg EXCEPT ![s].vacant = TRUE] /\ Goto("rx") /\ UNCHANGED held
        <3>1. \A t \in Segs : cfg'[t].kind = cfg[t].kind /\ cfg'[t].rate = cfg[t].rate
            BY <1>1, <2>2 DEF TypeOK
        <3>2. held' = [held EXCEPT ![s] = held[s]]
            BY <1>1, <2>2 DEF TypeOK
        <3>3. run'.at = "rx"
            BY <1>1, <2>2 DEF TypeOK, Goto, Runs
        <3> QED BY <1>1, <3>1, <3>2, <3>3, QuietAccounts
    <2>3. CASE Refused(s, {})
        BY <1>1, <2>3, RefusedAccounts
    <2> QED BY <1>2, <2>1, <2>2, <2>3 DEF OpenTap
<1>3. CASE OpenRx(s)
    <2>1. PICK stuff : stuff = held[s] \cup {"rx", "ring"}
        OBVIOUS
    <2>2. "sink" \notin stuff /\ "sink" \notin held[s]
        BY <1>1, <1>3, <2>1 DEF OpenRx
    <2>3. CASE Up(s, stuff)
        BY <1>1, <2>2, <2>3, UpAccounts
    <2>4. ASSUME NEW step \in {"door", "budget", "slave"}, Further(s, stuff, step) PROVE Accounted
        BY <1>1, <2>2, <2>4, FurtherAccounts
    <2>5. CASE Refused(s, held[s])
        BY <1>1, <2>5, RefusedAccounts
    <2> QED BY <1>3, <2>1, <2>3, <2>4, <2>5 DEF OpenRx
<1>4. CASE OpenDoor(s)
    <2>1. CASE Up(s, held[s] \cup {"src"})
        BY <1>1, <2>1, UpAccounts
    <2>2. CASE Refused(s, held[s] \ {"rx", "ring"})
        BY <1>1, <2>2, RefusedAccounts
    <2> QED BY <1>4, <2>1, <2>2 DEF OpenDoor
<1>5. CASE OpenClaim(s)
    <2>1. ASSUME NEW stuff \in {held[s], held[s] \cup {"lock"}}, Further(s, stuff, "sink")
          PROVE  Accounted
        BY <1>1, <1>5, <2>1, FurtherAccounts DEF OpenClaim
    <2>2. CASE Refused(s, held[s] \ {"rx", "ring", "tx_ring"})
        BY <1>1, <2>2, RefusedAccounts
    <2> QED BY <1>5, <2>1, <2>2 DEF OpenClaim
<1>6. CASE OpenSlave(s)
    <2>1. PICK more \in SUBSET {"tx_ring", "slave", "sink"} :
              /\ Further(s, held[s] \cup more, "nodes")
              /\ "sink" \in more => cfg[s].kind = "join"
        <3>1. CASE Further(s, (held[s] \cup {"tx_ring"}) \cup
                                 (IF cfg[s].kind = "join" THEN {"slave", "sink"} ELSE {"slave"}), "nodes")
            <4>1. PICK nodes : nodes = IF cfg[s].kind = "join" THEN {"slave", "sink"} ELSE {"slave"}
                OBVIOUS
            <4>2. nodes \cup {"tx_ring"} \in SUBSET {"tx_ring", "slave", "sink"}
                BY <4>1
            <4>3. (held[s] \cup {"tx_ring"}) \cup nodes = held[s] \cup (nodes \cup {"tx_ring"})
                OBVIOUS
            <4>4. "sink" \in nodes \cup {"tx_ring"} => cfg[s].kind = "join"
                BY <4>1
            <4>5. Further(s, held[s] \cup (nodes \cup {"tx_ring"}), "nodes")
                BY <3>1, <4>1, <4>3
            <4> QED BY <4>2, <4>4, <4>5
        <3>2. ASSUME NEW some \in {{}, {"slave"}},
                     Further(s, (held[s] \cup {"tx_ring"}) \cup some, "nodes")
              PROVE  \E more \in SUBSET {"tx_ring", "slave", "sink"} :
                        /\ Further(s, held[s] \cup more, "nodes")
                        /\ "sink" \in more => cfg[s].kind = "join"
            <4>1. /\ some \cup {"tx_ring"} \in SUBSET {"tx_ring", "slave", "sink"}
                  /\ "sink" \notin some \cup {"tx_ring"}
                OBVIOUS
            <4>2. (held[s] \cup {"tx_ring"}) \cup some = held[s] \cup (some \cup {"tx_ring"})
                OBVIOUS
            <4>3. Further(s, held[s] \cup (some \cup {"tx_ring"}), "nodes")
                BY <3>2, <4>2
            <4> QED BY <4>1, <4>3
        <3> QED BY <1>6, <3>1, <3>2 DEF OpenSlave
    <2>2. cfg[s].kind = "master" => "sink" \notin more
        BY <2>1
    <2> QED BY <1>1, <2>1, <2>2, FurtherAccounts
<1>7. CASE OpenNodes(s)
    <2>1. PICK made : made = (IF cfg[s].kind = "master" THEN {"timer"} ELSE {})
                             \cup (IF cfg[s].kind # "master" \/ s \in BoxPinned THEN {"src"} ELSE {})
        OBVIOUS
    <2>2. "sink" \notin made
        BY <2>1
    <2>3. CASE Further(s, held[s] \cup made, "start")
        BY <1>1, <2>2, <2>3, FurtherAccounts
    <2>4. CASE Refused(s, listener_close(s))
        BY <1>1, <2>4, RefusedAccounts
    <2> QED BY <1>7, <2>1, <2>3, <2>4 DEF OpenNodes
<1>8. CASE RxStart(s)
    <2>1. CASE Up(s, held[s] \cup {"rx_thread"})
        BY <1>1, <2>1, UpAccounts
    <2>2. CASE Refused(s, listener_close(s))
        BY <1>1, <2>2, RefusedAccounts
    <2> QED BY <1>8, <2>1, <2>2 DEF RxStart
<1> QED BY <1>2, <1>3, <1>4, <1>5, <1>6, <1>7, <1>8

\* The admission: what fits beside everything link_used_kbit counts fits the account.
LEMMA BudgetAccounts ==
    ASSUME Inv, StillFits, NEW s \in Segs, Running(s), OpenBudget(s)
    PROVE  Accounted
<1>1. TypeOK /\ run # Idle /\ run.seg = s /\ "sink" \notin held[s] /\ run \in Runs
    BY RunsEngine DEF OpenBudget, TypeOK
<1>2. PICK stuff : stuff = held[s] \cup {"tx_ring"}
    OBVIOUS
<1>3. "sink" \notin stuff
    BY <1>1, <1>2
<1>4. CASE reac_link_budget_fits(link_used_kbit(s), Cost(s)) /\ Further(s, stuff, "claim")
    <2>1. run' = [run EXCEPT !.at = "claim"] /\ cfg' = cfg /\ held' = [held EXCEPT ![s] = stuff]
        BY <1>4 DEF Further, Goto, Hold
    <2>2. run'.seg = s /\ Cost(s)' = Cost(s)
        BY <1>1, <2>1 DEF Runs, Cost
    <2>3. \A t \in Segs : Committed'[t] = Committed[t]
        BY <1>1, <1>3, <2>1 DEF TypeOK, Committed, Cost
    <2>4. Committed' = Committed
        BY <2>3, AccountKept DEF OthersKeep
    <2>5. Account!Total' = Account!Total
        BY <2>4, TotalIsSum, TotalIsSumNext
    <2>6. Account!Total \in Nat /\ link_used_kbit(s) \in Nat /\ Account!Total <= link_used_kbit(s)
        BY <1>1, UsedCovers
    <2>7. Cost(s) \in Nat /\ Mbit \in Nat
        BY <1>1, CostType, PortAssumption
    <2>8. Mbit = 0 \/ link_used_kbit(s) + Cost(s) <= Mbit * 1000
        BY <1>4 DEF reac_link_budget_fits
    <2>9. Mbit = 0 \/ Account!Total + Cost(s) <= Mbit * 1000
        BY <2>6, <2>7, <2>8
    <2>10. StillFits'
        BY <2>2, <2>5, <2>9 DEF StillFits
    <2> QED BY <2>4, <2>10 DEF Accounted
<1>5. CASE Refused(s, stuff \ {"rx", "ring", "tx_ring"})
    BY <1>1, <1>5, RefusedAccounts
<1>6. PICK out : out = IF run.at = "budget" /\ cfg[s].heard THEN Yielding(s) ELSE {}
    OBVIOUS
<1>7. CASE /\ run' = [run EXCEPT !.at = "yield", !.out = out]
           /\ held' = [held EXCEPT ![s] = stuff]
           /\ UNCHANGED cfg
    <2>1. run'.at = "yield"
        BY <1>1, <1>7 DEF Runs
    <2>2. /\ held' = [held EXCEPT ![s] = stuff]
          /\ \A t \in Segs : cfg'[t].kind = cfg[t].kind /\ cfg'[t].rate = cfg[t].rate
        BY <1>7
    <2> QED BY <1>1, <1>3, <2>1, <2>2, QuietAccounts
<1> QED BY <1>2, <1>4, <1>5, <1>6, <1>7 DEF OpenBudget

\* The engine is opened: the account admits it.
LEMMA SinkAccounts ==
    ASSUME Inv, StillFits, NEW s \in Segs, Running(s), OpenSink(s)
    PROVE  Accounted
<1>1. TypeOK /\ run # Idle /\ run.seg = s /\ run.at = "sink" /\ "sink" \notin held[s] /\ run \in Runs
    BY RunsEngine DEF OpenSink, TypeOK
<1>2. CASE Further(s, held[s] \cup {"sink"}, "nodes")
    <2>1. /\ run' = [run EXCEPT !.at = "nodes"] /\ cfg' = cfg
          /\ held' = [held EXCEPT ![s] = held[s] \cup {"sink"}]
        BY <1>2 DEF Further, Goto, Hold
    <2>2. run'.at = "nodes"
        BY <1>1, <2>1 DEF Runs
    <2>3. CASE cfg[s].kind # "master"
        BY <1>1, <2>1, <2>2, <2>3, QuietAccounts
    <2>4. CASE cfg[s].kind = "master"
        <3>1. Committed[s] = 0 /\ Committed'[s] = Cost(s) /\ OthersKeep(s)
            BY <1>1, <2>1, <2>4 DEF TypeOK, Committed, Cost, OthersKeep
        <3>2. Committed' = [Committed EXCEPT ![s] = Cost(s)]
            BY <3>1, AccountMoved
        <3>3. Mbit = 0 \/ Account!Total + Cost(s) <= Mbit * 1000
            BY <1>1 DEF StillFits
        <3>4. PICK hz \in Rates : Cost(s) = reac_link_cost_kbit(reac_link_master_pps(hz))
            BY <1>1, CostType
        <3>5. PICK c : c = Cost(s)
            OBVIOUS
        <3>6. c \in {reac_link_cost_kbit(reac_link_master_pps(r)) : r \in Rates}
            BY <3>4, <3>5
        <3>7. Mbit * 1000 = 0 \/ Account!Total + c <= Mbit * 1000
            BY <3>3, <3>5
        <3>8. Account!Admit(s)
            <4>1. Committed' = [Committed EXCEPT ![s] = c]
                BY <3>2, <3>5
            <4> QED BY <3>1, <3>6, <3>7, <4>1, Zenon DEF Account!Admit
        <3>9. StillFits'
            BY <2>2 DEF StillFits
        <3> QED BY <3>8, <3>9 DEF Accounted, Account!Next
    <2> QED BY <2>3, <2>4
<1>3. CASE Refused(s, held[s] \ {"rx", "ring", "tx_ring", "lock"})
    BY <1>1, <1>3, RefusedAccounts
<1> QED BY <1>2, <1>3 DEF OpenSink

LEMMA OthersAccount ==
    ASSUME Inv, StillFits, NEW s \in Segs,
           \/ HearingServe(s) \/ HearingDrop(s) \/ ReopenAtRate(s) \/ ReopenAtRole(s)
           \/ YieldOne(s) \/ WireMoves(s) \/ EngineMoves(s) \/ ForeignLock(s)
    PROVE  Accounted
<1>1. TypeOK
    BY DEF Inv
<1>2. CASE HearingServe(s)
    <2>1. held[s] = {} /\ UNCHANGED held
        BY <1>2 DEF HearingServe, Inv, ClosedHoldsNothing, Running
    <2>2. \A t \in Segs \ {s} : cfg'[t] = cfg[t]
        BY <1>1, <1>2 DEF HearingServe, TypeOK
    <2>3. \A t \in Segs : Committed'[t] = Committed[t]
        BY <2>1, <2>2 DEF Committed, Cost
    <2>4. Committed' = Committed
        BY <2>3, AccountKept DEF OthersKeep
    <2>5. run'.at \in {"tap", "rx"}
        BY <1>2 DEF HearingServe
    <2>6. StillFits'
        BY <2>4, <2>5, StaysFitting
    <2> QED BY <2>4, <2>6 DEF Accounted
<1>3. CASE HearingDrop(s) \/ ReopenAtRole(s)
    <2>1. [Account!Next]_Committed
        BY <1>1, <1>3, ClearedAccounts DEF HearingDrop, ReopenAtRole, Dropped, Hold
    <2>2. StillFits'
        BY <1>3 DEF HearingDrop, ReopenAtRole, StillFits
    <2> QED BY <2>1, <2>2 DEF Accounted
<1>4. CASE ReopenAtRate(s)
    <2>1. /\ held' = [held EXCEPT ![s] = listener_close(s)] /\ run'.at = "rx"
          /\ cfg[s].kind = "master"
          /\ \A t \in Segs \ {s} : cfg'[t] = cfg[t]
        BY <1>1, <1>4 DEF ReopenAtRate, Hold, TypeOK
    <2>2. "sink" \notin listener_close(s)
        BY <2>1 DEF listener_close
    <2>3. OthersKeep(s) /\ Committed'[s] = 0
        BY <1>1, <2>1, <2>2 DEF OthersKeep, Committed, Cost, TypeOK
    <2>4. StillFits'
        BY <2>1 DEF StillFits
    <2> QED BY <2>3, <2>4, AccountReleased DEF Accounted
<1>5. CASE YieldOne(s)
    <2>1. [Account!Next]_Committed
        BY <1>1, <1>5, ClearedAccounts DEF YieldOne, Dropped, Hold
    <2>2. run # Idle /\ run \in Runs
        BY <1>1, <1>5 DEF YieldOne, TypeOK, Idle
    <2>3. run'.at \notin {"claim", "sink"}
        BY <1>5, <2>2 DEF YieldOne, Runs
    <2> QED BY <2>1, <2>3 DEF Accounted, StillFits
<1>6. CASE WireMoves(s) \/ EngineMoves(s) \/ ForeignLock(s)
    <2>1. cfg' = cfg /\ held' = [held EXCEPT ![s] = held[s]] /\ run' = run
        BY <1>1, <1>6 DEF WireMoves, EngineMoves, ForeignLock, TypeOK
    <2> QED BY <1>1, <2>1, QuietAccounts
<1> QED BY <1>2, <1>3, <1>4, <1>5, <1>6

LEMMA NextAccounts == Inv /\ StillFits /\ [Next]_vars => Accounted
<1> SUFFICES ASSUME Inv, StillFits, [Next]_vars PROVE Accounted
    OBVIOUS
<1>1. CASE UNCHANGED vars
    <2>1. Committed' = Committed /\ run' = run /\ cfg' = cfg
        BY <1>1 DEF vars, Committed, Cost
    <2> QED BY <2>1, StaysFitting DEF Accounted
<1>2. ASSUME NEW s \in Segs, OpenStep(s) PROVE Accounted
    BY <1>2, OpenAccounts, BudgetAccounts, SinkAccounts DEF OpenStep
<1> QED BY <1>1, <1>2, OthersAccount DEF Next

\* The listeners of a port keep its account (listener_open 2215-2255): whatever is opened,
\* refused, yielded, re-opened at another rate or dropped, one segment at a time takes what
\* fits beside the others and gives back what it took.
THEOREM PortKeepsAccount == Spec => KeepsAccount
<1>1. Init => Account!Init
    BY DEF Init, Account!Init, Committed
<1>2. Init => StillFits
    BY DEF Init, StillFits
<1>3. Accounted => [Account!Next]_Committed /\ StillFits'
    BY DEF Accounted
<1> QED BY InitInv, NextInv, NextAccounts, <1>1, <1>2, <1>3, PTL DEF Spec, KeepsAccount, Account!Spec
=============================================================================
