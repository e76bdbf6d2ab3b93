---------------------------- MODULE NodePairProofs ----------------------------
(***************************************************************************)
(* What NodePair promises for every set of boxes, every ladder and every   *)
(* number of faults: its types, the one door of a segment, and that the    *)
(* recovery ladder spares the nodes that are well.                         *)
(***************************************************************************)
EXTENDS NodePair, TLAPS

USE DEF Pin, Faults, OutMax

\* A node is built for a box, and reac-playback only for a box with outputs.  Without it
\* a turn that finds no box could not be told from one that finds the box of the node.
Sized ==
    /\ Made(src) => src.of \in Boxes
    /\ Made(snk) => HasPlayback(snk.of)

PairInv == TypeOK /\ OneDoor /\ Sized

-----------------------------------------------------------------------------
(* The operators.                                                          *)

LEMMA NodeTypes ==
    /\ NoNode \in Nodes /\ ~Made(NoNode) /\ ~NoNode.door
    /\ \A b \in Boxes, g \in Boxes \cup {NoBox, Blank} :
          Built(b, g) \in Nodes /\ Made(Built(b, g)) /\ Built(b, g).of = b /\ ~Built(b, g).door
    /\ \A n \in Nodes : /\ n.on = "connecting" => Appears(n) \in Nodes
                        /\ Appears(n).of = n.of /\ Appears(n).door = n.door
                        /\ Lost(n) \in Nodes
                        /\ Lost(n).of = n.of /\ Lost(n).door = n.door
                        /\ Made(Lost(n)) <=> Made(n)
BY DEF NoNode, Nodes, Made, Built, Appears, Lost

\* The ladder counts only below MaxAttempts.
LEMMA RecoverTypes ==
    /\ RecoverInit \in Recovers
    /\ \A r \in Recovers, whole \in BOOLEAN : RecoverStep(r, whole) \in Recovers
<1>1. RecoverInit \in Recovers
  BY PairAssumption DEF RecoverInit, Recovers
<1>2. ASSUME NEW r \in Recovers, NEW whole \in BOOLEAN
      PROVE  RecoverStep(r, whole) \in Recovers
  <2>1. r.absent + 1 \in Nat /\ r.attempts \in 0..MaxAttempts
    BY DEF Recovers
  <2>2. r.attempts >= MaxAttempts \/ r.attempts + 1 \in 0..MaxAttempts
    BY <2>1, PairAssumption
  <2>3. QED
    BY <1>1, <2>1, <2>2, PairAssumption DEF RecoverStep, Recovers
<1>3. QED
  BY <1>1, <1>2

\* The row that is returned, and the slots it leaves.
LEMMA RowTypes ==
    ASSUME TypeOK
    PROVE  /\ Row \in Slots \cup {NoRow}
           /\ Row = NoRow <=> box = NoBox
           /\ Resolve => rows' \in [Slots -> Boxes \cup {NoBox}] /\ cur' \in Slots \cup {NoRow}
<1>1. Row \in Slots \cup {NoRow} /\ (Row = NoRow <=> box = NoBox)
  BY DEF TypeOK, Row, Slots, NoRow
<1>2. ASSUME Resolve
      PROVE  rows' \in [Slots -> Boxes \cup {NoBox}] /\ cur' \in Slots \cup {NoRow}
  BY <1>1, <1>2 DEF TypeOK, Resolve
<1>3. QED
  BY <1>1, <1>2

\* What the ensures leave, given the sides a turn has spared.
LEMMA EnsureTypes ==
    ASSUME NEW s \in Nodes, NEW k \in Nodes, NEW b \in Boxes, NEW ok \in BOOLEAN,
           Made(s) => s.of \in Boxes, Made(k) => HasPlayback(k.of)
    PROVE  /\ SourceEnsure(s, b, ok) \in Nodes
           /\ Made(SourceEnsure(s, b, ok)) => SourceEnsure(s, b, ok).of = b
           /\ SourceEnsure(s, b, ok).door => s.door
           /\ SinkEnsure(k, b, ok) \in Nodes
           /\ Made(SinkEnsure(k, b, ok)) => SinkEnsure(k, b, ok).of = b /\ HasPlayback(b)
           /\ Made(SinkEnsure(k, b, ok)) /\ ~(HasPlayback(b) /\ ~Fits(k, b) /\ Connects(ok))
                => Made(k)
BY NodeTypes DEF SourceEnsure, SinkEnsure, Fits

-----------------------------------------------------------------------------
(* The pair as a turn of the autodetect timer leaves it.                   *)

\* The nodes PairBuilt leaves, for whatever it was given of the two that were there.
LEMMA BuiltPair ==
    ASSUME PairInv, NEW s \in {src, NoNode}, NEW k \in {snk, NoNode},
           NEW oks \in BOOLEAN, NEW okk \in BOOLEAN, NEW stamp \in BOOLEAN,
           box \in Boxes, PairBuilt(s, k, box, oks, okk, stamp)
    PROVE  /\ src' \in Nodes /\ snk' \in Nodes /\ shadow' \in Boxes \cup {NoBox}
           /\ Made(src') => src'.of = box
           /\ Made(snk') => snk'.of = box /\ HasPlayback(box)
           /\ Made(snk') => ~src'.door
<1> DEFINE made  == SourceEnsure(s, box, oks)
           opens == HasPlayback(box) /\ ~Fits(k, box) /\ Connects(okk)
<1>1. /\ s \in Nodes /\ k \in Nodes
      /\ Made(s) => s.of \in Boxes
      /\ Made(k) => HasPlayback(k.of)
      /\ Made(k) => ~s.door
  BY NodeTypes DEF PairInv, TypeOK, Sized, OneDoor
<1>2. /\ made \in Nodes /\ (Made(made) => made.of = box) /\ (made.door => s.door)
      /\ SinkEnsure(k, box, okk) \in Nodes
      /\ Made(SinkEnsure(k, box, okk)) => SinkEnsure(k, box, okk).of = box /\ HasPlayback(box)
      /\ Made(SinkEnsure(k, box, okk)) /\ ~opens => Made(k)
  BY <1>1, EnsureTypes
<1>3. shadow \in Boxes \cup {NoBox}
  BY DEF PairInv, TypeOK
<1>4. Stamped(k, box, okk) \in Boxes \cup {NoBox}
  BY <1>3 DEF Stamped
<1>5. /\ snk' = SinkEnsure(k, box, okk)
      /\ shadow' = Stamped(k, box, okk)
      /\ src' = IF ~Made(made) THEN NoNode
                ELSE [on |-> made.on, of |-> made.of, door |-> made.door /\ ~opens,
                      badge |-> IF opens \/ stamp THEN Stamped(k, box, okk) ELSE made.badge]
  BY DEF PairBuilt
<1> HIDE DEF made, opens
<1>6. src' \in Nodes /\ (Made(src') => src'.of = box) /\ (src'.door => made.door /\ ~opens)
  <2>1. CASE ~Made(made)
    BY <2>1, <1>5, NodeTypes
  <2>2. CASE Made(made)
    <3>1. made.door \in BOOLEAN /\ (made.door /\ ~opens) \in BOOLEAN
      BY <1>2 DEF Nodes
    <3>2. QED
      BY <2>2, <3>1, <1>2, <1>4, <1>5 DEF Nodes, Made
  <2>3. QED
    BY <2>1, <2>2
<1>7. QED
  BY <1>1, <1>2, <1>4, <1>5, <1>6

\* An autodetect turn keeps the invariant.
LEMMA AutodetectKeeps ==
    ASSUME PairInv, AutodetectTimer
    PROVE  PairInv'
<1> USE DEF PairInv
<1>1. /\ setting' = setting /\ setting \in Settings
      /\ due' \in SUBSET Timers /\ moved' \in BOOLEAN
      /\ rows' \in [Slots -> Boxes \cup {NoBox}] /\ cur' \in Slots \cup {NoRow}
      /\ box' \in Boxes \cup {NoBox} /\ server' \in BOOLEAN /\ out' \in 0..OutMax
      /\ Row \in Slots \cup {NoRow}
  BY RowTypes DEF AutodetectTimer, TypeOK
<1>2. Whole \in BOOLEAN /\ SinkWhole \in BOOLEAN
  BY DEF Whole, SinkWhole, OnGraph
<1>3. CASE BoxGone
  <2>1. /\ src' \in {src, NoNode} /\ snk' \in {snk, NoNode}
        /\ UNCHANGED <<shadow, faults>>
        /\ last' \in {last, NoRow} /\ announced' \in {announced, NoRow}
        /\ restamp' \in {restamp, TRUE} /\ recover' \in {recover, RecoverInit}
    BY <1>3 DEF BoxGone, pair, adc
  <2>2. TypeOK'
    <3>1. src' \in Nodes /\ snk' \in Nodes /\ recover' \in Recovers
      BY <2>1, NodeTypes, RecoverTypes DEF TypeOK
    <3>2. last' \in Slots \cup {NoRow} /\ announced' \in Slots \cup {NoRow}
      BY <2>1 DEF TypeOK
    <3>3. restamp' \in BOOLEAN
      BY <2>1 DEF TypeOK
    <3>4. QED
      BY <1>1, <2>1, <3>1, <3>2, <3>3 DEF TypeOK
  <2>3. OneDoor' /\ Sized'
    BY <2>1, NodeTypes DEF OneDoor, Sized
  <2>4. QED
    BY <2>2, <2>3
<1>4. CASE SameBoxWaits
  <2>1. UNCHANGED <<src, snk, shadow, last, restamp, faults>> /\ announced' \in {announced, Row}
    BY <1>4 DEF SameBoxWaits, Announce, pair
  <2>2. recover' \in Recovers
    BY <1>2, <1>4, RecoverTypes DEF SameBoxWaits, TypeOK
  <2>3. TypeOK'
    BY <1>1, <2>1, <2>2 DEF TypeOK
  <2>4. OneDoor' /\ Sized'
    BY <2>1 DEF OneDoor, Sized
  <2>5. QED
    BY <2>3, <2>4
<1>5. ASSUME NEW oks \in BOOLEAN, NEW okk \in BOOLEAN, Spends(oks /\ okk),
             SameBoxRebuilds(oks, okk) \/ OtherBox(oks, okk)
      PROVE  PairInv'
  <2>1. box \in Boxes
    BY <1>5, RowTypes DEF SameBoxRebuilds, OtherBox, TypeOK
  <2>2. faults' \in 0..Faults
    BY <1>5, PairAssumption DEF Spends, TypeOK
  <2>3. restamp' \in BOOLEAN /\ last' \in Slots \cup {NoRow} /\ announced' \in Slots \cup {NoRow}
    BY <1>1, <1>5 DEF SameBoxRebuilds, OtherBox, Announce, TypeOK
  <2>4. recover' \in Recovers
    BY <1>2, <1>5, RecoverTypes DEF SameBoxRebuilds, OtherBox, TypeOK
  <2>5. \E s \in {src, NoNode}, k \in {snk, NoNode}, stamp \in BOOLEAN :
           PairBuilt(s, k, box, oks, okk, stamp)
    <3>1. CASE SameBoxRebuilds(oks, okk)
      <4>1. Spared(src) \in {src, NoNode} /\ (IF SinkWhole THEN snk ELSE NoNode) \in {snk, NoNode}
        BY DEF Spared
      <4>2. (restamp \/ ~OnGraph(src)) \in BOOLEAN
        BY DEF OnGraph
      <4>3. QED
        BY <3>1, <4>1, <4>2 DEF SameBoxRebuilds
    <3>2. CASE OtherBox(oks, okk)
      BY <3>2 DEF OtherBox, TypeOK
    <3>3. QED
      BY <1>5, <3>1, <3>2
  <2>6. /\ src' \in Nodes /\ snk' \in Nodes /\ shadow' \in Boxes \cup {NoBox}
        /\ Made(src') => src'.of = box
        /\ Made(snk') => snk'.of = box /\ HasPlayback(box)
        /\ Made(snk') => ~src'.door
    BY <2>1, <2>5, BuiltPair
  <2>7. TypeOK'
    BY <1>1, <2>2, <2>3, <2>4, <2>6 DEF TypeOK
  <2>8. OneDoor' /\ Sized'
    BY <2>1, <2>6 DEF OneDoor, Sized
  <2>9. QED
    BY <2>7, <2>8
<1>6. QED
  BY <1>3, <1>4, <1>5 DEF AutodetectTimer

\* So do a turn of the log timer and the steps of the box, the server and the clock.
LEMMA LogKeeps ==
    ASSUME PairInv, LogTimer
    PROVE  PairInv'
<1> USE DEF PairInv
<1>1. /\ due' \in SUBSET Timers
      /\ rows' \in [Slots -> Boxes \cup {NoBox}] /\ cur' \in Slots \cup {NoRow}
      /\ UNCHANGED <<wire, graph, adc>>
  BY RowTypes DEF LogTimer, TypeOK
<1>2. shadow' \in Boxes \cup {NoBox}
  BY DEF LogTimer, TypeOK, Shadow
<1>3. DoorMoves \in BOOLEAN /\ (DoorMoves => ~Made(snk))
  BY DEF DoorMoves, Made
<1>4. /\ src'.on = src.on /\ src'.of = src.of /\ src'.door = (src.door \/ DoorMoves)
      /\ src' \in Nodes
  <2>1. (src.door \/ DoorMoves) \in BOOLEAN
    BY <1>3
  <2>2. QED
    BY <2>1 DEF LogTimer, TypeOK, Nodes, Badge
<1>5. snk'.on = snk.on /\ snk'.of = snk.of /\ snk' \in Nodes
  BY DEF LogTimer, TypeOK, Nodes, Badge
<1>6. TypeOK'
  BY <1>1, <1>2, <1>4, <1>5 DEF TypeOK, wire, graph, adc
<1>7. OneDoor' /\ Sized'
  BY <1>3, <1>4, <1>5 DEF OneDoor, Sized, Made
<1>8. QED
  BY <1>6, <1>7

LEMMA OthersKeep ==
    ASSUME PairInv,
           BoxMoves \/ NodeAppears \/ NodeLost \/ ServerStops \/ ServerReturns \/ Tick
    PROVE  PairInv'
<1> USE DEF PairInv
<1>1. CASE BoxMoves
  BY <1>1 DEF BoxMoves, TypeOK, OneDoor, Sized, graph, pair, adc
<1>2. CASE NodeAppears
  <2>1. /\ src' \in Nodes /\ snk' \in Nodes
        /\ src'.of = src.of /\ src'.door = src.door /\ (Made(src') <=> Made(src))
        /\ snk'.of = snk.of /\ snk'.door = snk.door /\ (Made(snk') <=> Made(snk))
    <3>1. /\ src' = src \/ (src.on = "connecting" /\ src' = Appears(src))
          /\ snk' = snk \/ (snk.on = "connecting" /\ snk' = Appears(snk))
      BY <1>2 DEF NodeAppears
    <3>2. src \in Nodes /\ snk \in Nodes
      BY DEF TypeOK
    <3>3. \A n \in Nodes : n.on = "connecting" =>
             /\ Appears(n) \in Nodes /\ Appears(n).of = n.of /\ Appears(n).door = n.door
             /\ Made(n) /\ Made(Appears(n))
      BY NodeTypes DEF Made, Appears
    <3>4. QED
      BY <3>1, <3>2, <3>3
  <2>2. TypeOK'
    BY <1>2, <2>1 DEF NodeAppears, TypeOK, wire, graph, adc
  <2>3. QED
    BY <2>1, <2>2 DEF OneDoor, Sized
<1>3. CASE NodeLost \/ ServerStops
  <2>1. src' \in {src, Lost(src)} /\ snk' \in {snk, Lost(snk)} /\ faults' = faults + 1
        /\ faults < Faults /\ UNCHANGED <<due, wire, rows, cur, shadow, adc>>
        /\ server' \in {server, FALSE} /\ out' \in {out, 0}
    BY <1>3 DEF NodeLost, ServerStops
  <2>2. /\ src' \in Nodes /\ snk' \in Nodes
        /\ src'.of = src.of /\ src'.door = src.door /\ (Made(src') <=> Made(src))
        /\ snk'.of = snk.of /\ snk'.door = snk.door /\ (Made(snk') <=> Made(snk))
    <3>1. src \in Nodes /\ snk \in Nodes
      BY DEF TypeOK
    <3>2. \A n \in Nodes : \A m \in {n, Lost(n)} :
             m \in Nodes /\ m.of = n.of /\ m.door = n.door /\ (Made(m) <=> Made(n))
      BY NodeTypes
    <3>3. QED
      BY <2>1, <3>1, <3>2
  <2>3. faults' \in 0..Faults /\ out' \in 0..OutMax
    BY <2>1, PairAssumption DEF TypeOK
  <2>4. server' \in BOOLEAN
    BY <2>1 DEF TypeOK
  <2>5. TypeOK'
    BY <2>1, <2>2, <2>3, <2>4 DEF TypeOK, wire, adc
  <2>6. QED
    BY <2>2, <2>5 DEF OneDoor, Sized
<1>4. CASE ServerReturns
  BY <1>4 DEF ServerReturns, TypeOK, OneDoor, Sized, wire, pair, adc
<1>5. CASE Tick
  <2>1. out' \in 0..OutMax
    BY <1>5, PairAssumption DEF Tick, TypeOK
  <2>2. QED
    BY <1>5, <2>1 DEF Tick, TypeOK, OneDoor, Sized, wire, pair, adc, Timers
<1>6. QED
  BY <1>1, <1>2, <1>3, <1>4, <1>5

-----------------------------------------------------------------------------
(* The theorems.                                                           *)

LEMMA InitInv == Init => PairInv
<1> SUFFICES ASSUME Init PROVE PairInv
  OBVIOUS
<1>1. /\ Pin = NoBox \/ Pin \in Boxes
      /\ HasPlayback(Pin) => Pin \in Boxes
  BY PairAssumption DEF Init, HasPlayback
<1>2. src \in Nodes /\ (Made(src) => src.of \in Boxes) /\ ~src.door
  BY <1>1, NodeTypes DEF Init
<1>3. snk \in Nodes /\ (Made(snk) => HasPlayback(snk.of))
  BY <1>1, NodeTypes DEF Init
<1>4. TypeOK
  <2>1. box \in Boxes \cup {NoBox} /\ shadow \in Boxes \cup {NoBox} /\ due \in SUBSET Timers
        /\ setting \in Settings /\ recover \in Recovers
    BY RecoverTypes DEF Init
  <2>2. moved \in BOOLEAN /\ server \in BOOLEAN /\ restamp \in BOOLEAN
    BY DEF Init
  <2>3. /\ out \in 0..OutMax /\ faults \in 0..Faults
        /\ rows \in [Slots -> Boxes \cup {NoBox}]
        /\ cur \in Slots \cup {NoRow} /\ last \in Slots \cup {NoRow}
        /\ announced \in Slots \cup {NoRow}
    BY PairAssumption DEF Init
  <2>4. QED
    BY <1>2, <1>3, <2>1, <2>2, <2>3 DEF TypeOK
<1>5. QED
  BY <1>2, <1>3, <1>4 DEF PairInv, OneDoor, Sized

LEMMA NextInv == PairInv /\ [Next]_vars => PairInv'
<1> SUFFICES ASSUME PairInv, [Next]_vars PROVE PairInv'
  OBVIOUS
<1>1. CASE UNCHANGED vars
  BY <1>1 DEF PairInv, TypeOK, OneDoor, Sized, vars, wire, graph, pair, adc
<1>2. CASE Next
  BY <1>2, AutodetectKeeps, LogKeeps, OthersKeep DEF Next
<1>3. QED
  BY <1>1, <1>2

\* The two timers, the recognizer's rows and the server's accidents leave every variable
\* within its type; the ladder's rebuilds stay bounded (reac_node_recover_step 46-58).
THEOREM PairTypeCorrect == Spec => []TypeOK
<1>1. PairInv => TypeOK
  BY DEF PairInv
<1>2. QED
  BY <1>1, InitInv, NextInv, PTL DEF Spec

\* A segment never has two doors, for any boxes and any faults (sink_door_follow binds
\* reac-capture only without a reac-playback, sink_open_filter unbinds it).
THEOREM SegmentHasOneDoor == Spec => []OneDoor
<1>1. PairInv => OneDoor
  BY DEF PairInv
<1>2. QED
  BY <1>1, InitInv, NextInv, PTL DEF Spec

\* A node of the graph that fits the box the turn finds is left alone: a box that is gone
\* has no node that fits it, a rebuild spares the side that is there, and the ensures agree
\* with it (on_autodetect_timer 1123-1130, reac_node_ensure_needs_rebuild).
LEMMA TurnSpares ==
    ASSUME PairInv, AutodetectTimer
    PROVE  /\ OnGraph(src) /\ src.of = box => OnGraph(src')
           /\ OnGraph(snk) /\ snk.of = box => OnGraph(snk')
<1>1. /\ OnGraph(src) => Made(src) /\ src.of \in Boxes
      /\ OnGraph(snk) => Made(snk) /\ HasPlayback(snk.of) /\ snk.of \in Boxes
  BY DEF OnGraph, Made, PairInv, Sized, HasPlayback
<1>2. CASE BoxGone
  <2>1. box = NoBox
    BY <1>2, RowTypes DEF BoxGone, PairInv
  <2>2. QED
    BY <1>1, <2>1, PairAssumption
<1>3. CASE SameBoxWaits
  BY <1>3 DEF SameBoxWaits, pair
<1>4. ASSUME NEW oks \in BOOLEAN, NEW okk \in BOOLEAN,
             SameBoxRebuilds(oks, okk) \/ OtherBox(oks, okk)
      PROVE  /\ OnGraph(src) /\ src.of = box => OnGraph(src')
             /\ OnGraph(snk) /\ snk.of = box => OnGraph(snk')
  <2>1. \E s, k, stamp :
           /\ PairBuilt(s, k, box, oks, okk, stamp)
           /\ OnGraph(src) => s = src
           /\ OnGraph(snk) => k = snk
    BY <1>4 DEF SameBoxRebuilds, OtherBox, Spared, SinkWhole
  <2>2. PICK s, k, stamp : /\ PairBuilt(s, k, box, oks, okk, stamp)
                           /\ OnGraph(src) => s = src
                           /\ OnGraph(snk) => k = snk
    BY <2>1
  <2>3. OnGraph(src) /\ src.of = box => OnGraph(src')
    BY <1>1, <2>2 DEF PairBuilt, SourceEnsure, Fits, OnGraph
  <2>4. OnGraph(snk) /\ snk.of = box => OnGraph(snk')
    BY <1>1, <2>2 DEF PairBuilt, SinkEnsure, Fits, OnGraph
  <2>5. QED
    BY <2>3, <2>4
<1>5. QED
  BY <1>2, <1>3, <1>4 DEF AutodetectTimer

\* No turn of the autodetect timer spends a healthy node, whatever its sibling, the ladder
\* or the server does (reac_node_recover.h: "a playback node that failed alone must not
\* cost it its inputs", #109).
THEOREM LadderSparesTheHealthy == Spec => HealthyIsSpared
<1>1. PairInv /\ [Next]_vars =>
         [AutodetectTimer =>
             /\ OnGraph(src) /\ src.of = box => OnGraph(src')
             /\ OnGraph(snk) /\ snk.of = box => OnGraph(snk')]_vars
  BY TurnSpares
<1>2. QED
  BY <1>1, InitInv, NextInv, PTL DEF Spec, HealthyIsSpared
=============================================================================
