----------------------------- MODULE DoorsProofs -----------------------------
(***************************************************************************)
(* The settings door of a segment, for every list of rates, every set of   *)
(* cells, every length of the command ring and every number of writes,     *)
(* moves and faults: the type invariant, ShadowIsShown and                 *)
(* ReadbackIsSentUndropped of Doors.                                       *)
(***************************************************************************)
EXTENDS Doors, TLAPS

Pacers == [rate : Rates \cup {NoRate}, refused : {"none", "malformed", "not-closed", "not-drivable"},
           ring : Seq(Cells \X (0..1)), table : [Cells -> CellVals], box : BoxKinds,
           based : BOOLEAN, disco : Nat, depth : 0..1]
Sinks  == [made : BOOLEAN, stream : BOOLEAN, of : BoxKinds, wantRate : Drivable \cup {NoRate},
           wantRole : Roles \cup {NoRole}, roleRefused : BOOLEAN,
           haRefused : {"none", "bad-key", "out-of-range"}, asserted : [Cells -> CellVals],
           health : Figures]
Srcs   == [made : BOOLEAN, bound : BOOLEAN, wantRole : Roles \cup {NoRole}]

\* What each variable is, TypeOK and more: the pacer, the nodes and the tables of keys whole.
Shapes ==
    /\ heard \in BOOLEAN
    /\ lis \in [open : BOOLEAN, role : Roles, rate : Rates]
    /\ swap \in [asked : Roles, running : Roles, up : BOOLEAN, performing : BOOLEAN]
    /\ pacer \in Pacers /\ Len(pacer.ring) <= RingCap
    /\ snk \in Sinks /\ src \in Srcs
    /\ shadow = [k \in Shown |-> shadow[k]]
    /\ shows = [n \in Nodes |-> shows[n]]
    /\ \A n \in Nodes : shows[n] = [k \in Shown |-> shows[n][k]]

\* A master has a sink, only a sink binds a capture, and not while its own stream is up.
NodesFit ==
    /\ snk.made <=> (lis.open /\ lis.role = "master")
    /\ snk.stream => snk.made /\ ~src.bound
    /\ src.bound => src.made /\ snk.made

\* A capture that is no door carries no health figures.
UnboundIsPlain == snk.made /\ ~src.bound => shows["src"]["health"] = Unsaid

\* What the shadow says is on the stream; and, but for the latency, on the bound capture.
OnPlayback ==
    snk.stream => /\ \A k \in Keys : shadow[k] # Unsaid => shows["snk"][k] = shadow[k]
                  /\ shows["snk"]["health"] \in {Unsaid, snk.health}
OnCapture ==
    src.bound => /\ \A k \in Keys \ {"latency"} :
                       shadow[k] # Unsaid => shows["src"][k] = shadow[k]
                 /\ shows["src"]["health"] \in {Unsaid, snk.health}

Inv == /\ Shapes /\ NodesFit /\ UnboundIsPlain /\ OnPlayback /\ OnCapture
       /\ ReadbackIsSentUndropped
-----------------------------------------------------------------------------
(* What the segment is made of.                                            *)

\* The constants, and what each constructor gives.
LEMMA ConstLemma ==
    /\ Drivable \subseteq Rates /\ Rates \subseteq Nat /\ NoRate \notin Rates
    /\ RingCap \in Nat /\ RingCap > 0
BY DoorsAssumption DEF NoRate

LEMMA UnsetLemma ==
    /\ Unset \in [Cells -> CellVals] /\ \A c \in Cells : Unset[c] = Unsaid
    /\ Blank = [k \in Shown |-> Blank[k]] /\ \A k \in Shown : Blank[k] = Unsaid
BY DEF Unset, CellVals, Blank

LEMMA PacerLemma ==
    ASSUME NEW hz \in Rates \cup {NoRate}, NEW p, p = NewPacer(hz)
    PROVE  p \in Pacers /\ p.ring = <<>> /\ p.table = Unset
<1>1. p = [rate |-> hz, refused |-> "none", ring |-> <<>>, table |-> Unset,
           box |-> "none", based |-> FALSE, disco |-> 0, depth |-> 0]
  BY DEF NewPacer
<1>2. <<>> \in Seq(Cells \X (0..1)) /\ Unset \in [Cells -> CellVals] /\ 0 \in 0..1
  BY UnsetLemma
<1> QED BY <1>1, <1>2 DEF Pacers, BoxKinds

LEMMA SinkLemma ==
    ASSUME NEW role \in Roles, NEW s, s = SinkOf(role)
    PROVE  /\ s \in Sinks /\ (s.made <=> role = "master") /\ ~s.stream /\ s.asserted = Unset
<1>1. Unset \in [Cells -> CellVals]
  BY UnsetLemma
<1>2. PICK t : t = NewSink
  OBVIOUS
<1>3. t \in Sinks /\ t.made /\ ~t.stream /\ t.asserted = Unset
  BY <1>1, <1>2 DEF NewSink, Sinks, BoxKinds, Figures
<1>4. CASE role = "master"
  BY <1>2, <1>3, <1>4 DEF SinkOf
<1>5. CASE role # "master"
  <2>1. s = [t EXCEPT !.made = FALSE]
    BY <1>2, <1>5 DEF SinkOf, NoSink
  <2>2. s \in Sinks
    BY <1>3, <2>1 DEF Sinks
  <2>3. ~s.made /\ s.stream = t.stream /\ s.asserted = t.asserted
    BY <1>3, <2>1 DEF Sinks
  <2> QED BY <1>3, <1>5, <2>2, <2>3
<1> QED BY <1>4, <1>5

LEMMA SrcLemma ==
    /\ NewSrc \in Srcs /\ NewSrc.made /\ ~NewSrc.bound
    /\ NoSrc \in Srcs /\ ~NoSrc.made /\ ~NoSrc.bound
<1>1. NewSrc \in Srcs /\ NewSrc.made /\ ~NewSrc.bound
  BY DEF NewSrc, Srcs
<1>2. PICK s : s = NewSrc
  OBVIOUS
<1>3. PICK t : t = [s EXCEPT !.made = FALSE]
  OBVIOUS
<1>4. t \in Srcs /\ ~t.made /\ t.bound = s.bound
  BY <1>1, <1>2, <1>3 DEF Srcs
<1>5. t = NoSrc
  BY <1>2, <1>3 DEF NoSrc
<1> QED BY <1>1, <1>2, <1>4, <1>5

\* Tables of keys, for both nodes.
Tables(t) ==
    /\ t = [n \in Nodes |-> t[n]]
    /\ \A n \in Nodes : t[n] = [k \in Shown |-> t[n][k]]

LEMMA ShowsLemma ==
    ASSUME NEW role \in Roles, NEW state, NEW t, t = ShowsOf(role, state)
    PROVE  Tables(t) /\ t["src"]["health"] = Unsaid
<1>1. PICK r : r = RecorderShows(state)
  OBVIOUS
<1>2. r = [k \in Shown |-> r[k]] /\ r["health"] = Unsaid
  BY <1>1, UnsetLemma DEF RecorderShows, Shown, Keys
<1>3. "health" \in Shown /\ "src" \in Nodes
  BY DEF Shown, Nodes
<1>4. t = [n \in Nodes |-> IF n = "src" /\ role = "slave" THEN r ELSE Blank]
  BY <1>1 DEF ShowsOf
<1>5. \A n \in Nodes : t[n] = r \/ t[n] = Blank
  BY <1>4
<1>6. Tables(t)
  BY <1>2, <1>4, <1>5, UnsetLemma DEF Tables
<1> QED BY <1>2, <1>3, <1>5, <1>6, UnsetLemma

\* A segment that has just been opened, in a role, or is down, has said and asked nothing.
LEMMA FreshStep ==
    ASSUME NEW role \in Roles, NEW hz \in Rates \cup {NoRate},
           heard' \in BOOLEAN, lis' \in [open : BOOLEAN, role : Roles, rate : Rates],
           swap' \in [asked : Roles, running : Roles, up : BOOLEAN, performing : BOOLEAN],
           (role = "master") <=> (lis'.open /\ lis'.role = "master"),
           pacer' = NewPacer(hz), snk' = SinkOf(role), src' \in {NewSrc, NoSrc},
           shadow' = Blank, Tables(shows'), shows'["src"]["health"] = Unsaid
    PROVE  Inv'
<1>1. pacer' \in Pacers /\ pacer'.ring = <<>> /\ pacer'.table = Unset
  BY PacerLemma
<1>2. snk' \in Sinks /\ (snk'.made <=> role = "master") /\ ~snk'.stream /\ snk'.asserted = Unset
  BY SinkLemma
<1>3. src' \in Srcs /\ ~src'.bound
  BY SrcLemma
<1>4. Len(pacer'.ring) <= RingCap
  <2>1. Len(<<>>) = 0
    OBVIOUS
  <2> QED BY <1>1, <2>1, ConstLemma
<1>5. Shapes'
  BY <1>1, <1>2, <1>3, <1>4, UnsetLemma DEF Shapes, Tables
<1>6. NodesFit' /\ UnboundIsPlain' /\ OnPlayback' /\ OnCapture'
  BY <1>2, <1>3 DEF NodesFit, UnboundIsPlain, OnPlayback, OnCapture
<1>7. ReadbackIsSentUndropped'
  <2>1. DOMAIN pacer'.ring = {}
    BY <1>1
  <2> QED BY <1>1, <1>2, <2>1, UnsetLemma DEF ReadbackIsSentUndropped, ReadbackIsSent, Replays
<1> QED BY <1>5, <1>6, <1>7 DEF Inv
LEMMA InitInv == Init => Inv
<1> SUFFICES ASSUME Init PROVE Inv
  OBVIOUS
<1>1. PICK role \in Roles, hz \in Drivable :
         /\ lis = [open |-> TRUE, role |-> role, rate |-> hz]
         /\ swap = [asked |-> role, running |-> role, up |-> TRUE, performing |-> FALSE]
         /\ pacer = PacerOf(role, hz) /\ snk = SinkOf(role) /\ src = SrcOf(role)
         /\ shows = ShowsOf(role, "hunting")
  BY DEF Init
<1>2. hz \in Rates
  BY ConstLemma
<1>3. pacer \in Pacers /\ pacer.ring = <<>> /\ pacer.table = Unset
  BY <1>1, <1>2, PacerLemma DEF PacerOf, NoPacer
<1>4. snk \in Sinks /\ (snk.made <=> role = "master") /\ ~snk.stream /\ snk.asserted = Unset
  BY <1>1, SinkLemma
<1>5. src \in Srcs /\ ~src.bound
  BY <1>1, SrcLemma DEF SrcOf
<1>6. Tables(shows) /\ shows["src"]["health"] = Unsaid
  BY <1>1, ShowsLemma
<1>7. Len(pacer.ring) <= RingCap
  <2>1. Len(<<>>) = 0
    OBVIOUS
  <2> QED BY <1>3, <2>1, ConstLemma
<1>8. heard \in BOOLEAN /\ shadow = Blank
  BY DEF Init
<1>9. lis \in [open : BOOLEAN, role : Roles, rate : Rates] /\ lis.open /\ lis.role = role
  BY <1>1, <1>2
<1>10. swap \in [asked : Roles, running : Roles, up : BOOLEAN, performing : BOOLEAN]
  BY <1>1
<1>11. Shapes
  BY <1>3, <1>4, <1>5, <1>6, <1>7, <1>8, <1>9, <1>10, UnsetLemma DEF Shapes, Tables
<1>12. NodesFit /\ UnboundIsPlain /\ OnPlayback /\ OnCapture
  BY <1>4, <1>5, <1>6, <1>9 DEF NodesFit, UnboundIsPlain, OnPlayback, OnCapture
<1>13. ReadbackIsSentUndropped
  <2>1. DOMAIN pacer.ring = {}
    BY <1>3
  <2> QED BY <1>3, <1>4, <2>1, UnsetLemma DEF ReadbackIsSentUndropped, ReadbackIsSent, Replays
<1> QED BY <1>11, <1>12, <1>13 DEF Inv

\* listener_open and listener_close, from any state.
LEMMA OpenedStep ==
    ASSUME Inv, NEW role \in Roles, NEW hz \in Rates, Opened(role, hz), heard' = heard
    PROVE  Inv'
<1>1. PICK r \in Rates \cup {NoRate} : pacer' = NewPacer(r)
  BY DEF Opened, PacerOf, NoPacer
<1>2. Tables(shows') /\ shows'["src"]["health"] = Unsaid
  BY ShowsLemma DEF Opened
<1>3. lis' \in [open : BOOLEAN, role : Roles, rate : Rates] /\ lis'.open /\ lis'.role = role
  BY DEF Opened
<1>4. swap' \in [asked : Roles, running : Roles, up : BOOLEAN, performing : BOOLEAN]
  BY DEF Inv, Shapes, Opened
<1>5. snk' = SinkOf(role) /\ shadow' = Blank /\ src' \in {NewSrc, NoSrc}
  BY DEF Opened, SrcOf
<1>6. heard' \in BOOLEAN
  BY DEF Inv, Shapes
<1> QED BY <1>1, <1>2, <1>3, <1>4, <1>5, <1>6, FreshStep

LEMMA DownStep ==
    ASSUME Inv, Down, heard' = heard
    PROVE  Inv'
<1>1. pacer' = NewPacer(NoRate)
  BY DEF Down, NoPacer
<1>2. Tables(shows') /\ shows'["src"]["health"] = Unsaid
  <2>1. shows' = [n \in Nodes |-> Blank]
    BY DEF Down
  <2>2. "health" \in Shown /\ "src" \in Nodes
    BY DEF Shown, Nodes
  <2> QED BY <2>1, <2>2, UnsetLemma DEF Tables
<1>3. lis' \in [open : BOOLEAN, role : Roles, rate : Rates] /\ ~lis'.open
  BY DEF Inv, Shapes, Down
<1>4. swap' \in [asked : Roles, running : Roles, up : BOOLEAN, performing : BOOLEAN]
  BY DEF Inv, Shapes, Down
<1>5. "slave" \in Roles /\ snk' = SinkOf("slave") /\ shadow' = Blank /\ src' \in {NewSrc, NoSrc}
  BY DEF Down, SinkOf, Roles
<1>6. heard' \in BOOLEAN
  BY DEF Inv, Shapes
<1> QED BY <1>1, <1>2, <1>3, <1>4, <1>5, <1>6, FreshStep

LEMMA PollStep ==
    ASSUME Inv, Poll
    PROVE  Inv'
<1>1. heard' = heard /\ lis \in [open : BOOLEAN, role : Roles, rate : Rates]
      /\ snk \in Sinks /\ src \in Srcs
  BY DEF Poll, Inv, Shapes
<1>2. ASSUME NEW role \in Roles, RoleChanges(role)
      PROVE  Inv'
  BY <1>1, <1>2, DownStep, OpenedStep DEF RoleChanges, Reopened
<1>3. ASSUME NEW hz \in Rates, RateChanges(hz)
      PROVE  Inv'
  BY <1>1, <1>3, DownStep, OpenedStep DEF RateChanges, Reopened
<1>4. CASE snk.wantRole # NoRole /\ RoleChanges(snk.wantRole)
  BY <1>1, <1>2, <1>4 DEF Sinks
<1>5. CASE src.wantRole # NoRole /\ RoleChanges(src.wantRole)
  BY <1>1, <1>2, <1>5 DEF Srcs
<1>6. CASE snk.wantRate # NoRate /\ RateChanges(snk.wantRate)
  <2>1. snk.wantRate \in Rates
    BY <1>1, <1>6, ConstLemma DEF Sinks
  <2> QED BY <1>3, <1>6, <2>1
<1>7. CASE /\ ~snk.made /\ shows' = ShowsOf("slave", RoleState)
           /\ UNCHANGED <<lis, swap, pacer, snk, src, shadow, drops, spent>>
  <2>1. Tables(shows')
    BY <1>7, ShowsLemma DEF Roles
  <2>2. ~snk.stream /\ ~src.bound
    BY <1>7 DEF Inv, NodesFit
  <2>3. Shapes'
    BY <1>1, <1>7, <2>1 DEF Inv, Shapes, Tables
  <2>4. NodesFit' /\ UnboundIsPlain' /\ OnPlayback' /\ OnCapture'
    BY <1>7, <2>2 DEF Inv, NodesFit, UnboundIsPlain, OnPlayback, OnCapture
  <2>5. ReadbackIsSentUndropped'
    BY <1>7 DEF Inv, ReadbackIsSentUndropped, ReadbackIsSent, Replays
  <2> QED BY <2>3, <2>4, <2>5 DEF Inv
<1> QED BY <1>4, <1>5, <1>6, <1>7 DEF Poll

LEMMA HearingServeStep ==
    ASSUME Inv, HearingServe
    PROVE  Inv'
<1>1. PICK role \in Roles :
         /\ lis' = [lis EXCEPT !.open = TRUE, !.role = role]
         /\ swap' = [asked |-> role, running |-> role, up |-> TRUE, performing |-> FALSE]
         /\ pacer' = PacerOf(role, lis.rate) /\ snk' = SinkOf(role) /\ src' = SrcOf(role)
         /\ shows' = ShowsOf(role, "hunting")
  BY DEF HearingServe
<1>2. lis \in [open : BOOLEAN, role : Roles, rate : Rates] /\ heard' \in BOOLEAN
  BY DEF Inv, Shapes, HearingServe
<1>3. lis' \in [open : BOOLEAN, role : Roles, rate : Rates] /\ lis'.open /\ lis'.role = role
  BY <1>1, <1>2
<1>4. PICK r \in Rates \cup {NoRate} : pacer' = NewPacer(r)
  BY <1>1, <1>2 DEF PacerOf, NoPacer
<1>5. Tables(shows') /\ shows'["src"]["health"] = Unsaid
  BY <1>1, ShowsLemma
<1>6. swap' \in [asked : Roles, running : Roles, up : BOOLEAN, performing : BOOLEAN]
  BY <1>1
<1>7. shadow' = Blank /\ src' \in {NewSrc, NoSrc}
  BY <1>1 DEF HearingServe, SrcOf
<1> QED BY <1>1, <1>2, <1>3, <1>4, <1>5, <1>6, <1>7, FreshStep
-----------------------------------------------------------------------------
(* The head-amp commands.                                                  *)

\* Replays, of a ring and a table.
Plays(ring, table, c, v) ==
    \/ (\A j \in DOMAIN ring : j > 0 => ring[j][1] # c) /\ table[c] = v
    \/ \E i \in DOMAIN ring : /\ ring[i] = <<c, v>>
                              /\ \A j \in DOMAIN ring : j > i => ring[j][1] # c

Commands == Cells \X (0..1)

LEMMA ParsesLemma ==
    ASSUME NEW w \in HeadampWrites \cup {NoWrite}, Parses(w)
    PROVE  w \in Commands /\ w[1] \in Cells /\ w[2] \in 0..1 /\ w = <<w[1], w[2]>>
<1>1. w # NoWrite /\ w \in HeadampWrites
  BY DEF Parses
<1>2. w[1] \in Cells /\ w[2] \in 0..1
  BY <1>1 DEF Parses, WriteRefusal
<1>3. w = <<w[1], w[2]>>
  BY <1>1 DEF HeadampWrites
<1> QED BY <1>2, <1>3 DEF Commands

\* A setting that the ring takes is replayed last, and the other cells are replayed as before.
LEMMA TakesLemma ==
    ASSUME NEW w \in HeadampWrites \cup {NoWrite}, NEW ring \in Seq(Commands), NEW table,
           NEW asserted \in [Cells -> CellVals], Len(ring) <= RingCap,
           NEW r, r = RingTakes(ring, w), NEW a, a = Asserted(asserted, w)
    PROVE  /\ r \in Seq(Commands) /\ Len(r) <= RingCap /\ a \in [Cells -> CellVals]
           /\ ~(Parses(w) /\ RingFull(ring)) =>
                 \A c \in Cells : Plays(ring, table, c, asserted[c]) => Plays(r, table, c, a[c])
<1>0. RingCap \in Nat
  BY ConstLemma
<1>1. CASE ~Parses(w)
  BY <1>1 DEF RingTakes, Asserted
<1>2. CASE Parses(w) /\ RingFull(ring)
  <2>1. r = ring /\ a = [asserted EXCEPT ![w[1]] = w[2]]
    BY <1>2 DEF RingTakes, Asserted
  <2>2. w[2] \in CellVals /\ w[1] \in Cells
    BY <1>2, ParsesLemma DEF CellVals
  <2> QED BY <1>2, <2>1, <2>2
<1>3. CASE Parses(w) /\ ~RingFull(ring)
  <2>1. r = Append(ring, w) /\ a = [asserted EXCEPT ![w[1]] = w[2]]
    BY <1>3 DEF RingTakes, Asserted
  <2>2. w \in Commands /\ w[1] \in Cells /\ w[2] \in 0..1 /\ w = <<w[1], w[2]>>
    BY <1>3, ParsesLemma
  <2>3. w[2] \in CellVals
    BY <2>2 DEF CellVals
  <2>4. a \in [Cells -> CellVals]
    BY <2>1, <2>2, <2>3
  <2>5. r \in Seq(Commands) /\ Len(r) = Len(ring) + 1
    BY <2>1, <2>2
  <2>6. Len(ring) \in Nat /\ Len(ring) < RingCap
    BY <1>0, <1>3 DEF RingFull
  <2>7. Len(r) <= RingCap
    BY <1>0, <2>5, <2>6
  <2>8. /\ DOMAIN r = 1..(Len(ring) + 1) /\ DOMAIN ring = 1..Len(ring)
        /\ r[Len(ring) + 1] = w /\ \A i \in 1..Len(ring) : r[i] = ring[i]
    BY <2>1, <2>2, <2>5
  <2>9. ASSUME NEW c \in Cells, Plays(ring, table, c, asserted[c])
        PROVE  Plays(r, table, c, a[c])
    <3>1. CASE c = w[1]
      <4>1. a[c] = w[2]
        BY <2>1, <2>2, <3>1
      <4>2. Len(ring) + 1 \in DOMAIN r /\ r[Len(ring) + 1] = <<c, a[c]>>
        BY <2>2, <2>6, <2>8, <3>1, <4>1
      <4>3. \A j \in DOMAIN r : ~(j > Len(ring) + 1)
        BY <2>6, <2>8
      <4> QED BY <4>2, <4>3 DEF Plays
    <3>2. CASE c # w[1]
      <4>1. a[c] = asserted[c]
        BY <2>1, <2>2, <3>2
      <4>2. CASE (\A j \in DOMAIN ring : j > 0 => ring[j][1] # c) /\ table[c] = asserted[c]
        <5>1. \A j \in DOMAIN r : j > 0 => r[j][1] # c
          BY <2>6, <2>8, <3>2, <4>2
        <5> QED BY <4>1, <4>2, <5>1 DEF Plays
      <4>3. CASE \E i \in DOMAIN ring : /\ ring[i] = <<c, asserted[c]>>
                                        /\ \A j \in DOMAIN ring : j > i => ring[j][1] # c
        <5>1. PICK i \in DOMAIN ring : /\ ring[i] = <<c, asserted[c]>>
                                       /\ \A j \in DOMAIN ring : j > i => ring[j][1] # c
          BY <4>3
        <5>2. i \in DOMAIN r /\ r[i] = <<c, a[c]>>
          BY <2>6, <2>8, <4>1, <5>1
        <5>3. \A j \in DOMAIN r : j > i => r[j][1] # c
          BY <2>6, <2>8, <3>2, <5>1
        <5> QED BY <5>2, <5>3 DEF Plays
      <4> QED BY <2>9, <4>2, <4>3 DEF Plays
    <3> QED BY <3>1, <3>2
  <2> QED BY <2>4, <2>5, <2>7, <2>9
<1> QED BY <1>1, <1>2, <1>3

\* A command that the pacer takes is in its table instead of at the head of its ring.
LEMMA DrainLemma ==
    ASSUME NEW ring \in Seq(Commands), ring # <<>>, NEW table \in [Cells -> CellVals],
           NEW cell, cell = Head(ring), NEW t, t = [table EXCEPT ![cell[1]] = cell[2]]
    PROVE  /\ t \in [Cells -> CellVals] /\ Tail(ring) \in Seq(Commands)
           /\ Len(Tail(ring)) = Len(ring) - 1
           /\ \A c \in Cells : \A v : Plays(ring, table, c, v) => Plays(Tail(ring), t, c, v)
<1>1. cell \in Commands /\ ring[1] = cell /\ Len(ring) \in Nat /\ Len(ring) > 0
  OBVIOUS
<1>2. cell[1] \in Cells /\ cell[2] \in CellVals
  BY <1>1 DEF Commands, CellVals
<1>3. t \in [Cells -> CellVals]
  BY <1>2
<1>4. /\ Tail(ring) \in Seq(Commands) /\ Len(Tail(ring)) = Len(ring) - 1
      /\ DOMAIN ring = 1..Len(ring) /\ DOMAIN Tail(ring) = 1..(Len(ring) - 1)
      /\ \A i \in 1..(Len(ring) - 1) : Tail(ring)[i] = ring[i + 1]
  BY <1>1
<1>5. ASSUME NEW c \in Cells, NEW v, Plays(ring, table, c, v)
      PROVE  Plays(Tail(ring), t, c, v)
  <2>1. CASE (\A j \in DOMAIN ring : j > 0 => ring[j][1] # c) /\ table[c] = v
    <3>1. cell[1] # c
      BY <1>1, <1>4, <2>1
    <3>2. t[c] = v
      BY <1>2, <2>1, <3>1
    <3>3. \A j \in DOMAIN Tail(ring) : Tail(ring)[j][1] # c
      BY <1>1, <1>4, <2>1
    <3> QED BY <3>2, <3>3 DEF Plays
  <2>2. CASE \E i \in DOMAIN ring : /\ ring[i] = <<c, v>>
                                    /\ \A j \in DOMAIN ring : j > i => ring[j][1] # c
    <3>1. PICK i \in DOMAIN ring : /\ ring[i] = <<c, v>>
                                   /\ \A j \in DOMAIN ring : j > i => ring[j][1] # c
      BY <2>2
    <3>2. CASE i = 1
      <4>1. cell[1] = c /\ cell[2] = v
        BY <1>1, <3>1, <3>2
      <4>2. t[c] = v
        BY <1>2, <4>1
      <4>3. \A j \in DOMAIN Tail(ring) : Tail(ring)[j][1] # c
        BY <1>1, <1>4, <3>1, <3>2
      <4> QED BY <4>2, <4>3 DEF Plays
    <3>3. CASE i # 1
      <4>1. i - 1 \in DOMAIN Tail(ring) /\ Tail(ring)[i - 1] = <<c, v>>
        BY <1>1, <1>4, <3>1, <3>3
      <4>2. \A j \in DOMAIN Tail(ring) : j > i - 1 => Tail(ring)[j][1] # c
        BY <1>1, <1>4, <3>1
      <4> QED BY <4>1, <4>2 DEF Plays
    <3> QED BY <3>2, <3>3
  <2> QED BY <1>5, <2>1, <2>2 DEF Plays
<1> QED BY <1>3, <1>4, <1>5
-----------------------------------------------------------------------------
(* The actions that publish nothing.                                       *)

\* A step that moves neither the nodes nor what is on them.
LEMMA QuietStep ==
    ASSUME Inv, UNCHANGED <<heard, lis, shadow, shows>>,
           swap' \in [asked : Roles, running : Roles, up : BOOLEAN, performing : BOOLEAN],
           pacer' \in Pacers, Len(pacer'.ring) <= RingCap, snk' \in Sinks, src' \in Srcs,
           snk'.made = snk.made, snk'.stream = snk.stream, snk'.health = snk.health,
           src'.made = src.made, src'.bound = src.bound,
           ReadbackIsSentUndropped'
    PROVE  Inv'
<1>1. Shapes'
  BY DEF Inv, Shapes
<1>2. NodesFit'
  BY DEF Inv, NodesFit
<1>3. UnboundIsPlain'
  BY DEF Inv, UnboundIsPlain
<1>4. OnPlayback'
  BY DEF Inv, OnPlayback
<1>5. OnCapture'
  BY DEF Inv, OnCapture
<1> QED BY <1>1, <1>2, <1>3, <1>4, <1>5 DEF Inv

LEMMA ReadbackStays ==
    ASSUME Inv, pacer'.ring = pacer.ring, pacer'.table = pacer.table,
           snk'.asserted = snk.asserted, drops' = drops
    PROVE  ReadbackIsSentUndropped'
BY DEF Inv, ReadbackIsSentUndropped, ReadbackIsSent, Replays

LEMMA TypesLemma ==
    ASSUME Inv
    PROVE  /\ swap \in [asked : Roles, running : Roles, up : BOOLEAN, performing : BOOLEAN]
           /\ pacer \in Pacers /\ Len(pacer.ring) <= RingCap /\ snk \in Sinks /\ src \in Srcs
BY DEF Inv, Shapes

LEMMA WriteRateStep ==
    ASSUME Inv, WriteRate
    PROVE  Inv'
<1>1. PICK hz \in RateWrites :
         /\ pacer' = [pacer EXCEPT !.refused = RateRefusal(hz)]
         /\ snk' = IF RateRefusal(hz) = "none" /\ hz # pacer.rate
                   THEN [snk EXCEPT !.wantRate = hz] ELSE snk
  BY DEF WriteRate
<1>2. UNCHANGED <<heard, lis, swap, src, shadow, shows, drops>>
  BY DEF WriteRate
<1>3. PICK r : r = RateRefusal(hz)
  OBVIOUS
<1>4. r \in {"none", "malformed", "not-closed", "not-drivable"} /\ (r = "none" => hz \in Drivable)
  BY <1>3 DEF RateRefusal
<1>5. /\ pacer' \in Pacers /\ pacer'.ring = pacer.ring /\ pacer'.table = pacer.table
  BY <1>1, <1>3, <1>4, TypesLemma DEF Pacers
<1>6. /\ snk' \in Sinks /\ snk'.made = snk.made /\ snk'.stream = snk.stream
      /\ snk'.health = snk.health /\ snk'.asserted = snk.asserted
  BY <1>1, <1>3, <1>4, TypesLemma DEF Sinks
<1>7. ReadbackIsSentUndropped'
  BY <1>2, <1>5, <1>6, ReadbackStays
<1> QED BY <1>2, <1>5, <1>6, <1>7, QuietStep, TypesLemma

LEMMA WriteRoleStep ==
    ASSUME Inv, WriteRole
    PROVE  Inv'
<1>1. PICK role \in Roles :
         /\ swap' = [swap EXCEPT !.asked = role]
         /\ snk' = IF ~snk.made THEN snk
                   ELSE [snk EXCEPT !.roleRefused = FALSE,
                                    !.wantRole = IF Owes(role) THEN role ELSE snk.wantRole]
         /\ src' = IF ~snk.made /\ Owes(role) THEN [src EXCEPT !.wantRole = role] ELSE src
  BY DEF WriteRole
<1>2. UNCHANGED <<heard, lis, pacer, shadow, shows, drops>>
  BY DEF WriteRole
<1>3. PICK r : r = IF Owes(role) THEN role ELSE snk.wantRole
  OBVIOUS
<1>4. r \in Roles \cup {NoRole}
  BY <1>3, TypesLemma DEF Sinks
<1>5. swap' \in [asked : Roles, running : Roles, up : BOOLEAN, performing : BOOLEAN]
  BY <1>1, TypesLemma
<1>6. /\ snk' \in Sinks /\ snk'.made = snk.made /\ snk'.stream = snk.stream
      /\ snk'.health = snk.health /\ snk'.asserted = snk.asserted
  <2>1. CASE ~snk.made
    BY <1>1, <2>1, TypesLemma
  <2>2. CASE snk.made
    <3>1. snk' = [snk EXCEPT !.roleRefused = FALSE, !.wantRole = r]
      BY <1>1, <1>3, <2>2
    <3> QED BY <1>4, <3>1, TypesLemma DEF Sinks
  <2> QED BY <2>1, <2>2
<1>7. src' \in Srcs /\ src'.made = src.made /\ src'.bound = src.bound
  BY <1>1, TypesLemma DEF Srcs
<1>8. ReadbackIsSentUndropped'
  BY <1>2, <1>6, ReadbackStays
<1> QED BY <1>2, <1>5, <1>6, <1>7, <1>8, QuietStep, TypesLemma

LEMMA WriteUnreadableRoleStep ==
    ASSUME Inv, WriteUnreadableRole
    PROVE  Inv'
<1>1. /\ snk' = [snk EXCEPT !.roleRefused = TRUE]
      /\ UNCHANGED <<heard, lis, swap, pacer, src, shadow, shows, drops>>
  BY DEF WriteUnreadableRole
<1>2. /\ snk' \in Sinks /\ snk'.made = snk.made /\ snk'.stream = snk.stream
      /\ snk'.health = snk.health /\ snk'.asserted = snk.asserted
  BY <1>1, TypesLemma DEF Sinks
<1>3. ReadbackIsSentUndropped'
  BY <1>1, <1>2, ReadbackStays
<1> QED BY <1>1, <1>2, <1>3, QuietStep, TypesLemma

LEMMA WriteHeadampStep ==
    ASSUME Inv, WriteHeadamp
    PROVE  Inv'
<1>1. UNCHANGED <<heard, lis, swap, src, shadow, shows>>
  BY DEF WriteHeadamp
<1>2. CASE UNCHANGED <<snk, pacer, drops>>
  <2>1. ReadbackIsSentUndropped'
    BY <1>2, ReadbackStays
  <2> QED BY <1>1, <1>2, <2>1, QuietStep, TypesLemma
<1>3. CASE \E a \in HeadampWrites, b \in HeadampWrites \cup {NoWrite} :
              ReadbackTakes(a, b) /\ PacerTakes(a, b)
  <2>1. PICK a \in HeadampWrites, b \in HeadampWrites \cup {NoWrite} :
           ReadbackTakes(a, b) /\ PacerTakes(a, b)
    BY <1>3
  <2>2. /\ pacer \in Pacers /\ snk \in Sinks /\ pacer.ring \in Seq(Commands)
        /\ snk.asserted \in [Cells -> CellVals] /\ Len(pacer.ring) <= RingCap
    BY TypesLemma DEF Pacers, Sinks, Commands
  <2>3. PICK r1 : r1 = RingTakes(pacer.ring, a)
    OBVIOUS
  <2>4. PICK r2 : r2 = RingTakes(r1, b)
    OBVIOUS
  <2>5. PICK a1 : a1 = Asserted(snk.asserted, a)
    OBVIOUS
  <2>6. PICK a2 : a2 = Asserted(a1, b)
    OBVIOUS
  <2>7. PICK h : h = HeadampParse(a, b)
    OBVIOUS
  <2>8. /\ pacer' = [pacer EXCEPT !.ring = r2]
        /\ drops' = (drops \/ (Parses(a) /\ RingFull(pacer.ring)) \/ (Parses(b) /\ RingFull(r1)))
        /\ snk' = [snk EXCEPT !.haRefused = h, !.asserted = a2]
    BY <2>1, <2>3, <2>4, <2>5, <2>6, <2>7 DEF ReadbackTakes, PacerTakes
  <2>9. h \in {"none", "bad-key", "out-of-range"}
    BY <2>7 DEF HeadampParse, WriteRefusal
  <2>10. a \in HeadampWrites \cup {NoWrite}
    OBVIOUS
  <2>11. /\ r1 \in Seq(Commands) /\ Len(r1) <= RingCap /\ a1 \in [Cells -> CellVals]
         /\ ~(Parses(a) /\ RingFull(pacer.ring)) =>
               \A c \in Cells : Plays(pacer.ring, pacer.table, c, snk.asserted[c])
                                => Plays(r1, pacer.table, c, a1[c])
    <3>1. PICK g : g = pacer.ring
      OBVIOUS
    <3>2. PICK t : t = pacer.table
      OBVIOUS
    <3>3. PICK s : s = snk.asserted
      OBVIOUS
    <3>4. /\ g \in Seq(Commands) /\ Len(g) <= RingCap /\ s \in [Cells -> CellVals]
          /\ r1 = RingTakes(g, a) /\ a1 = Asserted(s, a)
      BY <2>2, <2>3, <2>5, <3>1, <3>3
    <3>5. /\ r1 \in Seq(Commands) /\ Len(r1) <= RingCap /\ a1 \in [Cells -> CellVals]
          /\ ~(Parses(a) /\ RingFull(g)) =>
                \A c \in Cells : Plays(g, t, c, s[c]) => Plays(r1, t, c, a1[c])
      BY <2>10, <3>4, TakesLemma
    <3> QED BY <3>1, <3>2, <3>3, <3>5
  <2>12. /\ r2 \in Seq(Commands) /\ Len(r2) <= RingCap /\ a2 \in [Cells -> CellVals]
         /\ ~(Parses(b) /\ RingFull(r1)) =>
               \A c \in Cells : Plays(r1, pacer.table, c, a1[c])
                                => Plays(r2, pacer.table, c, a2[c])
    BY <2>4, <2>6, <2>11, TakesLemma
  <2>13. pacer' \in Pacers /\ pacer'.ring = r2 /\ pacer'.table = pacer.table
    BY <2>2, <2>8, <2>12 DEF Pacers, Commands
  <2>14. /\ snk' \in Sinks /\ snk'.asserted = a2 /\ snk'.made = snk.made
         /\ snk'.stream = snk.stream /\ snk'.health = snk.health
    BY <2>2, <2>8, <2>9, <2>12 DEF Sinks
  <2>15. ReadbackIsSentUndropped'
    <3> SUFFICES ASSUME ~drops', NEW c \in Cells
                 PROVE  Replays(c, snk.asserted[c])'
      BY DEF ReadbackIsSentUndropped, ReadbackIsSent
    <3>1. ~drops /\ ~(Parses(a) /\ RingFull(pacer.ring)) /\ ~(Parses(b) /\ RingFull(r1))
      BY <2>8
    <3>2. Plays(pacer.ring, pacer.table, c, snk.asserted[c])
      BY <3>1 DEF Inv, ReadbackIsSentUndropped, ReadbackIsSent, Replays, Plays
    <3>3. Plays(r2, pacer.table, c, a2[c])
      BY <2>11, <2>12, <3>1, <3>2
    <3> QED BY <2>13, <2>14, <3>3 DEF Replays, Plays
  <2> QED BY <1>1, <2>12, <2>13, <2>14, <2>15, QuietStep, TypesLemma
<1> QED BY <1>2, <1>3 DEF WriteHeadamp

LEMMA PacerDrainStep ==
    ASSUME Inv, PacerDrain
    PROVE  Inv'
<1>1. PICK cell : cell = Head(pacer.ring)
  OBVIOUS
<1>2. PICK t : t = [pacer.table EXCEPT ![cell[1]] = cell[2]]
  OBVIOUS
<1>3. /\ pacer.ring # <<>>
      /\ pacer' = [pacer EXCEPT !.ring = Tail(pacer.ring), !.table = t]
      /\ UNCHANGED <<heard, lis, swap, snk, src, shadow, shows, drops>>
  BY <1>1, <1>2, TypesLemma DEF PacerDrain, Pacers
<1>4. /\ pacer \in Pacers /\ pacer.ring \in Seq(Commands) /\ pacer.table \in [Cells -> CellVals]
      /\ Len(pacer.ring) <= RingCap /\ RingCap \in Nat
  BY TypesLemma, ConstLemma DEF Pacers, Commands
<1>5. /\ t \in [Cells -> CellVals] /\ Tail(pacer.ring) \in Seq(Commands)
      /\ Len(Tail(pacer.ring)) = Len(pacer.ring) - 1
      /\ \A c \in Cells : \A v :
            Plays(pacer.ring, pacer.table, c, v) => Plays(Tail(pacer.ring), t, c, v)
  BY <1>1, <1>2, <1>3, <1>4, DrainLemma
<1>6. pacer' \in Pacers /\ pacer'.ring = Tail(pacer.ring) /\ pacer'.table = t
  BY <1>3, <1>4, <1>5 DEF Pacers, Commands
<1>7. Len(pacer'.ring) <= RingCap
  BY <1>4, <1>5, <1>6
<1>8. ReadbackIsSentUndropped'
  <2> SUFFICES ASSUME ~drops', NEW c \in Cells
               PROVE  Replays(c, snk.asserted[c])'
    BY DEF ReadbackIsSentUndropped, ReadbackIsSent
  <2>1. Plays(pacer.ring, pacer.table, c, snk.asserted[c])
    BY <1>3 DEF Inv, ReadbackIsSentUndropped, ReadbackIsSent, Replays, Plays
  <2>2. Plays(Tail(pacer.ring), t, c, snk.asserted[c])
    BY <1>5, <2>1
  <2> QED BY <1>3, <1>6, <2>2 DEF Replays, Plays
<1> QED BY <1>3, <1>6, <1>7, <1>8, QuietStep, TypesLemma

LEMMA WireMovesStep ==
    ASSUME Inv, WireMoves
    PROVE  Inv'
<1>1. UNCHANGED <<heard, lis, swap, snk, src, shadow, shows, drops>>
  BY DEF WireMoves
<1>2. pacer' \in Pacers /\ pacer'.ring = pacer.ring /\ pacer'.table = pacer.table
  <2>0. pacer \in Pacers
    BY TypesLemma
  <2>1. CASE \E b \in BoxKinds \ {pacer.box} : pacer' = [pacer EXCEPT !.box = b, !.based = FALSE]
    <3>1. PICK b \in BoxKinds : pacer' = [pacer EXCEPT !.box = b, !.based = FALSE]
      BY <2>1
    <3> QED BY <2>0, <3>1 DEF Pacers
  <2>2. CASE pacer' = [pacer EXCEPT !.based = TRUE]
    BY <2>0, <2>2 DEF Pacers
  <2>3. CASE pacer' = [pacer EXCEPT !.disco = @ + 1]
    <3>1. pacer.disco + 1 \in Nat
      BY <2>0 DEF Pacers
    <3>2. pacer' = [pacer EXCEPT !.disco = pacer.disco + 1]
      BY <2>3
    <3> QED BY <2>0, <3>1, <3>2 DEF Pacers
  <2> QED BY <2>1, <2>2, <2>3 DEF WireMoves
<1>3. ReadbackIsSentUndropped'
  BY <1>1, <1>2, ReadbackStays
<1> QED BY <1>1, <1>2, <1>3, QuietStep, TypesLemma

LEMMA EngineMovesStep ==
    ASSUME Inv, EngineMoves
    PROVE  Inv'
<1>1. UNCHANGED <<heard, lis, snk, src, shadow, shows, drops>>
  BY DEF EngineMoves
<1>2. /\ pacer' \in Pacers /\ pacer'.ring = pacer.ring /\ pacer'.table = pacer.table
      /\ swap' \in [asked : Roles, running : Roles, up : BOOLEAN, performing : BOOLEAN]
  <2>1. CASE swap' = [swap EXCEPT !.performing = ~@] /\ UNCHANGED pacer
    BY <2>1, TypesLemma
  <2>2. CASE pacer' = [pacer EXCEPT !.depth = 1 - @] /\ UNCHANGED swap
    <3>1. pacer.depth \in 0..1 /\ 1 - pacer.depth \in 0..1
      BY TypesLemma DEF Pacers
    <3> QED BY <2>2, <3>1, TypesLemma DEF Pacers
  <2> QED BY <2>1, <2>2 DEF EngineMoves
<1>3. ReadbackIsSentUndropped'
  BY <1>1, <1>2, ReadbackStays
<1> QED BY <1>1, <1>2, <1>3, QuietStep, TypesLemma
-----------------------------------------------------------------------------
(* The actions that publish.                                               *)

LEMMA KeysLemma ==
    /\ Keys \subseteq Shown /\ "health" \in Shown /\ "health" \notin Keys
    /\ "snk" \in Nodes /\ "src" \in Nodes
BY DEF Keys, Shown, Nodes

\* What is published goes to the node and to the shadow at once, and the rest stays.
LEMMA PublishLemma ==
    ASSUME NEW on \in Nodes, NEW sh, NEW shown, Tables(shown), Publish(on, sh, shown)
    PROVE  /\ shadow' = [k \in Shown |-> shadow'[k]] /\ Tables(shows')
           /\ \A n \in Nodes : n # on => shows'[n] = shown[n]
           /\ shows'[on]["health"] = shown[on]["health"]
           /\ \A k \in Keys : (sh[k] # Unsaid => shown[on][k] = sh[k])
                              => (shadow'[k] # Unsaid => shows'[on][k] = shadow'[k])
<1> DEFINE M(k) == k \in Keys /\ Stale(k, on, sh)
           row  == [k \in Shown |-> IF M(k) THEN Truth(k) ELSE shown[on][k]]
<1>1. /\ shadow' = [k \in Shown |-> IF M(k) THEN Truth(k) ELSE sh[k]]
      /\ shows' = [shown EXCEPT ![on] = row]
  BY DEF Publish
<1>2. shown = [n \in Nodes |-> shown[n]] /\ \A n \in Nodes : shown[n] = [k \in Shown |-> shown[n][k]]
  BY DEF Tables
<1>3. /\ row = [k \in Shown |-> row[k]] /\ row["health"] = shown[on]["health"]
      /\ \A k \in Keys : row[k] = IF M(k) THEN Truth(k) ELSE shown[on][k]
  BY KeysLemma
<1>4. /\ shadow' = [k \in Shown |-> shadow'[k]]
      /\ \A k \in Keys : shadow'[k] = IF M(k) THEN Truth(k) ELSE sh[k]
  BY <1>1, KeysLemma
<1> HIDE DEF M, row
<1>5. /\ shows' = [n \in Nodes |-> shows'[n]] /\ shows'[on] = row
      /\ \A n \in Nodes : n # on => shows'[n] = shown[n]
  BY <1>1, <1>2
<1>6. Tables(shows')
  BY <1>2, <1>3, <1>5 DEF Tables
<1>7. ASSUME NEW k \in Keys, sh[k] # Unsaid => shown[on][k] = sh[k], shadow'[k] # Unsaid
      PROVE  shows'[on][k] = shadow'[k]
  <2>1. CASE M(k)
    BY <1>3, <1>4, <1>5, <2>1
  <2>2. CASE ~M(k)
    BY <1>3, <1>4, <1>5, <1>7, <2>2
  <2> QED BY <2>1, <2>2
<1> QED BY <1>3, <1>4, <1>5, <1>6, <1>7

\* The health figures of a window are put on the door of this moment.
LEMMA HealthLemma ==
    ASSUME NEW on \in Nodes, on = Door, NEW figure, Tables(shows), HasDoor,
           NEW t, t = Health(figure)
    PROVE  /\ Tables(t) /\ \A n \in Nodes : n # on => t[n] = shows[n]
           /\ \A k \in Keys : t[on][k] = shows[on][k]
           /\ t[on]["health"] = IF figure # snk.health THEN figure ELSE shows[on]["health"]
<1>1. PICK g : g = IF figure # snk.health THEN figure ELSE shows[on]["health"]
  OBVIOUS
<1>2. PICK row : row = [shows[on] EXCEPT !["health"] = g]
  OBVIOUS
<1>3. t = [shows EXCEPT ![on] = row]
  BY <1>1, <1>2 DEF Health
<1>4. shows = [n \in Nodes |-> shows[n]] /\ \A n \in Nodes : shows[n] = [k \in Shown |-> shows[n][k]]
  BY DEF Tables
<1>5. /\ row = [k \in Shown |-> row[k]] /\ row["health"] = g
      /\ \A k \in Keys : row[k] = shows[on][k]
  BY <1>2, <1>4, KeysLemma
<1>6. t = [n \in Nodes |-> t[n]] /\ t[on] = row /\ \A n \in Nodes : n # on => t[n] = shows[n]
  BY <1>3, <1>4
<1>7. Tables(t)
  BY <1>4, <1>5, <1>6 DEF Tables
<1> QED BY <1>1, <1>5, <1>6, <1>7

LEMMA LogTimerStep ==
    ASSUME Inv, LogTimer
    PROVE  Inv'
<1>1. PICK figure \in {snk.health} \cup (0..1) :
         /\ snk' = [snk EXCEPT !.health = figure]
         /\ IF HasDoor
            THEN Publish(Door, IF CaptureIsDoor /\ ~src.bound THEN ShadowsReset ELSE shadow,
                         Health(figure))
            ELSE UNCHANGED <<shadow, shows>>
  BY DEF LogTimer
<1>2. /\ snk.made /\ src' = [src EXCEPT !.bound = @ \/ CaptureIsDoor]
      /\ UNCHANGED <<heard, lis, swap, pacer, drops>>
  BY DEF LogTimer
<1>3. /\ snk \in Sinks /\ src \in Srcs /\ Tables(shows) /\ shadow = [k \in Shown |-> shadow[k]]
  BY DEF Inv, Shapes, Tables
<1>4. figure \in Figures
  BY <1>3 DEF Sinks, Figures
<1>5. /\ snk' \in Sinks /\ snk'.made = snk.made /\ snk'.stream = snk.stream
      /\ snk'.health = figure /\ snk'.asserted = snk.asserted
  BY <1>1, <1>3, <1>4 DEF Sinks
<1>6. PICK b \in BOOLEAN : b = (src.bound \/ CaptureIsDoor)
  OBVIOUS
<1>7. src' \in Srcs /\ src'.made = src.made /\ src'.bound = b
  BY <1>2, <1>3, <1>6 DEF Srcs
<1>8. /\ snk.stream => ~src.bound /\ ~CaptureIsDoor
      /\ src.bound => src.made
      /\ ~snk.stream /\ src.made => CaptureIsDoor
      /\ CaptureIsDoor => src.made /\ ~snk.stream
  BY <1>2 DEF Inv, NodesFit, CaptureIsDoor
<1>9. NodesFit'
  BY <1>2, <1>5, <1>6, <1>7, <1>8 DEF Inv, NodesFit
<1>10. ReadbackIsSentUndropped'
  BY <1>2, <1>5, ReadbackStays
<1>11. ASSUME shadow' = [k \in Shown |-> shadow'[k]], Tables(shows')
       PROVE  Shapes'
  BY <1>2, <1>5, <1>7, <1>11 DEF Inv, Shapes, Tables
<1>12. CASE ~HasDoor
  <2>1. ~snk.stream /\ ~src.made /\ UNCHANGED <<shadow, shows>>
    BY <1>1, <1>2, <1>12 DEF HasDoor
  <2>2. ~src.bound /\ ~b
    BY <1>6, <1>8, <2>1
  <2>3. UnboundIsPlain' /\ OnPlayback' /\ OnCapture'
    BY <1>2, <1>5, <1>7, <2>1, <2>2 DEF Inv, UnboundIsPlain, OnPlayback, OnCapture
  <2>4. Shapes'
    BY <1>3, <1>11, <2>1 DEF Tables
  <2> QED BY <1>9, <1>10, <2>3, <2>4 DEF Inv
<1>13. CASE HasDoor
  <2>1. PICK on : on = Door
    OBVIOUS
  <2>2. PICK sh : sh = IF CaptureIsDoor /\ ~src.bound THEN ShadowsReset ELSE shadow
    OBVIOUS
  <2>3. PICK t : t = Health(figure)
    OBVIOUS
  <2>4. on \in Nodes /\ Publish(on, sh, t)
    BY <1>1, <1>13, <2>1, <2>2, <2>3 DEF Door, Nodes
  <2>5. /\ Tables(t) /\ \A n \in Nodes : n # on => t[n] = shows[n]
        /\ \A k \in Keys : t[on][k] = shows[on][k]
        /\ t[on]["health"] = IF figure # snk.health THEN figure ELSE shows[on]["health"]
    BY <1>3, <1>13, <2>1, <2>3, <2>4, HealthLemma
  <2>6. /\ shadow' = [k \in Shown |-> shadow'[k]] /\ Tables(shows')
        /\ \A n \in Nodes : n # on => shows'[n] = t[n]
        /\ shows'[on]["health"] = t[on]["health"]
        /\ \A k \in Keys : (sh[k] # Unsaid => t[on][k] = sh[k])
                           => (shadow'[k] # Unsaid => shows'[on][k] = shadow'[k])
    BY <2>4, <2>5, PublishLemma
  <2>7. shows[on]["health"] \in {Unsaid, snk.health} => shows'[on]["health"] \in {Unsaid, figure}
    BY <2>5, <2>6
  <2>8. CASE snk.stream
    <3>1. on = "snk" /\ sh = shadow /\ ~src.bound /\ ~b
      BY <1>2, <1>6, <1>8, <2>1, <2>2, <2>8 DEF Door
    <3>2. OnPlayback'
      <4>1. /\ \A k \in Keys : shadow[k] # Unsaid => shows["snk"][k] = shadow[k]
            /\ shows["snk"]["health"] \in {Unsaid, snk.health}
        BY <2>8 DEF Inv, OnPlayback
      <4>2. \A k \in Keys : shadow'[k] # Unsaid => shows'["snk"][k] = shadow'[k]
        BY <2>5, <2>6, <3>1, <4>1
      <4> QED BY <1>5, <2>7, <3>1, <4>1, <4>2 DEF OnPlayback
    <3>3. shows'["src"] = shows["src"]
      BY <2>5, <2>6, <3>1, KeysLemma
    <3>4. UnboundIsPlain' /\ OnCapture'
      BY <1>2, <1>5, <1>7, <3>1, <3>3 DEF Inv, UnboundIsPlain, OnCapture
    <3> QED BY <1>9, <1>10, <1>11, <2>6, <3>2, <3>4 DEF Inv
  <2>9. CASE ~snk.stream
    <3>1. on = "src" /\ src.made /\ CaptureIsDoor /\ b
      BY <1>2, <1>6, <1>8, <1>13, <2>1, <2>9 DEF Door, HasDoor
    <3>2. shows["src"]["health"] \in {Unsaid, snk.health}
      <4>1. CASE src.bound
        BY <4>1 DEF Inv, OnCapture
      <4>2. CASE ~src.bound
        BY <1>2, <4>2 DEF Inv, UnboundIsPlain
      <4> QED BY <4>1, <4>2
    <3>3. \A k \in Keys \ {"latency"} : sh[k] # Unsaid => shows["src"][k] = sh[k]
      <4>1. CASE src.bound
        <5>1. sh = shadow
          BY <2>2, <4>1
        <5> QED BY <4>1, <5>1 DEF Inv, OnCapture
      <4>2. CASE ~src.bound
        <5>1. sh = ShadowsReset
          BY <2>2, <3>1, <4>2
        <5>2. \A k \in Keys \ {"latency"} : sh[k] = Unsaid
          BY <5>1, KeysLemma, UnsetLemma DEF ShadowsReset
        <5> QED BY <5>2
      <4> QED BY <4>1, <4>2
    <3>4. \A k \in Keys \ {"latency"} : shadow'[k] # Unsaid => shows'["src"][k] = shadow'[k]
      BY <2>5, <2>6, <3>1, <3>3
    <3>5. OnCapture' /\ OnPlayback' /\ UnboundIsPlain'
      BY <1>5, <1>7, <2>7, <2>9, <3>1, <3>2, <3>4 DEF OnCapture, OnPlayback, UnboundIsPlain
    <3> QED BY <1>9, <1>10, <1>11, <2>6, <3>5 DEF Inv
  <2> QED BY <2>8, <2>9
<1> QED BY <1>12, <1>13
\* The tables after a node was replaced: nothing on reac-playback, and on a reac-capture
\* that is not bound no health figures.
LEMMA ReplacedLemma ==
    ASSUME Inv, snk.made, NEW s \in Srcs, s = src \/ ~s.bound,
           NEW t, t = [shows EXCEPT !["snk"] = Blank, !["src"] = IF s = src THEN @ ELSE Blank]
    PROVE  /\ Tables(t) /\ t["snk"] = Blank /\ (~s.bound => t["src"]["health"] = Unsaid)
<1>1. PICK r : r = IF s = src THEN shows["src"] ELSE Blank
  OBVIOUS
<1>2. /\ shows = [n \in Nodes |-> shows[n]]
      /\ \A n \in Nodes : shows[n] = [k \in Shown |-> shows[n][k]]
  BY DEF Inv, Shapes
<1>3. t = [shows EXCEPT !["snk"] = Blank, !["src"] = r]
  BY <1>1, <1>2, KeysLemma
<1>4. t = [n \in Nodes |-> t[n]] /\ t["snk"] = Blank /\ t["src"] = r
  BY <1>2, <1>3 DEF Nodes
<1>5. r = [k \in Shown |-> r[k]]
  BY <1>1, <1>2, UnsetLemma, KeysLemma
<1>6. Tables(t)
  BY <1>4, <1>5, UnsetLemma DEF Tables, Nodes
<1>7. ~s.bound => r["health"] = Unsaid
  BY <1>1, UnsetLemma, KeysLemma DEF Inv, UnboundIsPlain
<1> QED BY <1>4, <1>6, <1>7

LEMMA NoPlaybackStep ==
    ASSUME Inv, snk.made, NEW s \in Srcs, ~s.bound, NEW sh, sh = [k \in Shown |-> sh[k]],
           NoPlayback(s, sh), UNCHANGED <<heard, lis, swap, pacer, drops>>
    PROVE  Inv'
<1>1. /\ snk' = [snk EXCEPT !.stream = FALSE, !.of = pacer.box]
      /\ src' = s /\ shadow' = sh
      /\ shows' = [shows EXCEPT !["snk"] = Blank, !["src"] = IF s = src THEN @ ELSE Blank]
  BY DEF NoPlayback
<1>2. snk \in Sinks /\ pacer.box \in BoxKinds
  BY TypesLemma DEF Pacers
<1>3. /\ snk' \in Sinks /\ snk'.made = snk.made /\ ~snk'.stream /\ snk'.asserted = snk.asserted
  BY <1>1, <1>2 DEF Sinks
<1>4. Tables(shows') /\ shows'["src"]["health"] = Unsaid
  BY <1>1, ReplacedLemma
<1>5. Shapes'
  BY <1>1, <1>3, <1>4 DEF Inv, Shapes, Tables
<1>6. NodesFit' /\ UnboundIsPlain' /\ OnPlayback' /\ OnCapture'
  BY <1>1, <1>3, <1>4 DEF Inv, NodesFit, UnboundIsPlain, OnPlayback, OnCapture
<1>7. ReadbackIsSentUndropped'
  BY <1>3, ReadbackStays
<1> QED BY <1>5, <1>6, <1>7 DEF Inv

LEMMA PlaybackOpensStep ==
    ASSUME Inv, snk.made, NEW s \in Srcs, s = src \/ ~s.bound,
           PlaybackOpens(s), UNCHANGED <<heard, lis, swap, pacer, drops>>
    PROVE  Inv'
<1>1. PICK t : t = [shows EXCEPT !["snk"] = Blank, !["src"] = IF s = src THEN @ ELSE Blank]
  OBVIOUS
<1>2. PICK u : u = Unbound(s, t)
  OBVIOUS
<1>3. /\ snk' = [snk EXCEPT !.stream = TRUE, !.of = pacer.box]
      /\ src' = [s EXCEPT !.bound = FALSE]
      /\ Publish("snk", Blank, u)
  BY <1>1, <1>2 DEF PlaybackOpens
<1>4. snk \in Sinks /\ pacer.box \in BoxKinds
  BY TypesLemma DEF Pacers
<1>5. /\ snk' \in Sinks /\ snk'.made = snk.made /\ snk'.asserted = snk.asserted
  BY <1>3, <1>4 DEF Sinks
<1>6. src' \in Srcs /\ ~src'.bound
  BY <1>3 DEF Srcs
<1>7. /\ Tables(t) /\ t["snk"] = Blank /\ (~s.bound => t["src"]["health"] = Unsaid)
  BY <1>1, ReplacedLemma
<1>8. Tables(u) /\ u["snk"] = Blank /\ u["src"]["health"] = Unsaid
  <2>1. PICK r : r = IF s.bound THEN Blank ELSE t["src"]
    OBVIOUS
  <2>2. u = [t EXCEPT !["src"] = r]
    BY <1>2, <2>1 DEF Unbound
  <2>3. t = [n \in Nodes |-> t[n]] /\ \A n \in Nodes : t[n] = [k \in Shown |-> t[n][k]]
    BY <1>7 DEF Tables
  <2>4. r = [k \in Shown |-> r[k]] /\ r["health"] = Unsaid
    BY <1>7, <2>1, <2>3, UnsetLemma, KeysLemma
  <2>5. u = [n \in Nodes |-> u[n]] /\ u["src"] = r /\ u["snk"] = t["snk"]
    BY <2>2, <2>3 DEF Nodes
  <2>6. Tables(u)
    BY <1>7, <2>3, <2>4, <2>5 DEF Tables, Nodes
  <2> QED BY <1>7, <2>4, <2>5, <2>6
<1>9. /\ shadow' = [k \in Shown |-> shadow'[k]] /\ Tables(shows')
      /\ \A n \in Nodes : n # "snk" => shows'[n] = u[n]
      /\ shows'["snk"]["health"] = u["snk"]["health"]
      /\ \A k \in Keys : (Blank[k] # Unsaid => u["snk"][k] = Blank[k])
                         => (shadow'[k] # Unsaid => shows'["snk"][k] = shadow'[k])
  BY <1>3, <1>8, KeysLemma, PublishLemma
<1>10. /\ shows'["src"]["health"] = Unsaid /\ shows'["snk"]["health"] = Unsaid
       /\ \A k \in Keys : shadow'[k] # Unsaid => shows'["snk"][k] = shadow'[k]
  BY <1>8, <1>9, KeysLemma, UnsetLemma
<1>11. Shapes'
  BY <1>5, <1>6, <1>9 DEF Inv, Shapes, Tables
<1>12. NodesFit' /\ UnboundIsPlain' /\ OnPlayback' /\ OnCapture'
  BY <1>5, <1>6, <1>10 DEF Inv, NodesFit, UnboundIsPlain, OnPlayback, OnCapture
<1>13. ReadbackIsSentUndropped'
  BY <1>5, ReadbackStays
<1> QED BY <1>11, <1>12, <1>13 DEF Inv

LEMMA AutodetectTimerStep ==
    ASSUME Inv, AutodetectTimer
    PROVE  Inv'
<1>1. snk.made /\ UNCHANGED <<heard, lis, swap, pacer, drops>>
  BY DEF AutodetectTimer
<1>2. shadow = [k \in Shown |-> shadow[k]] /\ Blank = [k \in Shown |-> Blank[k]]
  BY UnsetLemma DEF Inv, Shapes
<1>3. CASE NoPlayback(NoSrc, shadow) \/ NoPlayback(NewSrc, shadow) \/ NoPlayback(NewSrc, Blank)
  BY <1>1, <1>2, <1>3, SrcLemma, NoPlaybackStep
<1>4. CASE PlaybackOpens(NewSrc)
  BY <1>1, <1>4, SrcLemma, PlaybackOpensStep
<1> QED BY <1>3, <1>4 DEF AutodetectTimer

LEMMA RecoverPlaybackStep ==
    ASSUME Inv, RecoverPlayback
    PROVE  Inv'
<1>1. snk.made /\ UNCHANGED <<heard, lis, swap, pacer, drops>> /\ src \in Srcs
  BY TypesLemma DEF RecoverPlayback
<1>2. Blank = [k \in Shown |-> Blank[k]]
  BY UnsetLemma
<1>3. CASE PlaybackOpens(src)
  BY <1>1, <1>3, PlaybackOpensStep
<1>4. CASE snk.stream /\ NoPlayback(src, Blank)
  <2>1. ~src.bound
    BY <1>4 DEF Inv, NodesFit
  <2> QED BY <1>1, <1>2, <1>4, <2>1, NoPlaybackStep
<1> QED BY <1>3, <1>4 DEF RecoverPlayback

LEMMA RecoverCaptureStep ==
    ASSUME Inv, RecoverCapture
    PROVE  Inv'
<1>1. /\ src' = NewSrc /\ shows' = [shows EXCEPT !["src"] = Blank]
      /\ UNCHANGED <<heard, lis, swap, pacer, snk, shadow, drops>>
  BY DEF RecoverCapture
<1>2. /\ shows = [n \in Nodes |-> shows[n]]
      /\ \A n \in Nodes : shows[n] = [k \in Shown |-> shows[n][k]]
  BY DEF Inv, Shapes
<1>3. shows' = [n \in Nodes |-> shows'[n]] /\ shows'["src"] = Blank /\ shows'["snk"] = shows["snk"]
  BY <1>1, <1>2 DEF Nodes
<1>4. \A n \in Nodes : shows'[n] = [k \in Shown |-> shows'[n][k]]
  BY <1>2, <1>3, UnsetLemma DEF Nodes
<1>5. shows'["src"]["health"] = Unsaid /\ src' \in Srcs /\ ~src'.bound
  BY <1>1, <1>3, UnsetLemma, KeysLemma, SrcLemma
<1>6. Shapes'
  BY <1>1, <1>3, <1>4, <1>5 DEF Inv, Shapes
<1>7. NodesFit' /\ UnboundIsPlain' /\ OnPlayback' /\ OnCapture'
  BY <1>1, <1>3, <1>5 DEF Inv, NodesFit, UnboundIsPlain, OnPlayback, OnCapture
<1>8. ReadbackIsSentUndropped'
  BY <1>1, ReadbackStays
<1> QED BY <1>6, <1>7, <1>8 DEF Inv

LEMMA StutterStep ==
    ASSUME Inv, UNCHANGED vars
    PROVE  Inv'
<1>1. UNCHANGED <<heard, lis, swap, pacer, snk, src, shadow, shows, drops>>
  BY DEF vars
<1>2. ReadbackIsSentUndropped'
  BY <1>1, ReadbackStays
<1> QED BY <1>1, <1>2, QuietStep, TypesLemma

LEMMA NextInv == Inv /\ [Next]_vars => Inv'
<1> SUFFICES ASSUME Inv, [Next]_vars PROVE Inv'
  OBVIOUS
<1>1. CASE Poll
  BY <1>1, PollStep
<1>2. CASE LogTimer
  BY <1>2, LogTimerStep
<1>3. CASE AutodetectTimer
  BY <1>3, AutodetectTimerStep
<1>4. CASE RecoverPlayback
  BY <1>4, RecoverPlaybackStep
<1>5. CASE RecoverCapture
  BY <1>5, RecoverCaptureStep
<1>6. CASE HearingServe
  BY <1>6, HearingServeStep
<1>7. CASE WriteRate
  BY <1>7, WriteRateStep
<1>8. CASE WriteRole
  BY <1>8, WriteRoleStep
<1>9. CASE WriteUnreadableRole
  BY <1>9, WriteUnreadableRoleStep
<1>10. CASE WriteHeadamp
  BY <1>10, WriteHeadampStep
<1>11. CASE PacerDrain
  BY <1>11, PacerDrainStep
<1>12. CASE WireMoves
  BY <1>12, WireMovesStep
<1>13. CASE EngineMoves
  BY <1>13, EngineMovesStep
<1>14. CASE UNCHANGED vars
  BY <1>14, StutterStep
<1> QED BY <1>1, <1>2, <1>3, <1>4, <1>5, <1>6, <1>7, <1>8, <1>9, <1>10, <1>11, <1>12, <1>13,
           <1>14 DEF Next

LEMMA Invariance == Spec => []Inv
BY InitInv, NextInv, PTL DEF Spec

-----------------------------------------------------------------------------
(* The theorems.                                                           *)

\* TypeOK: the variables keep their types; the command ring never holds more than its cap
\* (reac_pacer_headamp_set), and a rate that waits is one that can be driven.
THEOREM TypeCorrect == Spec => []TypeOK
<1>1. Inv => TypeOK
  <2> SUFFICES ASSUME Inv PROVE TypeOK
    OBVIOUS
  <2>1. pacer \in Pacers /\ Len(pacer.ring) <= RingCap /\ snk \in Sinks /\ src \in Srcs
    BY TypesLemma
  <2>2. /\ pacer.rate \in Rates \cup {NoRate} /\ pacer.box \in BoxKinds
        /\ pacer.ring \in Seq(Cells \X (0..1)) /\ pacer.table \in [Cells -> CellVals]
        /\ pacer.depth \in 0..1
    BY <2>1 DEF Pacers
  <2>3. /\ snk.health \in Figures /\ snk.asserted \in [Cells -> CellVals]
        /\ snk.wantRate \in Drivable \cup {NoRate} /\ snk.wantRole \in Roles \cup {NoRole}
    BY <2>1 DEF Sinks
  <2>4. src.wantRole \in Roles \cup {NoRole}
    BY <2>1 DEF Srcs
  <2>5. /\ heard \in BOOLEAN /\ lis \in [open : BOOLEAN, role : Roles, rate : Rates]
        /\ swap \in [asked : Roles, running : Roles, up : BOOLEAN, performing : BOOLEAN]
    BY DEF Inv, Shapes
  <2>6. /\ snk.made <=> (lis.open /\ lis.role = "master")
        /\ snk.stream => snk.made
        /\ src.bound => src.made
    BY DEF Inv, NodesFit
  <2> QED BY <2>1, <2>2, <2>3, <2>4, <2>5, <2>6 DEF TypeOK
<1> QED BY <1>1, Invariance, PTL

\* ShadowIsShown: through every move of the door and every rebuild of a node, what the sink
\* takes to be published is on the node that is the door now (sink_door_shadows_reset,
\* reac_source_node_set_door, sink_publish_health).
THEOREM ShadowsDoNotLie == Spec => []ShadowIsShown
<1>1. Inv => ShadowIsShown
  <2> SUFFICES ASSUME Inv, snk.made, HasDoor, Door = "src" => src.bound
               PROVE  /\ \A k \in Keys : (k = "latency" => Latent(Door)) /\ shadow[k] # Unsaid
                                         => shows[Door][k] = shadow[k]
                      /\ shows[Door]["health"] \in {Unsaid, snk.health}
    BY DEF ShadowIsShown
  <2>1. CASE snk.stream
    <3>1. Door = "snk"
      BY <2>1 DEF Door
    <3> QED BY <2>1, <3>1 DEF Inv, OnPlayback
  <2>2. CASE ~snk.stream
    <3>1. Door = "src"
      BY <2>2 DEF Door
    <3>2. src.bound /\ ~Latent(Door)
      BY <3>1 DEF Latent
    <3> QED BY <3>1, <3>2 DEF Inv, OnCapture
  <2> QED BY <2>1, <2>2
<1> QED BY <1>1, Invariance, PTL

\* ReadbackIsSentUndropped: as long as the command ring has dropped nothing, what a head-amp
\* cell reads back is what the pacer has applied or will (sink_door_assert).
THEOREM ReadbackWasSent == Spec => []ReadbackIsSentUndropped
<1>1. Inv => ReadbackIsSentUndropped
  BY DEF Inv
<1> QED BY <1>1, Invariance, PTL
=============================================================================
