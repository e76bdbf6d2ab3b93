-------------------------------- MODULE Roster --------------------------------
(***************************************************************************)
(* The roster: every wire the daemon knows, as properties of one PipeWire  *)
(* node (main.c's roster tick, reac_roster.c, reac_roster_node.c).         *)
(*                                                                         *)
(* Every 500 ms the rows are derived afresh from the conf, the listeners   *)
(* and the sniffers, compared with what was published, and only the        *)
(* difference is sent.  The server merges what it is sent into what it     *)
(* has: it cannot be told to drop a property, and it may go away with all  *)
(* of them between two ticks.  What a console reads is the server's copy,  *)
(* which the daemon never sees.                                            *)
(*                                                                         *)
(* Interface names are numbers, whose order is the byte order of the names.*)
(* A row keeps its name and its state; model, role, source, width and      *)
(* status travel the same way.                                             *)
(***************************************************************************)
EXTENDS Naturals, Sequences, SequencesExt

CONSTANTS
    N,          \* the number of interfaces
    RosterMax,  \* REAC_ROSTER_MAX
    RetryTicks, \* ticks between two tries at a node that could not be built
    Deaths,     \* bound: how often the PipeWire server goes away
    Moves       \* bound: how often a wire or the conf changes

ASSUME RosterAssumption ==
    /\ {N, RosterMax, Deaths, Moves} \subseteq Nat
    /\ RetryTicks \in Nat \ {0}

Names == 1..N

VARIABLES
    ignored,        \* the segments the conf switches off
    lis, sn,        \* the listener and the sniffer of each interface
    pub,            \* what was published, as the daemon remembers it
    node,           \* the daemon's node: none, up, deaf (its server is gone) or lost
    ticks,          \* ticks since the last try at a node
    server,         \* is there a PipeWire server
    shown,          \* the server's copy of the node's properties
    deaths, moves   \* how often the server went away, how often a wire or the conf changed

wires == <<ignored, lis, sn, moves>>
graph == <<node, server, shown, deaths>>
vars  == <<wires, pub, ticks, graph>>

-----------------------------------------------------------------------------
(* The state.                                                              *)

\* What is open on a wire.
Kinds == {"none", "tap", "refused", "vacant", "vacant_slave", "slave", "master", "established"}
Hears == {"none", "LISTENING", "KNOCKING", "ANSWERED", "TRUNK"}

States == {"PROBING", "ESTABLISHED", "SLAVE", "TAP", "REFUSED", "IGNORED", "LISTENING",
           "KNOCKING", "TRUNK"}

RosterRows == [name : Names, state : States]
Nothing    == [name |-> 0, state |-> "none"]

\* The lists of struct reac_roster: at most RosterMax rows, in the order of their names.
Rosters ==
    {w \in Seq(RosterRows) :
        /\ Len(w) <= RosterMax
        /\ \A j, k \in 1..Len(w) : j < k => w[j].name < w[k].name}

\* The count the server holds, and its groups: one that was never set holds nothing.
Blank == [n |-> 0, row |-> [k \in 1..RosterMax |-> Nothing]]

TypeOK ==
    /\ ignored \subseteq Names
    /\ lis \in [Names -> Kinds] /\ sn \in [Names -> Hears]
    /\ pub \in Rosters
    /\ node \in {"none", "up", "deaf", "lost"}
    /\ ticks \in 0..(RetryTicks - 1)
    /\ server \in BOOLEAN
    /\ shown \in [n : 0..RosterMax, row : [1..RosterMax -> RosterRows \cup {Nothing}]]
    /\ deaths \in 0..Deaths /\ moves \in 0..Moves

\* The first tick comes half a second after the start: some wires may be served by then.
Init ==
    /\ ignored \in SUBSET Names
    /\ lis \in [Names -> {"none", "master"}] /\ \A i \in ignored : lis[i] = "none"
    /\ sn = [i \in Names |-> "none"]
    /\ pub = <<>> /\ node = "none" /\ ticks = 0
    /\ server \in BOOLEAN /\ shown = Blank
    /\ deaths = 0 /\ moves = 0

-----------------------------------------------------------------------------
(* roster_collect.                                                         *)

\* roster_add_listener: the state a listener's own configuration and engine give.  A door
\* that nobody masters has a role and no engine, and falls through to the role's state.
ListenerState(i) ==
    [tap |-> "TAP", refused |-> "REFUSED", slave |-> "SLAVE", vacant |-> "PROBING",
     vacant_slave |-> "SLAVE", master |-> "PROBING", established |-> "ESTABLISHED"][lis[i]]

\* A wire that is only listened to, by what its knock is doing.
SnifferState(i) ==
    [LISTENING |-> "LISTENING", ANSWERED |-> "LISTENING", KNOCKING |-> "KNOCKING",
     TRUNK |-> "TRUNK"][sn[i]]

Row(i, state) == [name |-> i, state |-> state]

\* reac_roster_add: in the order of the names, never twice, and within the bound.
RosterAdd(want, r) ==
    IF Len(want) >= RosterMax \/ \E k \in 1..Len(want) : want[k].name = r.name
    THEN want
    ELSE LET at == CHOOSE p \in 1..(Len(want) + 1) :
                      /\ p > 1 => want[p - 1].name < r.name
                      /\ p <= Len(want) => r.name < want[p].name
         IN  InsertAt(want, at, r)

\* The tables it walks after the conf's ignored segments: the open listeners, and the
\* sniffers of wires that have none.
Opened   == {i \in Names : lis[i] # "none"}
Listened == {i \in Names : sn[i] # "none" /\ i \notin Opened}

\* The state of the row that the first table to hold a wire gives it: a segment the conf
\* switches off while it is served reads IGNORED.
WireState(i) ==
    IF i \in ignored THEN "IGNORED"
    ELSE IF lis[i] # "none" THEN ListenerState(i) ELSE SnifferState(i)

\* The rows of one table, added one after the other, the last name first: the tables are
\* in no order of names.
AddAll(want, ifaces) ==
    LET walk[i \in 0..N] ==
            [list \in Rosters |->
                IF i = 0 THEN list
                ELSE walk[i - 1][IF i \in ifaces THEN RosterAdd(list, Row(i, WireState(i)))
                                 ELSE list]]
    IN  walk[N][want]

\* roster_collect: begin, then one add per entry, table by table.
Collected == AddAll(AddAll(AddAll(<<>>, ignored), Opened), Listened)

-----------------------------------------------------------------------------
(* The delta, and the server that merges it.                               *)

\* reac_roster_delta, as the server applies it: only the fields that differ from what was
\* published are set.
Merged(had, want) ==
    [n   |-> IF Len(want) # Len(pub) THEN Len(want) ELSE had.n,
     row |-> [k \in 1..RosterMax |->
                IF k > Len(want) THEN had.row[k]
                ELSE IF k > Len(pub) THEN want[k]
                ELSE [name  |-> IF want[k].name # pub[k].name THEN want[k].name
                                ELSE had.row[k].name,
                      state |-> IF want[k].state # pub[k].state THEN want[k].state
                                ELSE had.row[k].state]]]

\* The whole roster as a server that had nothing holds it.
Shows(want) ==
    [n |-> Len(want),
     row |-> [k \in 1..RosterMax |-> IF k <= Len(want) THEN want[k] ELSE Nothing]]

-----------------------------------------------------------------------------
(* on_roster_timer.                                                        *)

\* The node is not on the graph: it is destroyed and what it carried is forgotten.  One
\* that is missing is tried for every RetryTicks ticks.
TickWithoutNode ==
    /\ node \in {"none", "lost"}
    /\ ticks' = (ticks + 1) % RetryTicks
    /\ \/ /\ ticks = 0 /\ server
          /\ node' = "up"
          /\ pub' = Collected
          /\ shown' = Shows(pub')
       \/ /\ ticks # 0 \/ ~server
          /\ node' = "none"
          /\ pub' = <<>>
          /\ UNCHANGED shown
    /\ UNCHANGED <<wires, server, deaths>>

Shrank(want) == Len(want) < Len(pub)

\* Mutant of Rebuilt: the node stays, and is sent what moved.
RebuiltInPlace(want) ==
    /\ pub' = want
    /\ shown' = IF node = "up" THEN Merged(shown, want) ELSE shown
    /\ UNCHANGED node

\* A segment left: the node is destroyed and built again, and the whole roster goes onto
\* the fresh one.
Rebuilt(want) ==
    \/ /\ server
       /\ node' = "up" /\ pub' = want /\ shown' = Shows(want)
    \/ /\ ~server
       /\ node' = "none" /\ pub' = <<>> /\ shown' = Blank

\* What moved is published and committed; a server that is gone takes it unheard.
Published(want) ==
    /\ pub' = want
    /\ shown' = IF node = "up" THEN Merged(shown, want) ELSE shown
    /\ UNCHANGED node

TickWithNode ==
    /\ node \in {"up", "deaf"}
    /\ \E want \in {Collected} :
          \/ Shrank(want) /\ Rebuilt(want)
          \/ ~Shrank(want) /\ Published(want)
    /\ UNCHANGED <<wires, ticks, server, deaths>>

RosterTimer == TickWithoutNode \/ TickWithNode

-----------------------------------------------------------------------------
(* The world.                                                              *)

\* The hearing loop moves a wire on.  LISTEN passes an ignored one over (segment_ignored);
\* one that was open when the conf switched it off goes on until it is dropped.
WireMoves(i) ==
    /\ moves < Moves /\ moves' = moves + 1
    /\ i \in ignored => lis[i] # "none" \/ sn[i] # "none"
    /\ \E k \in Kinds : \E h \in IF k = "none" THEN Hears ELSE {"none", "LISTENING"} :
          lis' = [lis EXCEPT ![i] = k] /\ sn' = [sn EXCEPT ![i] = h]
    /\ UNCHANGED <<ignored, pub, ticks, graph>>

\* reac_segconf_refresh reads that a segment is switched off, or on again.
ConfMoves(i) ==
    /\ moves < Moves /\ moves' = moves + 1
    /\ ignored' \in {ignored \cup {i}, ignored \ {i}} \ {ignored}
    /\ UNCHANGED <<lis, sn, pub, ticks, graph>>

\* The server goes, with every property it held; the daemon's connection is broken, and
\* it learns so when its loop reads the error.
ServerDies ==
    /\ server /\ deaths < Deaths
    /\ server' = FALSE /\ deaths' = deaths + 1
    /\ shown' = Blank
    /\ node' = IF node = "up" THEN "deaf" ELSE node
    /\ UNCHANGED <<wires, pub, ticks>>

ServerStarts ==
    /\ ~server /\ server' = TRUE
    /\ UNCHANGED <<wires, pub, ticks, node, shown, deaths>>

\* Mutant of NodeIsLost: the state of the filter is never asked.
NodeIsLostNever == FALSE /\ UNCHANGED vars

\* reac_roster_node_on_graph turns false.
NodeIsLost ==
    /\ node = "deaf" /\ node' = "lost"
    /\ UNCHANGED <<wires, pub, ticks, server, shown, deaths>>

Next ==
    \/ TickWithoutNode
    \/ TickWithNode
    \/ \E i \in Names : WireMoves(i)
    \/ \E i \in Names : ConfMoves(i)
    \/ ServerDies
    \/ ServerStarts
    \/ NodeIsLost

\* The timer fires for ever and the loop reads the broken connection.
Spec == Init /\ [][Next]_vars /\ WF_vars(RosterTimer) /\ WF_vars(NodeIsLost)

-----------------------------------------------------------------------------
(* Properties.                                                             *)

\* What a console reads on the graph is what the daemon believes it published, group by
\* group and no group more, although only differences are ever sent and nothing can be
\* taken back (reac_roster_delta, reac_roster_shrank).
ShownIsPublished == node = "up" => shown = Shows(pub)

\* Once the wires and the server stand still, the graph shows every wire's present state,
\* however the node was lost, rebuilt or refused before (on_roster_timer).
RosterCatchesUp == <>[]server => <>[](node = "up" /\ shown = Shows(Collected))

\* A row that names a master or a slave at work has an engine behind it; a wire without
\* one reads `listening`, `knocking` or `trunk` (reac_roster.h on the states of a wire with
\* no engine).
RowHasEngine ==
    \A want \in {Collected} : \A k \in 1..Len(want) :
        want[k].state \in {"PROBING", "ESTABLISHED", "SLAVE"}
          => lis[want[k].name] \in {"master", "established", "slave"}
=============================================================================
