------------------------------ MODULE Playback -------------------------------
(***************************************************************************)
(* The audio path of reac-playback (reac_sink_node.c).  on_process runs on  *)
(* PipeWire's data thread: it takes a buffer of the stream, gathers samples *)
(* into whole REAC frames across the quanta, ramps each channel's gain and  *)
(* hands the frames to the pacer thread, or to the slave engine, through a  *)
(* ring.  The main loop writes the volumes and the mute a controller sets,  *)
(* and takes the stream down and up as boxes of other widths come and go;   *)
(* the gain state outlives the stream.                                      *)
(*                                                                          *)
(* The rate matcher and the graph clock that on_process publishes are left  *)
(* out; a sample is not told apart from another.                            *)
(***************************************************************************)
EXTENDS Integers, Sequences

CONSTANTS
    N,             \* REAC_MAX_CHANNELS
    Group,         \* REAC_SAMPLES_PER_PKT
    Quantum,       \* the longest buffer, in samples
    Bufs,          \* buffers of the stream's pool
    RingCap,       \* frames the ring holds
    Unity,         \* gain 1.0, in steps of the ramp
    MaxWrites,     \* bound: Props objects with volumes or a mute
    MaxMoves       \* bound: boxes that come or go, streams refused, links made or cut

ASSUME PlaybackAssumption ==
    /\ N \in Nat \ {0} /\ Group \in Nat \ {0} /\ Quantum \in Nat \ {0}
    /\ Bufs \in Nat \ {0} /\ RingCap \in Nat \ {0} /\ Unity \in Nat \ {0}
    /\ MaxWrites \in Nat /\ MaxMoves \in Nat

VARIABLES
    carrier,       \* what is downstream: "pacer", "slave", or "none" when neither opened
    width,         \* n->channels
    stream,        \* is the stream on the graph
    position,      \* has the graph handed us its SPA_IO_Position area
    linked,        \* does anything feed the node's ports
    ready,         \* buffers waiting for on_process: are their planes fed
    held,          \* buffers taken and not given back
    staged,        \* samples waiting for a frame to fill
    ring,          \* frames in the pacer's ring, or blocks in the slave's
    vol, muted,    \* the main loop's shadow: chan_vol, muted
    target, cur,   \* chan_target, which the data thread ramps toward, and chan_cur
    missed,        \* channels outside the width when volumes or mute were last written
    writes, moves

buffers == <<ready, held>>
gains   == <<vol, muted, target, cur, missed>>
vars    == <<carrier, width, stream, position, linked, buffers, staged, ring, gains, writes,
             moves>>

Chans  == 1..N
Levels == 0..Unity
Absent == -2              \* a key a Props object does not carry

TypeOK ==
    /\ carrier \in {"pacer", "slave", "none"}
    /\ width \in 0..N /\ stream \in BOOLEAN /\ position \in BOOLEAN /\ linked \in BOOLEAN
    /\ stream => width > 0
    /\ position => stream
    /\ ready \in Seq(BOOLEAN) /\ held \in 0..Bufs /\ Len(ready) + held <= Bufs
    /\ staged \in 0..(Group - 1) /\ ring \in 0..RingCap
    /\ vol \in [Chans -> Levels] /\ muted \in BOOLEAN
    /\ target \in [Chans -> Levels] /\ cur \in [Chans -> Levels]
    /\ missed \subseteq Chans
    /\ writes \in 0..MaxWrites /\ moves \in 0..MaxMoves

Move == moves < MaxMoves /\ moves' = moves + 1

\* reac_sink_node_new: every gain at unity, nothing on the graph yet.
Init ==
    /\ carrier \in {"pacer", "slave", "none"}
    /\ width = 0 /\ stream = FALSE /\ position = FALSE /\ linked \in BOOLEAN
    /\ ready = <<>> /\ held = 0 /\ staged = 0 /\ ring = 0
    /\ vol = [c \in Chans |-> Unity] /\ muted = FALSE
    /\ target = [c \in Chans |-> Unity] /\ cur = [c \in Chans |-> Unity]
    /\ missed = {} /\ writes = 0 /\ moves = 0

-----------------------------------------------------------------------------
(* The data thread.                                                        *)

\* reac_gain_ramp_block over `frames` frames: one step for each sample, landing exactly.
reac_gain_ramp_block(from, to, frames) ==
    LET d == frames * Group
    IN  IF to - from > d THEN from + d ELSE IF from - to > d THEN from - d ELSE to

\* The samples of one buffer join the stage; every full group is ramped and pushed, and a
\* full ring drops it.
Submit(samples) ==
    LET all    == staged + samples
        frames == all \div Group
    IN  /\ staged' = all % Group
        /\ ring' = IF ring + frames <= RingCap THEN ring + frames ELSE RingCap
        /\ cur' = [c \in Chans |-> IF c <= width
                                   THEN reac_gain_ramp_block(cur[c], target[c], frames)
                                   ELSE cur[c]]

\* Mutant of OnProcess: the path with audio keeps the buffer.
OnProcessKeepsBuffer ==
    /\ carrier # "none" /\ position /\ ready # <<>>
    /\ ready' = Tail(ready)
    /\ \/ ~Head(ready) /\ UNCHANGED <<staged, ring, cur, held>>
       \/ /\ Head(ready) /\ held' = held + 1
          /\ \E samples \in 1..Quantum : Submit(samples)
    /\ UNCHANGED <<carrier, width, stream, position, linked, vol, muted, target, missed, writes,
                   moves>>

\* on_process, as far as it goes on: nobody downstream, no position and no buffer end it
\* before anything is taken.  A buffer nothing feeds is given back unread.
OnProcess ==
    /\ carrier # "none" /\ position /\ ready # <<>>
    /\ ready' = Tail(ready)
    /\ \/ ~Head(ready) /\ UNCHANGED <<staged, ring, cur>>
       \/ Head(ready) /\ \E samples \in 1..Quantum : Submit(samples)
    /\ UNCHANGED <<carrier, width, stream, position, linked, held, vol, muted, target, missed,
                   writes, moves>>

-----------------------------------------------------------------------------
(* The main loop.                                                          *)

\* Mutant of sink_publish: the mute is not folded in.
PublishUnmuted(m, v) == [c \in Chans |-> IF c <= width THEN v[c] ELSE target[c]]

\* sink_publish: the channels the node has now, and no others.
sink_publish(m, v) ==
    [c \in Chans |-> IF c > width THEN target[c] ELSE IF m THEN 0 ELSE v[c]]

AtLeastZero(x) == IF x < 0 THEN 0 ELSE x

\* on_param_changed with a Props object that says something of volume or mute: a scalar for
\* every channel, and channelVolumes over it.
OnParamChanged ==
    /\ stream /\ writes < MaxWrites
    /\ writes' = writes + 1
    /\ \E m \in {0, 1, Absent}, v \in {-1, Unity - 1, Absent},
          each \in {<<>>} \cup UNION {[1..k -> {-1, Unity}] : k \in Chans} :
          /\ m # Absent \/ v # Absent \/ each # <<>>
          /\ muted' = IF m = Absent THEN muted ELSE m = 1
          /\ vol' = [c \in Chans |->
                        IF c <= width /\ c <= Len(each) THEN AtLeastZero(each[c])
                        ELSE IF c <= width /\ v # Absent THEN AtLeastZero(v)
                        ELSE vol[c]]
    /\ target' = sink_publish(muted', vol')
    /\ missed' = {c \in Chans : c > width}
    /\ UNCHANGED <<carrier, width, stream, position, linked, buffers, staged, ring, cur, moves>>

\* reac_sink_node_ensure for another width or label, and reac_sink_node_unpublish: the stream
\* goes with its buffers and its io area; the new one may be refused.
Ensure ==
    /\ Move
    /\ \E w \in 0..N :
          /\ w = 0 => stream
          /\ width' = w
          /\ stream' \in {FALSE, w > 0}
    /\ position' = FALSE /\ ready' = <<>> /\ held' = 0
    /\ UNCHANGED <<carrier, linked, staged, ring, gains, writes>>

\* on_io_changed of a connected stream.
OnIoChanged ==
    /\ stream /\ ~position
    /\ position' = TRUE
    /\ UNCHANGED <<carrier, width, stream, linked, buffers, staged, ring, gains, writes, moves>>

-----------------------------------------------------------------------------
(* The graph, the patches, the engine.                                     *)

GraphCycle ==
    /\ stream /\ Len(ready) + held < Bufs
    /\ ready' = Append(ready, linked)
    /\ UNCHANGED <<carrier, width, stream, position, linked, held, staged, ring, gains, writes,
                   moves>>

PatchMoves ==
    /\ Move
    /\ linked' = ~linked
    /\ UNCHANGED <<carrier, width, stream, position, buffers, staged, ring, gains, writes>>

\* The engine takes a frame for its slot; without one it sends FILLER.
EngineSlot ==
    /\ ring > 0
    /\ ring' = ring - 1
    /\ UNCHANGED <<carrier, width, stream, position, linked, buffers, staged, gains, writes,
                   moves>>

Next ==
    \/ OnProcess \/ OnParamChanged \/ Ensure \/ OnIoChanged
    \/ GraphCycle \/ PatchMoves \/ EngineSlot

\* PipeWire hands out the areas, runs its cycles and calls on_process; the engine its slots.
Fairness ==
    /\ WF_vars(OnProcess) /\ WF_vars(OnIoChanged) /\ WF_vars(GraphCycle) /\ WF_vars(EngineSlot)

Spec == Init /\ [][Next]_vars /\ Fairness

-----------------------------------------------------------------------------
(* Properties.                                                             *)

Fed == stream /\ linked /\ carrier # "none"

\* Audio that is patched keeps reaching the engine, however often the patch was cut and the
\* stream rebuilt before: every path through on_process gives its buffer back, so the pool
\* never runs dry (on_process: "Every dequeue owes a queue").
AudioFlows == <>[]Fed => []<>(ring > 0)

Asked(c) == IF muted THEN 0 ELSE vol[c]

\* The volumes and the mute the node shows are the ones its channels are played at, once
\* the ramp has run: for every channel the node had when they were last written.
VolumeIsHeard == <>[]Fed => <>[](\A c \in 1..width : c \notin missed => cur[c] = Asked(c))

\* The same for every channel.  It is not so: a channel that a wider box brings is played
\* at what was last pushed for it, although the node shows the mute.
VolumeIsHeardOnAll == <>[]Fed => <>[](\A c \in 1..width : cur[c] = Asked(c))
=============================================================================
