--------------------------- MODULE SpeechCapture ---------------------------
(***************************************************************************)
(* The audio pipeline of one live capture session                          *)
(* (adapters/discord/voice/capture.rs and session.rs): packets of the       *)
(* speakers' streams pass a speech gate with a preroll, are buffered, and    *)
(* are cut into the segments that become audio_segment jobs.                 *)
(*                                                                         *)
(* Times are counted in frames of 20 ms.  PCM is abstracted to its length;   *)
(* the times the code notes beside it are kept, for they are what a segment  *)
(* claims to contain.  A voice tick holds the session's mutex, so that the   *)
(* flush loop, a leave and a deafening fall between ticks; tick is what is   *)
(* left of the one under way.                                               *)
(***************************************************************************)
EXTENDS Integers

CONSTANTS
    User,           \* the speakers of the room
    Ssrc,           \* the transport streams; a user may have several devices
    None,
    Start,          \* speech_start_ms: loud frames that open the gate
    Preroll,        \* speech_preroll_ms: frames kept from before
    EndSilence,     \* speech_end_silence_ms
    MinUtterance,   \* minimum_utterance_ms
    MaxSegment,     \* max_segment_ms
    Timeout,        \* silence_ms: no packet for so long
    Jitter,         \* CONTINUITY_JITTER_MS
    WakeMin,        \* probe_minimum_ms
    WakeNext,       \* the least length of a stream's later probes
    WakeInterval,   \* probe_interval_ms
    MaxInput,       \* bound: no packet arrives after this tick
    MaxNow          \* bound: the clock stops here

\* A gate that opens on more frames than the preroll keeps would cut the onset
\* off, and without a preroll it never opens (ingest_stt_pcm).
ASSUME GateAssumption ==
    /\ Start \in Nat /\ Preroll \in Nat /\ 1 <= Start /\ Start <= Preroll
    /\ EndSilence \in Nat \ {0} /\ MinUtterance \in Nat /\ MaxSegment \in Nat
    /\ Timeout \in Nat /\ Jitter \in Nat
    /\ WakeMin \in Nat \ {0} /\ WakeNext \in Nat \ {0} /\ WakeInterval \in Nat
    /\ MaxInput \in Nat /\ MaxNow \in Nat /\ MaxInput <= MaxNow
    /\ None \notin Int /\ None \notin User

VARIABLES
    now,        \* the clock, in ticks
    mode,       \* "local_buffering", "deafened_paused" or "ended"
    streams,    \* ssrc_users: the user of a stream, None while unmapped
    tick,       \* what the tick under way has still to write
    buffers,    \* the SpeakerBuffer of a user, None before the first packet
    heard,      \* what the user said, from the packets alone (history)
    last        \* the user's last segment since the buffer began (history)

vars == << now, mode, streams, tick, buffers, heard, last >>

\* A decoded packet is loud (above the start threshold), soft (above the
\* threshold that continues speech) or quiet; lost when it could not be decoded,
\* concealed when the jitter buffer made it up.
Level == { "loud", "soft", "quiet" }
Packet == Level \cup { "lost", "concealed" }
NoTick == [ held |-> FALSE, packets |-> << >>, silent |-> {}, touched |-> {} ]
Live == mode = "local_buffering"

---------------------------------------------------------------------------
(***************************************************************************)
(* The speech gate.                                                         *)
(***************************************************************************)

NewBuffer ==
    [ length |-> 0, started |-> None, lastPcm |-> None, trailing |-> 0,
      lastInput |-> None, lastPacket |-> 0, voiced |-> 0,
      preroll |-> 0, prerollAt |-> None,
      wake |-> 0, probed |-> FALSE, lastProbe |-> 0 ]

\* Where a packet's audio is placed: right behind the one before it unless it
\* comes too late for that.
Continuous(b) == b.lastInput = None \/ now <= b.lastInput + 1 + Jitter

PacketStart(b) ==
    IF b.lastInput # None /\ Continuous(b) THEN b.lastInput ELSE now - 1

GateReset(b) ==
    [ b EXCEPT !.preroll = 0, !.prerollAt = None, !.voiced = 0, !.trailing = 0 ]

WakeReset(b) == [ b EXCEPT !.wake = 0, !.probed = FALSE, !.lastProbe = 0 ]

\* A late packet starts afresh, unless speech is being buffered.
Placed(b) ==
    IF Continuous(b) \/ b.length > 0 THEN b ELSE WakeReset(GateReset(b))

Prerolled(b, at) ==
    IF b.preroll = Preroll
    THEN [ b EXCEPT !.prerollAt = @ + 1 ]
    ELSE [ b EXCEPT !.preroll = @ + 1,
                    !.prerollAt = IF b.preroll = 0 THEN at ELSE @ ]

\* The gate opens with the frame that completes Start loud ones; the preroll,
\* which holds that frame too, becomes the beginning of the recording.
Opened(b, at) ==
    [ b EXCEPT !.voiced = @ + 1, !.started = b.prerollAt,
               !.length = b.preroll, !.lastPcm = at + 1, !.trailing = 0 ]

Gated(b, level, at) ==
    CASE level # "loud" -> [ b EXCEPT !.voiced = 0 ]
      [] level = "loud" /\ b.voiced + 1 >= Start -> Opened(b, at)
      [] OTHER -> [ b EXCEPT !.voiced = @ + 1 ]

Appended(b, level, at) ==
    IF level = "quiet"
    THEN [ b EXCEPT !.length = @ + 1, !.trailing = @ + 1 ]
    ELSE [ b EXCEPT !.length = @ + 1, !.trailing = 0, !.lastPcm = at + 1 ]

Ingest(b, level, at) ==
    IF b.length = 0 THEN Gated(Prerolled(b, at), level, at)
                    ELSE Appended(b, level, at)

\* A frame is appended to the wake stream as well.
Accepted(b, level) ==
    LET at == PacketStart(b)
    IN  [ Ingest(Placed(b), level, at) EXCEPT
              !.wake = @ + 1, !.lastInput = at + 1, !.lastPacket = now ]

\* Silence and undecodable packets are kept only behind buffered audio.
Buffering(u) ==
    buffers[u] # None /\ (buffers[u].length > 0 \/ buffers[u].wake > 0)

---------------------------------------------------------------------------
(***************************************************************************)
(* What must be recorded, told from the packets alone: Start loud frames in  *)
(* a row.  run is where the current row of loud frames began, due the frames *)
(* of such rows that no segment has taken yet, hole the time that passed     *)
(* without a packet inside the current utterance.                            *)
(***************************************************************************)

Unheard == [ run |-> None, due |-> {}, hole |-> 0 ]

Listened(h, b, level) ==
    LET at    == PacketStart(b)
        begun == IF h.run # None /\ Continuous(b) THEN h.run ELSE at
    IN  [ run  |-> IF level = "loud" THEN begun ELSE None,
          due  |-> IF level = "loud" /\ at + 1 - begun >= Start
                   THEN h.due \cup (begun .. at) ELSE h.due,
          hole |-> IF b.length > 0 THEN h.hole + (at - b.lastInput) ELSE 0 ]

---------------------------------------------------------------------------
(***************************************************************************)
(* Voice ticks.                                                             *)
(***************************************************************************)

\* The gateway reports that a user speaks on a stream.
SpeakingState(s, u) ==
    /\ tick = NoTick /\ mode # "ended" /\ now < MaxInput
    /\ streams' = [ streams EXCEPT ![s] = u ]
    /\ UNCHANGED << now, mode, tick, buffers, heard, last >>

\* A tick delivers at most one packet of each stream and names the silent ones.
VoiceTick(packets, silent) ==
    /\ tick = NoTick /\ Live /\ now < MaxInput
    /\ tick' = [ held |-> TRUE, packets |-> packets, silent |-> silent,
                  touched |-> {} ]
    /\ UNCHANGED << now, mode, streams, buffers, heard, last >>

Hear(u, level) ==
    LET b == IF buffers[u] = None THEN NewBuffer ELSE buffers[u]
    IN  /\ buffers' = [ buffers EXCEPT ![u] = Accepted(b, level) ]
        /\ heard' = [ heard EXCEPT ![u] = Listened(heard[u], b, level) ]

\* An undecodable packet counts as a quiet one behind buffered audio.
HearLoss(u) ==
    IF Buffering(u) THEN Hear(u, "quiet") ELSE UNCHANGED << buffers, heard >>

\* So does the silence of a stream; of a user who sent a packet in the same tick
\* it says nothing.
HearSilence(u) ==
    IF Buffering(u)
    THEN /\ buffers' = [ buffers EXCEPT ![u] = Accepted(buffers[u], "quiet") ]
         /\ heard' = IF u \in tick.touched THEN heard
                     ELSE [ heard EXCEPT ![u] = Listened(heard[u], buffers[u], "quiet") ]
    ELSE UNCHANGED << buffers, heard >>

\* The rest of a tick without stream s.
Written(s, touched) ==
    [ tick EXCEPT !.packets = [ t \in DOMAIN @ \ {s} |-> @[t] ],
                  !.silent = @ \ {s}, !.touched = @ \cup touched ]

\* One packet: of an unmapped stream it is dropped, a concealed one as well.
WritePacket(s) ==
    /\ s \in DOMAIN tick.packets
    /\ LET u == streams[s]  packet == tick.packets[s]
       IN  /\ tick' = Written(s, IF packet = "concealed" \/ u = None
                                 THEN {} ELSE {u})
           /\ IF u = None \/ packet = "concealed"
              THEN UNCHANGED << buffers, heard >>
              ELSE IF packet = "lost" THEN HearLoss(u) ELSE Hear(u, packet)
    /\ UNCHANGED << now, mode, streams, last >>

\* Mutant: every silent stream advances its user's silence.
WriteSilenceEach(s) ==
    /\ DOMAIN tick.packets = {} /\ s \in tick.silent
    /\ LET u == streams[s]
       IN  /\ tick' = Written(s, IF u = None THEN {} ELSE {u})
           /\ IF u = None THEN UNCHANGED << buffers, heard >> ELSE HearSilence(u)
    /\ UNCHANGED << now, mode, streams, last >>

\* A silent stream advances its user's silence once, and only if no packet of
\* the user arrived on another stream.
WriteSilence(s) ==
    /\ DOMAIN tick.packets = {} /\ s \in tick.silent
    /\ LET u == streams[s]
       IN  /\ tick' = Written(s, IF u = None THEN {} ELSE {u})
           /\ IF u = None \/ u \in tick.touched
              THEN UNCHANGED << buffers, heard >>
              ELSE HearSilence(u)
    /\ UNCHANGED << now, mode, streams, last >>

\* capture_wake_probe takes the wake stream when it is long and old enough.
ProbeDue(b, force) ==
    /\ b.wake >= WakeMin
    /\ force \/ b.lastProbe = 0 \/ now - b.lastProbe >= WakeInterval
    /\ b.probed => b.wake >= WakeNext

Probed(b, force) ==
    IF ProbeDue(b, force)
    THEN [ b EXCEPT !.wake = 0, !.probed = TRUE, !.lastProbe = now ]
    ELSE b

\* The end of a tick: the users it touched are probed, and the mutex is free.
TickEnd ==
    /\ tick.held /\ DOMAIN tick.packets = {} /\ tick.silent = {}
    /\ buffers' = [ u \in User |->
            IF u \in tick.touched /\ buffers[u] # None
            THEN Probed(buffers[u], FALSE) ELSE buffers[u] ]
    /\ tick' = NoTick
    /\ now' = now + 1
    /\ UNCHANGED << mode, streams, heard, last >>

\* Time passes without a tick.
Elapse ==
    /\ tick = NoTick /\ now < MaxNow
    /\ now' = now + 1
    /\ UNCHANGED << mode, streams, tick, buffers, heard, last >>

---------------------------------------------------------------------------
(***************************************************************************)
(* Closing segments.                                                        *)
(***************************************************************************)

\* Mutant: a speaker who stops sending is never given up.
ShouldFlushHeard(b) ==
    b.length > 0 /\ (b.length >= MaxSegment \/ b.trailing >= EndSilence)

ShouldFlush(b) ==
    /\ b.length > 0
    /\ \/ b.length >= MaxSegment
       \/ b.trailing >= EndSilence
       \/ now - b.lastPacket >= Timeout

Trimmed(b) == IF b.trailing < b.length THEN b.trailing ELSE 0

Segment(b, h) ==
    [ from |-> b.started, to |-> b.lastPcm,
      length |-> b.length - Trimmed(b), hole |-> h.hole ]

\* Mutant: the gate keeps its preroll behind a segment.
ClosedKeepingGate(b) ==
    WakeReset([ b EXCEPT !.length = 0, !.started = None, !.trailing = 0 ])

\* The wake stream, probed just before, starts afresh like the gate.
Closed(b) ==
    WakeReset(GateReset([ b EXCEPT !.length = 0, !.started = None ]))

\* What is left to record behind a segment; nothing is of an utterance that is
\* too short, or whose file could not be written.
Recorded(h, segment, kept) ==
    [ run |-> None, hole |-> 0,
      due |-> IF kept THEN h.due \ (segment.from .. (segment.to - 1)) ELSE {} ]

\* The segments of some users are closed; the files of the broken ones fail.
Close(closing, broken) ==
    LET kept(u) == u \notin broken
                    /\ Segment(buffers[u], heard[u]).length >= MinUtterance
    IN  /\ heard' = [ u \in User |->
                IF u \in closing
                THEN Recorded(heard[u], Segment(buffers[u], heard[u]), kept(u))
                ELSE heard[u] ]
        /\ last' = [ u \in User |->
                IF u \in closing /\ kept(u)
                THEN Segment(buffers[u], heard[u]) ELSE last[u] ]

\* The flush loop closes what is long, silent or abandoned enough.
FlushReady(broken) ==
    LET ready == { u \in User : buffers[u] # None /\ ShouldFlush(buffers[u]) }
    IN  /\ tick = NoTick /\ Live /\ ready # {} /\ broken \subseteq ready
        /\ Close(ready, broken)
        /\ buffers' = [ u \in User |->
                IF u \in ready THEN Closed(buffers[u]) ELSE buffers[u] ]
        /\ UNCHANGED << now, mode, streams, tick >>

\* A leave, a reconciliation or the shutdown closes everything.
Finish(broken) ==
    LET open == { u \in User : buffers[u] # None /\ buffers[u].length > 0 }
    IN  /\ tick = NoTick /\ mode # "ended" /\ broken \subseteq open
        /\ Close(open, broken)
        /\ buffers' = [ u \in User |->
                CASE u \in open          -> Closed(buffers[u])
                  [] buffers[u] = None   -> None
                  [] OTHER               -> Probed(buffers[u], TRUE) ]
        /\ mode' = "ended"
        /\ UNCHANGED << now, streams, tick >>

\* Deafening drops what is buffered, before Discord is asked; hearing again
\* begins after Discord was.
Deafen ==
    /\ tick = NoTick /\ Live
    /\ mode' = "deafened_paused"
    /\ buffers' = [ u \in User |-> None ]
    /\ heard' = [ u \in User |-> Unheard ]
    /\ last' = [ u \in User |-> None ]
    /\ UNCHANGED << now, streams, tick >>

Undeafen ==
    /\ tick = NoTick /\ mode = "deafened_paused"
    /\ mode' = "local_buffering"
    /\ UNCHANGED << now, streams, tick, buffers, heard, last >>

---------------------------------------------------------------------------
Init ==
    /\ now = 1 /\ mode = "local_buffering" /\ tick = NoTick
    /\ streams = [ s \in Ssrc |-> None ]
    /\ buffers = [ u \in User |-> None ]
    /\ heard = [ u \in User |-> Unheard ]
    /\ last = [ u \in User |-> None ]

WriteTick == (\E s \in Ssrc : WritePacket(s) \/ WriteSilence(s)) \/ TickEnd

Flush == \E broken \in SUBSET User : FlushReady(broken)

Next ==
    \/ \E s \in Ssrc, u \in User : SpeakingState(s, u)
    \/ \E speaking \in SUBSET Ssrc :
         \E packets \in [ speaking -> Packet ], silent \in SUBSET (Ssrc \ speaking) :
            VoiceTick(packets, silent)
    \/ WriteTick
    \/ Elapse
    \/ Flush
    \/ \E broken \in SUBSET User : Finish(broken)
    \/ Deafen
    \/ Undeafen

Spec == Init /\ [][Next]_vars

\* A tick is written to its end, time passes, and the flush loop comes again.
\* Nothing is said of what the speakers or the room's controls do.
FairSpec == Spec /\ WF_vars(WriteTick) /\ WF_vars(Elapse) /\ WF_vars(Flush)

---------------------------------------------------------------------------
(***************************************************************************)
(* Properties.                                                              *)
(***************************************************************************)

Time == Nat \cup { None }

Buffer ==
    [ length : Nat, started : Time, lastPcm : Time, trailing : Nat,
      lastInput : Time, lastPacket : Nat, voiced : Nat,
      preroll : Nat, prerollAt : Time,
      wake : Nat, probed : BOOLEAN, lastProbe : Nat ]

\* No buffer at all is not a buffer.
ASSUME NoneAssumption == None \notin Buffer

Heard == [ run : Time, due : SUBSET Nat, hole : Nat ]

Tick ==
    [ held : BOOLEAN, packets : UNION { [ S -> Packet ] : S \in SUBSET Ssrc },
      silent : SUBSET Ssrc, touched : SUBSET User ]

\* The variables have their types, and a recording in progress has a beginning
\* and an end (the error path of close_speaker_segment_with_reason).
TypeOK ==
    /\ now \in Nat \ {0}
    /\ mode \in { "local_buffering", "deafened_paused", "ended" }
    /\ streams \in [ Ssrc -> User \cup { None } ]
    /\ tick \in Tick
    /\ buffers \in [ User -> Buffer \cup { None } ]
    /\ heard \in [ User -> Heard ]
    /\ \A u \in User : buffers[u] # None /\ buffers[u].length > 0 =>
         buffers[u].started \in Nat /\ buffers[u].lastPcm \in Nat

InOrder(before, segment) ==
    /\ before # None => before.to <= segment.from
    /\ segment.from + segment.length <= segment.to
    /\ segment.hole = 0 => segment.from + segment.length = segment.to

\* The segments of a speaker follow one another: one begins where the one before
\* it ended or later, it ends after it began, and its audio fills the time it
\* claims unless packets were missing (packet_audio_bounds, the preroll).
SegmentsInOrder ==
    [][\A u \in User :
         last'[u] # last[u] /\ last'[u] # None => InOrder(last[u], last'[u])]_vars

\* Speech that lasts long enough to open the gate is buffered from its first
\* frame on until a segment takes it, and what is buffered is within the times
\* the segment will claim: neither the preroll, a gap, another device's silence
\* nor a cut of the segment loses a frame (ingest_stt_pcm, write_voice_tick).
SpeechKept ==
    \A u \in User : heard[u].due # {} =>
        /\ buffers[u] # None /\ buffers[u].length > 0
        /\ \A at \in heard[u].due :
             buffers[u].started <= at /\ at < buffers[u].lastPcm

\* Whatever was said is recorded in the end, also when its speaker just stops
\* sending (should_flush_speaker, finish), unless the room is deafened, the
\* utterance too short or its file cannot be written.
SpeechIsRecorded == \A u \in User : heard[u].due # {} ~> heard[u].due = {}

\* Nothing said before or during a deafening is left to be recorded after it
\* (set_deafened, write_voice_tick, finish).
DeafKeepsNothing ==
    mode = "deafened_paused" => \A u \in User : buffers[u] = None
=============================================================================
