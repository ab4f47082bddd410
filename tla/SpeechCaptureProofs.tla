------------------------- MODULE SpeechCaptureProofs -------------------------
(***************************************************************************)
(* Proofs that no speech is lost between the gate and a segment, that the    *)
(* segments of a speaker follow one another, and that a deafened room keeps  *)
(* nothing, whatever the thresholds, the speakers and their devices.  The    *)
(* argument is one invariant per buffer: before the gate opens the preroll   *)
(* ends where the input ends and reaches back as far as the loud frames do;  *)
(* afterwards the recording began there, and all it holds lies between its   *)
(* beginning and its last voiced frame.                                     *)
(***************************************************************************)
EXTENDS SpeechCapture, TLAPS

\* Before the gate opens.
Idle(b, h, l) ==
    /\ h.due = {}
    /\ b.voiced <= b.preroll /\ b.voiced < Start
    /\ b.preroll > 0 =>
         /\ b.prerollAt \in Nat /\ b.prerollAt + b.preroll = b.lastInput
         /\ l # None => l.to <= b.prerollAt
    /\ h.run # None => h.run + b.voiced = b.lastInput
    /\ h.run = None => b.voiced = 0

\* While speech is buffered.
Recording(b, h, l) ==
    /\ b.started \in Nat /\ b.lastPcm \in Nat
    /\ l # None => l.to <= b.started
    /\ b.trailing < b.length
    /\ b.started + b.length <= b.lastInput
    /\ b.started + b.length - b.trailing <= b.lastPcm /\ b.lastPcm <= b.lastInput
    /\ h.hole = 0 => /\ b.started + b.length = b.lastInput
                     /\ b.started + b.length - b.trailing = b.lastPcm
    /\ h.run # None => b.started <= h.run
    /\ \A at \in h.due : b.started <= at /\ at < b.lastPcm

\* What holds of a buffer, the history of its speaker and the last segment.
Sound(b, h, l) ==
    /\ b.lastInput \in Nat
    /\ b.preroll <= Preroll
    /\ l # None => l.to \in Nat /\ l.to <= b.lastInput
    /\ b.length = 0 => Idle(b, h, l)
    /\ b.length > 0 => Recording(b, h, l)

BuffersSound ==
    \A u \in User :
        IF buffers[u] = None THEN heard[u] = Unheard /\ last[u] = None
        ELSE Sound(buffers[u], heard[u], last[u])

\* A tick holds the session's mutex, which deafening and finishing need.
TickWhileLive == mode # "local_buffering" => tick = NoTick

IInv == TypeOK /\ BuffersSound /\ TickWhileLive /\ DeafKeepsNothing

-----------------------------------------------------------------------------
(* The gate. *)

\* A buffer before its first packet, or one with a sound past.
Begun(b, h, l) ==
    \/ b = NewBuffer /\ h = Unheard /\ l = None
    \/ b \in Buffer /\ h \in Heard /\ Sound(b, h, l)

\* A new buffer has the type of one.
LEMMA NewBufferType == NewBuffer \in Buffer
BY DEF NewBuffer, Buffer, Time

\* A gap and what was missing before add up to nothing only if both are nothing.
LEMMA NoGap ==
    ASSUME NEW x \in Nat, NEW y \in Nat, NEW z \in Nat, y >= z, x + (y - z) = 0
    PROVE  x = 0 /\ y = z
OBVIOUS

\* Audio is placed behind what was placed before it.
LEMMA PlacedBehind ==
    ASSUME now \in Nat \ {0}, NEW b \in Buffer
    PROVE  /\ PacketStart(b) \in Nat
           /\ b.lastInput # None => PacketStart(b) >= b.lastInput
           /\ b.lastInput # None /\ Continuous(b) => PacketStart(b) = b.lastInput
BY GateAssumption DEF PacketStart, Continuous, Buffer, Time

\* A frame of an utterance in progress keeps the recording sound.
LEMMA AppendKeeps ==
    ASSUME now \in Nat \ {0}, NEW b \in Buffer, NEW h \in Heard, NEW l,
           NEW level \in Level, Sound(b, h, l), b.length > 0
    PROVE  /\ Accepted(b, level) \in Buffer
           /\ Listened(h, b, level) \in Heard
           /\ Sound(Accepted(b, level), Listened(h, b, level), l)
<1> DEFINE at == PacketStart(b)
           b2 == Accepted(b, level)
           h2 == Listened(h, b, level)
<1>1. b.lastInput \in Nat /\ b.lastInput # None /\ at \in Nat /\ at >= b.lastInput
  BY PlacedBehind, GateAssumption DEF Sound
<1>2. Placed(b) = b /\ Ingest(Placed(b), level, at) = Appended(b, level, at)
  BY DEF Placed, Ingest, Buffer
<1>3. /\ b2.length = b.length + 1 /\ b2.started = b.started
      /\ b2.lastInput = at + 1 /\ b2.preroll = b.preroll
      /\ level = "quiet" => b2.trailing = b.trailing + 1 /\ b2.lastPcm = b.lastPcm
      /\ level # "quiet" => b2.trailing = 0 /\ b2.lastPcm = at + 1
      /\ b2 \in Buffer
  <2> DEFINE a == Appended(b, level, at)
  <2>1. /\ b.length + 1 \in Nat /\ b.trailing + 1 \in Nat /\ b.wake + 1 \in Nat
        /\ at + 1 \in Time /\ now \in Nat
    BY <1>1 DEF Buffer, Time
  <2> HIDE DEF at
  <2>2. /\ a.length = b.length + 1 /\ a.started = b.started /\ a.preroll = b.preroll
        /\ level = "quiet" => a.trailing = b.trailing + 1 /\ a.lastPcm = b.lastPcm
        /\ level # "quiet" => a.trailing = 0 /\ a.lastPcm = at + 1
        /\ a.wake = b.wake /\ a \in Buffer
    <3>1. CASE level = "quiet"
      <4>1. a = [ b EXCEPT !.length = b.length + 1, !.trailing = b.trailing + 1 ]
        BY <3>1 DEF Appended
      <4> QED BY <2>1, <3>1, <4>1 DEF Buffer
    <3>2. CASE level # "quiet"
      <4> DEFINE n == b.length + 1
                 end == at + 1
      <4>1. a = [ b EXCEPT !.length = n, !.trailing = 0, !.lastPcm = end ]
        BY <3>2 DEF Appended
      <4>2. n \in Nat /\ end \in Time
        BY <2>1
      <4> HIDE DEF n, end, a
      <4>3. /\ a.length = n /\ a.started = b.started /\ a.preroll = b.preroll
            /\ a.trailing = 0 /\ a.lastPcm = end /\ a.wake = b.wake /\ a \in Buffer
        BY <4>1, <4>2 DEF Buffer
      <4> QED BY <3>2, <4>3 DEF n, end
    <3> QED BY <3>1, <3>2
  <2>3. b2 = [ a EXCEPT !.wake = b.wake + 1, !.lastInput = at + 1, !.lastPacket = now ]
    BY <1>2, <2>2 DEF Accepted, at
  <2> HIDE DEF a, b2
  <2> QED BY <2>1, <2>2, <2>3 DEF Buffer
<1>4. /\ h2.run # None => level = "loud" /\ b.started <= h2.run /\ h2.run \in Nat
      /\ h2.due = h.due \/ (level = "loud" /\ \A x \in h2.due : x \in h.due \/ (b.started <= x /\ x <= at))
      /\ h2.hole = h.hole + (at - b.lastInput)
      /\ h2 \in Heard
  <2>1. b.started <= at
    BY <1>1 DEF Sound, Recording, Buffer
  <2>2. CASE level = "loud"
    BY <1>1, <2>1, <2>2 DEF Listened, Heard, Time, Sound, Recording
  <2>3. CASE level # "loud"
    BY <1>1, <2>1, <2>3 DEF Listened, Heard, Time
  <2> QED BY <2>2, <2>3
<1>5. Recording(b2, h2, l)
  <2> HIDE DEF at, b2, h2
  <2>1. Recording(b, h, l) /\ h.hole \in Nat /\ h.due \subseteq Nat
    BY DEF Sound, Heard
  <2>2. b.length \in Nat /\ b.trailing \in Nat /\ h2.due \subseteq Nat
    BY <1>4 DEF Buffer, Heard
  <2>3. b2.lastPcm \in Nat /\ b2.lastPcm >= b.lastPcm /\ b2.lastPcm <= b2.lastInput
    BY <1>1, <1>3, <2>1 DEF Recording
  <2>4. /\ b2.trailing < b2.length /\ b2.started + b2.length <= b2.lastInput
        /\ b2.started + b2.length - b2.trailing <= b2.lastPcm
    BY <1>1, <1>3, <2>1, <2>2 DEF Recording
  <2>5. h2.hole = 0 => /\ b2.started + b2.length = b2.lastInput
                       /\ b2.started + b2.length - b2.trailing = b2.lastPcm
    <3> SUFFICES ASSUME h2.hole = 0
                 PROVE  /\ b2.started + b2.length = b2.lastInput
                        /\ b2.started + b2.length - b2.trailing = b2.lastPcm
      OBVIOUS
    <3>1. h.hole = 0 /\ at = b.lastInput
      <4>1. h2.hole = h.hole + (at - b.lastInput)
        BY <1>4
      <4>2. h.hole + (at - b.lastInput) = 0
        BY <4>1
      <4>3. h.hole \in Nat /\ at \in Nat /\ b.lastInput \in Nat /\ at >= b.lastInput
        BY <1>1, <2>1
      <4> QED BY <4>2, <4>3, NoGap
    <3>2. b.started + b.length = at /\ b.started + b.length - b.trailing = b.lastPcm
      BY <2>1, <3>1 DEF Recording
    <3>3. b.started \in Nat /\ b.lastPcm \in Nat
      BY <2>1 DEF Recording
    <3> QED BY <1>1, <1>3, <2>2, <3>2, <3>3
  <2>6. \A x \in h2.due : b2.started <= x /\ x < b2.lastPcm
    <3> SUFFICES ASSUME NEW x \in h2.due PROVE b2.started <= x /\ x < b2.lastPcm
      OBVIOUS
    <3>1. CASE x \in h.due
      BY <1>3, <2>1, <2>2, <2>3, <3>1 DEF Recording
    <3>2. CASE x \notin h.due
      BY <1>1, <1>3, <1>4, <2>2, <3>2
    <3> QED BY <3>1, <3>2
  <2> QED BY <1>3, <1>4, <2>1, <2>3, <2>4, <2>5, <2>6 DEF Recording
<1> HIDE DEF b2, h2
<1>6. Sound(b2, h2, l)
  BY <1>1, <1>3, <1>5 DEF Sound, Buffer
<1> QED BY <1>3, <1>4, <1>6 DEF b2, h2

\* What the closed gate has when a frame comes: a preroll that ends where the frame
\* begins, and a row of loud frames that does.
Waiting(p, begun, at, l) ==
    /\ p.length = 0 /\ p.preroll <= Preroll
    /\ p.voiced <= p.preroll /\ p.voiced < Start
    /\ p.preroll > 0 => /\ p.prerollAt \in Nat /\ p.prerollAt + p.preroll = at
                        /\ l # None => l.to <= p.prerollAt
    /\ l # None => l.to \in Nat /\ l.to <= at
    /\ begun \in Nat /\ begun + p.voiced = at

RowOf(h, b) ==
    IF h.run # None /\ Continuous(b) THEN h.run ELSE PacketStart(b)

\* Placing a frame, which drops a stale preroll, leaves such a gate.
LEMMA PlacedWaits ==
    ASSUME now \in Nat \ {0}, NEW b \in Buffer, NEW h \in Heard, NEW l,
           Begun(b, h, l), b.length = 0
    PROVE  /\ Placed(b) \in Buffer
           /\ Waiting(Placed(b), RowOf(h, b), PacketStart(b), l)
           /\ h.due = {} /\ Placed(b).wake \in Nat
<1> DEFINE at == PacketStart(b)
<1>1. /\ at \in Nat
      /\ b.lastInput # None => at >= b.lastInput
      /\ b.lastInput # None /\ Continuous(b) => at = b.lastInput
  BY PlacedBehind
<1>2. CASE b = NewBuffer /\ h = Unheard /\ l = None
  <2>1. Continuous(b) /\ Placed(b) = b
    BY <1>2 DEF Continuous, Placed, NewBuffer
  <2>2. RowOf(h, b) = at
    BY <1>2 DEF RowOf, Unheard
  <2>3. /\ b.length = 0 /\ b.preroll = 0 /\ b.voiced = 0 /\ h.due = {}
    BY <1>2 DEF NewBuffer, Unheard
  <2> QED BY <1>1, <1>2, <2>1, <2>2, <2>3, GateAssumption DEF Waiting, Buffer
<1>3. CASE Sound(b, h, l)
  <2>1. /\ Idle(b, h, l) /\ b.lastInput \in Nat /\ b.lastInput # None
        /\ b.preroll <= Preroll
        /\ l # None => l.to \in Nat /\ l.to <= b.lastInput
    BY <1>3, GateAssumption DEF Sound
  <2>2. /\ b.preroll \in Nat /\ b.voiced \in Nat /\ b.wake \in Nat
        /\ h.run \in Nat \cup { None }
    BY DEF Buffer, Heard, Time
  <2>3. CASE Continuous(b)
    <3>1. Placed(b) = b /\ at = b.lastInput
      BY <1>1, <2>1, <2>3 DEF Placed
    <3>2. RowOf(h, b) \in Nat /\ RowOf(h, b) + b.voiced = at
      BY <1>1, <2>1, <2>2, <2>3, <3>1 DEF RowOf, Idle
    <3> HIDE DEF at
    <3>3. Waiting(b, RowOf(h, b), at, l)
      BY <2>1, <2>2, <3>1, <3>2 DEF Waiting, Idle
    <3> QED BY <2>1, <2>2, <3>1, <3>3 DEF at, Idle
  <2>4. CASE ~Continuous(b)
    <3> DEFINE p == Placed(b)
    <3>1. p = WakeReset(GateReset(b))
      BY <2>4 DEF Placed
    <3>2. p \in Buffer /\ p.length = 0 /\ p.preroll = 0 /\ p.voiced = 0 /\ p.wake = 0
      <4> DEFINE g == GateReset(b)
      <4>1. None \in Time
        BY DEF Time
      <4>2. g \in Buffer /\ g.length = 0 /\ g.preroll = 0 /\ g.voiced = 0
        BY <4>1 DEF GateReset, Buffer
      <4> HIDE DEF g
      <4>3. /\ WakeReset(g) \in Buffer /\ WakeReset(g).length = 0
            /\ WakeReset(g).preroll = 0 /\ WakeReset(g).voiced = 0 /\ WakeReset(g).wake = 0
        BY <4>2 DEF WakeReset, Buffer
      <4> QED BY <3>1, <4>3 DEF g
    <3>3. RowOf(h, b) = at
      BY <2>4 DEF RowOf
    <3> HIDE DEF p, at
    <3>4. l # None => l.to \in Nat /\ l.to <= at
      BY <1>1, <2>1
    <3>5. Waiting(p, at, at, l)
      BY <1>1, <3>2, <3>4, GateAssumption DEF Waiting
    <3> QED BY <2>1, <3>2, <3>3, <3>5 DEF p, at, Idle
  <2> QED BY <2>3, <2>4
<1> QED BY <1>2, <1>3 DEF Begun

\* The preroll takes the frame in, and forgets its oldest one when it is full.
LEMMA PrerollWaits ==
    ASSUME NEW p \in Buffer, NEW begun, NEW at \in Nat, NEW l, Waiting(p, begun, at, l)
    PROVE  LET q == Prerolled(p, at)
           IN  /\ q \in Buffer /\ q.length = 0 /\ q.voiced = p.voiced /\ q.wake = p.wake
               /\ q.preroll \in Nat /\ q.preroll <= Preroll /\ q.preroll >= p.voiced + 1
               /\ q.prerollAt \in Nat /\ q.prerollAt + q.preroll = at + 1
               /\ l # None => l.to <= q.prerollAt
<1> DEFINE q == Prerolled(p, at)
<1>1. p.preroll \in Nat /\ p.voiced \in Nat
  BY DEF Buffer
<1>2. \A v \in Nat : v \in Time
  BY DEF Time
<1>3. CASE p.preroll = Preroll
  <2>1. p.preroll > 0 /\ p.prerollAt \in Nat
    BY <1>3, GateAssumption DEF Waiting
  <2> DEFINE v == p.prerollAt + 1
  <2>2. q = [ p EXCEPT !.prerollAt = v ] /\ v \in Time
    BY <1>2, <1>3, <2>1 DEF Prerolled
  <2> HIDE DEF q, v
  <2>3. /\ q \in Buffer /\ q.length = p.length /\ q.voiced = p.voiced /\ q.wake = p.wake
        /\ q.preroll = p.preroll /\ q.prerollAt = v
    BY <2>2 DEF Buffer
  <2>4. p.length = 0 /\ p.prerollAt + p.preroll = at /\ p.voiced < Start
        /\ (l # None => l.to \in Nat /\ l.to <= p.prerollAt)
    BY <2>1 DEF Waiting
  <2> QED BY <1>1, <1>3, <2>1, <2>3, <2>4, GateAssumption DEF v, q
<1>4. CASE p.preroll # Preroll
  <2> DEFINE n == p.preroll + 1
             v == IF p.preroll = 0 THEN at ELSE p.prerollAt
  <2>1. v \in Nat /\ n \in Nat /\ v \in Time
    BY <1>1, <1>2 DEF Waiting
  <2>2. q = [ p EXCEPT !.preroll = n, !.prerollAt = v ]
    BY <1>4 DEF Prerolled
  <2>3. n <= Preroll /\ n >= p.voiced + 1 /\ v + n = at + 1
    BY <1>1, <1>4, GateAssumption DEF Waiting
  <2>4. l # None => l.to <= v
    BY <1>1 DEF Waiting
  <2> HIDE DEF q, n, v
  <2>5. /\ q \in Buffer /\ q.length = p.length /\ q.voiced = p.voiced /\ q.wake = p.wake
        /\ q.preroll = n /\ q.prerollAt = v
    BY <2>1, <2>2 DEF Buffer
  <2> QED BY <2>1, <2>3, <2>4, <2>5 DEF Waiting, q
<1> QED BY <1>3, <1>4

\* A frame that finds the gate closed leaves it closed, or opens it upon a recording
\* that reaches back to the first of the loud frames.
LEMMA GateKeeps ==
    ASSUME now \in Nat \ {0}, NEW b \in Buffer, NEW h \in Heard, NEW l,
           NEW level \in Level, Begun(b, h, l), b.length = 0
    PROVE  /\ Accepted(b, level) \in Buffer
           /\ Listened(h, b, level) \in Heard
           /\ Sound(Accepted(b, level), Listened(h, b, level), l)
<1> DEFINE at == PacketStart(b)
           begun == RowOf(h, b)
           p == Placed(b)
           q == Prerolled(p, at)
           g == Gated(q, level, at)
           b2 == Accepted(b, level)
           h2 == Listened(h, b, level)
           n == p.wake + 1
           end == at + 1
<1>1. at \in Nat /\ at + 1 \in Nat
  BY PlacedBehind
<1>2. p \in Buffer /\ Waiting(p, begun, at, l) /\ h.due = {} /\ p.wake \in Nat
  BY PlacedWaits
<1>3. p.length = 0 /\ p.voiced \in Nat /\ p.voiced < Start
      /\ begun \in Nat /\ begun + p.voiced = at
      /\ (l # None => l.to \in Nat /\ l.to <= at)
  BY <1>2 DEF Waiting, Buffer
<1>4. /\ q \in Buffer /\ q.length = 0 /\ q.voiced = p.voiced /\ q.wake = p.wake
      /\ q.preroll \in Nat /\ q.preroll <= Preroll /\ q.preroll >= p.voiced + 1
      /\ q.prerollAt \in Nat /\ q.prerollAt + q.preroll = at + 1
      /\ l # None => l.to <= q.prerollAt
  <2> HIDE DEF p, begun, at
  <2> QED BY <1>1, <1>2, PrerollWaits
<1>5. /\ h2.run = IF level = "loud" THEN begun ELSE None
      /\ h2.due = IF level = "loud" /\ at + 1 - begun >= Start THEN begun .. at ELSE {}
      /\ h2.hole = 0
  BY <1>2 DEF Listened, RowOf
<1>6. h2 \in Heard
  <2>1. h2 = [ run |-> h2.run, due |-> h2.due, hole |-> h2.hole ]
    BY DEF Listened
  <2> HIDE DEF h2, at, begun
  <2>2. h2.run \in Time /\ h2.due \subseteq Nat /\ h2.hole \in Nat
    BY <1>1, <1>3, <1>5 DEF Time
  <2> QED BY <2>1, <2>2 DEF Heard
<1>7. b2 = [ g EXCEPT !.wake = @ + 1, !.lastInput = end, !.lastPacket = now ]
  BY <1>3 DEF Accepted, Ingest
<1>8. \A v \in Nat : v \in Time
  BY DEF Time
<1> DEFINE Same(f) == b2 = [ f EXCEPT !.wake = n, !.lastInput = end, !.lastPacket = now ]
<1>9. g \in Buffer /\ g.wake = p.wake =>
        /\ b2 \in Buffer /\ b2.length = g.length /\ b2.voiced = g.voiced
        /\ b2.preroll = g.preroll /\ b2.prerollAt = g.prerollAt
        /\ b2.started = g.started /\ b2.lastPcm = g.lastPcm /\ b2.trailing = g.trailing
        /\ b2.lastInput = end
  <2> SUFFICES ASSUME g \in Buffer, g.wake = p.wake
               PROVE  /\ b2 \in Buffer /\ b2.length = g.length /\ b2.voiced = g.voiced
                      /\ b2.preroll = g.preroll /\ b2.prerollAt = g.prerollAt
                      /\ b2.started = g.started /\ b2.lastPcm = g.lastPcm
                      /\ b2.trailing = g.trailing /\ b2.lastInput = end
    OBVIOUS
  <2>1. n \in Nat /\ end \in Time /\ now \in Nat
    BY <1>1, <1>2, <1>8
  <2>2. Same(g)
    BY <1>7
  <2> HIDE DEF n, end, g, b2, p
  <2> QED BY <2>1, <2>2 DEF Buffer
<1>10. CASE level # "loud"
  <2>1. g = [ q EXCEPT !.voiced = 0 ]
    BY <1>10 DEF Gated
  <2> HIDE DEF g, q
  <2>2. /\ g \in Buffer /\ g.length = 0 /\ g.wake = p.wake /\ g.voiced = 0
        /\ g.preroll = q.preroll /\ g.prerollAt = q.prerollAt
    BY <1>4, <2>1 DEF Buffer
  <2>3. b2 \in Buffer /\ b2.length = 0 /\ b2.voiced = 0 /\ b2.lastInput = at + 1
        /\ b2.preroll = q.preroll /\ b2.prerollAt = q.prerollAt
    BY <1>9, <2>2
  <2>4. h2.run = None /\ h2.due = {}
    BY <1>5, <1>10
  <2> HIDE DEF b2, h2, at, p, begun
  <2>5. Idle(b2, h2, l)
    BY <1>4, <2>3, <2>4, GateAssumption DEF Idle
  <2>6. Sound(b2, h2, l)
    BY <1>1, <1>3, <1>4, <2>3, <2>5 DEF Sound
  <2> QED BY <1>6, <2>3, <2>6 DEF b2, h2
<1>11. CASE level = "loud" /\ p.voiced + 1 < Start
  <2> DEFINE w == q.voiced + 1
  <2>1. g = [ q EXCEPT !.voiced = w ] /\ w \in Nat
    <3>1. ~(level # "loud") /\ ~(q.voiced + 1 >= Start)
      BY <1>3, <1>4, <1>11, GateAssumption
    <3> QED BY <1>3, <1>4, <3>1 DEF Gated
  <2> HIDE DEF g, q, w
  <2>2. /\ g \in Buffer /\ g.length = 0 /\ g.wake = p.wake /\ g.voiced = w
        /\ g.preroll = q.preroll /\ g.prerollAt = q.prerollAt
    BY <1>4, <2>1 DEF Buffer
  <2>3. b2 \in Buffer /\ b2.length = 0 /\ b2.voiced = p.voiced + 1 /\ b2.lastInput = at + 1
        /\ b2.preroll = q.preroll /\ b2.prerollAt = q.prerollAt
    BY <1>4, <1>9, <2>2 DEF w
  <2>4. at + 1 - begun = p.voiced + 1
    <3> HIDE DEF at, begun, p
    <3> QED BY <1>1, <1>3
  <2>5. h2.run = begun /\ h2.due = {}
    <3>1. ~(at + 1 - begun >= Start)
      <4> HIDE DEF at, begun, p
      <4> QED BY <1>1, <1>3, <1>11, <2>4, GateAssumption
    <3> HIDE DEF at, begun, p, h2
    <3> QED BY <1>5, <1>11, <3>1
  <2> HIDE DEF b2, h2, at, p, begun
  <2>6. begun # None
    BY <1>3, GateAssumption
  <2>7. Idle(b2, h2, l)
    BY <1>1, <1>3, <1>4, <1>11, <2>3, <2>5, <2>6 DEF Idle
  <2>8. Sound(b2, h2, l)
    BY <1>1, <1>3, <1>4, <2>3, <2>7 DEF Sound
  <2> QED BY <1>6, <2>3, <2>8 DEF b2, h2
<1>12. CASE level = "loud" /\ p.voiced + 1 >= Start
  <2> DEFINE w == q.voiced + 1
             from == q.prerollAt
             len == q.preroll
  <2>1. g = [ q EXCEPT !.voiced = w, !.started = from, !.length = len,
                       !.lastPcm = end, !.trailing = 0 ]
    <3>1. ~(level # "loud") /\ q.voiced + 1 >= Start
      BY <1>4, <1>12
    <3> QED BY <3>1 DEF Gated, Opened
  <2>2. w \in Nat /\ from \in Time /\ len \in Nat /\ end \in Time
    BY <1>1, <1>3, <1>4, <1>8
  <2> HIDE DEF g, q, w, from, len, end
  <2>3. /\ g \in Buffer /\ g.length = len /\ g.wake = p.wake /\ g.started = from
        /\ g.lastPcm = end /\ g.trailing = 0 /\ g.preroll = q.preroll
    BY <1>4, <2>1, <2>2 DEF Buffer
  <2>4. /\ b2 \in Buffer /\ b2.length = q.preroll /\ b2.started = q.prerollAt
        /\ b2.lastPcm = at + 1 /\ b2.trailing = 0 /\ b2.lastInput = at + 1
        /\ b2.preroll = q.preroll
    BY <1>9, <2>3 DEF from, len, end
  <2>5. h2.run = begun /\ h2.hole = 0 /\ \A x \in h2.due : x \in Nat /\ begun <= x /\ x <= at
    <3> HIDE DEF at, begun, p, h2
    <3> QED BY <1>1, <1>3, <1>5, <1>12
  <2> HIDE DEF b2, h2, at, p, begun
  <2>6. q.prerollAt <= begun
    BY <1>1, <1>3, <1>4
  <2>7. q.preroll > 0
    BY <1>3, <1>4
  <2>8. \A x \in h2.due : b2.started <= x /\ x < b2.lastPcm
    BY <1>1, <1>3, <1>4, <2>4, <2>5, <2>6
  <2>9. Recording(b2, h2, l)
    BY <1>1, <1>3, <1>4, <2>4, <2>5, <2>6, <2>7, <2>8 DEF Recording
  <2>10. l # None => l.to \in Nat /\ l.to <= b2.lastInput
    BY <1>1, <1>3, <2>4
  <2>11. Sound(b2, h2, l)
    BY <1>1, <1>4, <2>4, <2>7, <2>9, <2>10 DEF Sound
  <2> QED BY <1>6, <2>4, <2>11 DEF b2, h2
<1>13. level = "loud" => p.voiced + 1 < Start \/ p.voiced + 1 >= Start
  <2> HIDE DEF p
  <2> QED BY <1>3, GateAssumption
<1> QED BY <1>10, <1>11, <1>12, <1>13

\* Whatever the state of the gate.
LEMMA AcceptKeeps ==
    ASSUME now \in Nat \ {0}, NEW b \in Buffer, NEW h \in Heard, NEW l,
           NEW level \in Level, Begun(b, h, l)
    PROVE  /\ Accepted(b, level) \in Buffer
           /\ Listened(h, b, level) \in Heard
           /\ Sound(Accepted(b, level), Listened(h, b, level), l)
<1>1. CASE b.length = 0
  BY <1>1, GateKeeps
<1>2. CASE b.length > 0
  <2>1. Sound(b, h, l)
    BY <1>2 DEF Begun, NewBuffer
  <2> QED BY <1>2, <2>1, AppendKeeps
<1> QED BY <1>1, <1>2 DEF Buffer

-----------------------------------------------------------------------------
(* Closing a segment, and the probes. *)

\* A closed segment follows the one before it, and leaves nothing behind: what
\* was due is in it, unless it is lost.
LEMMA CloseKeeps ==
    ASSUME NEW b \in Buffer, NEW h \in Heard, NEW l, NEW kept \in BOOLEAN,
           Sound(b, h, l), b.length > 0
    PROVE  LET segment == Segment(b, h)
               rest == Recorded(h, segment, kept)
           IN  /\ Closed(b) \in Buffer
               /\ rest \in Heard
               /\ Sound(Closed(b), rest, IF kept THEN segment ELSE l)
               /\ InOrder(l, segment)
<1> DEFINE segment == Segment(b, h)
           rest == Recorded(h, segment, kept)
           c == Closed(b)
           after == IF kept THEN segment ELSE l
<1>1. Recording(b, h, l) /\ b.lastInput \in Nat /\ b.length \in Nat /\ b.trailing \in Nat
  BY DEF Sound, Buffer
<1>2. Trimmed(b) = b.trailing
  BY <1>1 DEF Trimmed, Recording
<1>3. /\ segment.from = b.started /\ segment.to = b.lastPcm
      /\ segment.length = b.length - b.trailing /\ segment.hole = h.hole
  BY <1>2 DEF Segment
<1>4. b.started \in Nat /\ b.lastPcm \in Nat /\ b.lastPcm <= b.lastInput
  BY <1>1 DEF Recording
<1>5. InOrder(l, segment)
  <2> HIDE DEF segment
  <2>1. l # None => l.to <= segment.from
    BY <1>1, <1>3 DEF Recording
  <2>2. segment.from + segment.length <= segment.to
    BY <1>1, <1>3, <1>4 DEF Recording
  <2>3. segment.hole = 0 => segment.from + segment.length = segment.to
    BY <1>1, <1>3, <1>4 DEF Recording
  <2> QED BY <2>1, <2>2, <2>3 DEF InOrder
<1>6. rest.run = None /\ rest.due = {}
  <2>1. \A x \in h.due : x \in Nat /\ b.started <= x /\ x < b.lastPcm
    BY <1>1 DEF Recording, Heard
  <2>2. h.due \ (segment.from .. (segment.to - 1)) = {}
    <3> HIDE DEF segment
    <3> QED BY <1>3, <1>4, <2>1
  <2> HIDE DEF segment
  <2> QED BY <2>2 DEF Recorded
<1>7. rest \in Heard
  <2>1. rest = [ run |-> None, hole |-> 0, due |-> {} ]
    <3> HIDE DEF segment
    <3> QED BY <1>6 DEF Recorded
  <2> QED BY <2>1 DEF Heard, Time
<1>8. /\ c \in Buffer /\ c.length = 0 /\ c.preroll = 0 /\ c.voiced = 0
      /\ c.lastInput = b.lastInput
  <2> DEFINE cut == [ b EXCEPT !.length = 0, !.started = None ]
             reset == GateReset(cut)
  <2>1. None \in Time
    BY DEF Time
  <2>2. cut \in Buffer /\ cut.length = 0 /\ cut.lastInput = b.lastInput
    BY <2>1 DEF Buffer
  <2> HIDE DEF cut
  <2>3. /\ reset \in Buffer /\ reset.length = 0 /\ reset.preroll = 0 /\ reset.voiced = 0
        /\ reset.lastInput = b.lastInput
    BY <2>1, <2>2 DEF GateReset, Buffer
  <2>4. c = WakeReset(reset)
    BY DEF Closed, cut
  <2> HIDE DEF reset, c
  <2> QED BY <2>3, <2>4 DEF WakeReset, Buffer
<1>9. after # None => after.to \in Nat /\ after.to <= c.lastInput
  BY <1>3, <1>4, <1>8 DEF Sound
<1>10. Sound(c, rest, after)
  <2> HIDE DEF c, rest, after
  <2>1. Idle(c, rest, after)
    BY <1>6, <1>8, GateAssumption DEF Idle
  <2> QED BY <1>1, <1>8, <1>9, <2>1, GateAssumption DEF Sound
<1> QED BY <1>5, <1>7, <1>8, <1>10

\* A probe takes the wake stream only.
LEMMA ProbeKeeps ==
    ASSUME now \in Nat, NEW b \in Buffer, NEW h, NEW l, NEW force \in BOOLEAN,
           Sound(b, h, l)
    PROVE  Probed(b, force) \in Buffer /\ Sound(Probed(b, force), h, l)
<1>1. CASE ~ProbeDue(b, force)
  BY <1>1 DEF Probed
<1>2. CASE ProbeDue(b, force)
  <2> DEFINE p == Probed(b, force)
  <2>1. p = [ b EXCEPT !.wake = 0, !.probed = TRUE, !.lastProbe = now ]
    BY <1>2 DEF Probed
  <2> HIDE DEF p
  <2>2. /\ p \in Buffer /\ p.length = b.length /\ p.started = b.started
        /\ p.lastPcm = b.lastPcm /\ p.trailing = b.trailing /\ p.lastInput = b.lastInput
        /\ p.voiced = b.voiced /\ p.preroll = b.preroll /\ p.prerollAt = b.prerollAt
    BY <2>1 DEF Buffer
  <2>3. Idle(b, h, l) => Idle(p, h, l)
    BY <2>2 DEF Idle
  <2>4. Recording(b, h, l) => Recording(p, h, l)
    BY <2>2 DEF Recording
  <2>5. Sound(p, h, l)
    BY <2>2, <2>3, <2>4 DEF Sound
  <2> QED BY <2>2, <2>5 DEF p
<1> QED BY <1>1, <1>2

-----------------------------------------------------------------------------
(* The buffers of all speakers. *)

Kept ==
    /\ buffers \in [ User -> Buffer \cup { None } ]
    /\ heard \in [ User -> Heard ]
    /\ BuffersSound

UserSound(b, h, l) ==
    IF b = None THEN h = Unheard /\ l = None ELSE Sound(b, h, l)

\* A packet keeps every buffer sound.
LEMMA HearKeeps ==
    ASSUME now \in Nat \ {0}, Kept, NEW u \in User, NEW level \in Level,
           Hear(u, level), UNCHANGED last
    PROVE  Kept'
<1> DEFINE b == IF buffers[u] = None THEN NewBuffer ELSE buffers[u]
           b2 == Accepted(b, level)
           h2 == Listened(heard[u], b, level)
<1>1. heard[u] \in Heard /\ buffers[u] \in Buffer \cup { None }
  BY DEF Kept
<1>2. Begun(b, heard[u], last[u])
  BY <1>1 DEF Kept, BuffersSound, Begun
<1>3. b \in Buffer
  BY <1>1, NewBufferType
<1> HIDE DEF b
<1>4. b2 \in Buffer /\ h2 \in Heard /\ Sound(b2, h2, last[u])
  BY <1>1, <1>2, <1>3, AcceptKeeps
<1>5. buffers' = [ buffers EXCEPT ![u] = b2 ] /\ heard' = [ heard EXCEPT ![u] = h2 ]
  BY DEF Hear, b
<1> HIDE DEF b2, h2
<1>6. buffers' \in [ User -> Buffer \cup { None } ] /\ heard' \in [ User -> Heard ]
  BY <1>4, <1>5 DEF Kept
<1>7. \A v \in User : UserSound(buffers'[v], heard'[v], last'[v])
  <2> SUFFICES ASSUME NEW v \in User PROVE UserSound(buffers'[v], heard'[v], last'[v])
    OBVIOUS
  <2>1. CASE v = u
    <3>1. buffers'[v] = b2 /\ heard'[v] = h2 /\ last'[v] = last[u]
      BY <1>5, <2>1 DEF Kept
    <3> QED BY <1>4, <3>1, NoneAssumption DEF UserSound
  <2>2. CASE v # u
    <3>1. buffers'[v] = buffers[v] /\ heard'[v] = heard[v] /\ last'[v] = last[v]
      BY <1>5, <2>2 DEF Kept
    <3> QED BY <3>1 DEF UserSound, Kept, BuffersSound
  <2> QED BY <2>1, <2>2
<1> QED BY <1>6, <1>7 DEF Kept, BuffersSound, UserSound

\* Closing some of the recordings keeps the others as they are, or probed.
LEMMA CloseSome ==
    ASSUME Kept, NEW closing, NEW broken, Close(closing, broken),
           \A u \in User : u \in closing => buffers[u] # None /\ buffers[u].length > 0,
           buffers' = [ u \in User |-> buffers'[u] ],
           \A u \in User : u \in closing => buffers'[u] = Closed(buffers[u]),
           \A u \in User : u \notin closing =>
              \/ buffers[u] = None /\ buffers'[u] = None
              \/ /\ buffers[u] # None /\ buffers'[u] \in Buffer
                 /\ Sound(buffers'[u], heard[u], last[u])
    PROVE  /\ Kept'
           /\ \A u \in User : last'[u] # last[u] => InOrder(last[u], last'[u])
<1> DEFINE kept(u) == u \notin broken
                        /\ Segment(buffers[u], heard[u]).length >= MinUtterance
           Fine(u) == /\ buffers'[u] \in Buffer \cup { None }
                      /\ heard'[u] \in Heard
                      /\ UserSound(buffers'[u], heard'[u], last'[u])
                      /\ last'[u] # last[u] => InOrder(last[u], last'[u])
<1>1. /\ heard' = [ u \in User |->
               IF u \in closing
               THEN Recorded(heard[u], Segment(buffers[u], heard[u]), kept(u))
               ELSE heard[u] ]
      /\ last' = [ u \in User |->
               IF u \in closing /\ kept(u)
               THEN Segment(buffers[u], heard[u]) ELSE last[u] ]
  BY DEF Close
<1>2. \A u \in User : Fine(u)
  <2> SUFFICES ASSUME NEW u \in User PROVE Fine(u)
    OBVIOUS
  <2>1. buffers[u] \in Buffer \cup { None } /\ heard[u] \in Heard
    BY DEF Kept
  <2>2. CASE u \in closing
    <3> DEFINE b == buffers[u]
               h == heard[u]
               segment == Segment(b, h)
               k == kept(u)
    <3>1. b \in Buffer /\ b.length > 0 /\ Sound(b, h, last[u])
      BY <2>1, <2>2 DEF Kept, BuffersSound
    <3>2. k \in BOOLEAN
      OBVIOUS
    <3>3. /\ buffers'[u] = Closed(b) /\ heard'[u] = Recorded(h, segment, k)
          /\ last'[u] = IF k THEN segment ELSE last[u]
      <4> HIDE DEF k, segment
      <4>1. heard'[u] = Recorded(h, segment, k)
        BY <1>1, <2>2 DEF k, segment
      <4>2. last'[u] = IF k THEN segment ELSE last[u]
        BY <1>1, <2>2 DEF k, segment
      <4> QED BY <2>2, <4>1, <4>2
    <3> HIDE DEF k
    <3>4. /\ Closed(b) \in Buffer /\ Recorded(h, segment, k) \in Heard
          /\ Sound(Closed(b), Recorded(h, segment, k), IF k THEN segment ELSE last[u])
          /\ InOrder(last[u], segment)
      BY <2>1, <3>1, <3>2, CloseKeeps
    <3> HIDE DEF b, h, segment
    <3>5. UserSound(buffers'[u], heard'[u], last'[u])
      BY <3>3, <3>4, NoneAssumption DEF UserSound
    <3> QED BY <3>3, <3>4, <3>5
  <2>3. CASE u \notin closing
    <3>1. heard'[u] = heard[u] /\ last'[u] = last[u]
      BY <1>1, <2>3
    <3>2. CASE buffers[u] = None /\ buffers'[u] = None
      BY <2>1, <3>1, <3>2 DEF UserSound, Kept, BuffersSound
    <3>3. CASE buffers[u] # None /\ buffers'[u] \in Buffer
                /\ Sound(buffers'[u], heard[u], last[u])
      BY <2>1, <3>1, <3>3, NoneAssumption DEF UserSound
    <3> QED BY <2>3, <3>2, <3>3
  <2> QED BY <2>2, <2>3
<1>3. buffers' \in [ User -> Buffer \cup { None } ] /\ heard' \in [ User -> Heard ]
  BY <1>1, <1>2
<1> QED BY <1>2, <1>3 DEF Kept, BuffersSound, UserSound

\* A user whose buffer is closed has one, with speech in it.
LEMMA KeptSound ==
    ASSUME Kept, NEW u \in User, buffers[u] # None
    PROVE  buffers[u] \in Buffer /\ Sound(buffers[u], heard[u], last[u])
BY DEF Kept, BuffersSound

-----------------------------------------------------------------------------
(* Ticks. *)

LEMMA NoTickType == NoTick \in Tick
<1>1. << >> \in [ {} -> Packet ]
  OBVIOUS
<1>2. << >> \in UNION { [ S -> Packet ] : S \in SUBSET Ssrc }
  BY <1>1
<1> QED BY <1>2 DEF NoTick, Tick

LEMMA WrittenType ==
    ASSUME tick \in Tick, NEW s, NEW touched, touched \subseteq User
    PROVE  Written(s, touched) \in Tick
<1> DEFINE left == [ t \in DOMAIN tick.packets \ {s} |-> tick.packets[t] ]
<1>1. PICK S \in SUBSET Ssrc : tick.packets \in [ S -> Packet ]
  BY DEF Tick
<1>2. left \in [ S \ {s} -> Packet ]
  BY <1>1
<1>3. left \in UNION { [ T -> Packet ] : T \in SUBSET Ssrc }
  <2>1. S \ {s} \in SUBSET Ssrc
    OBVIOUS
  <2> QED BY <1>2, <2>1
<1>4. Written(s, touched) =
        [ tick EXCEPT !.packets = left, !.silent = tick.silent \ {s},
                      !.touched = tick.touched \cup touched ]
  BY DEF Written
<1> HIDE DEF left
<1>5. tick.silent \ {s} \in SUBSET Ssrc /\ tick.touched \cup touched \in SUBSET User
  BY DEF Tick
<1> QED BY <1>3, <1>4, <1>5 DEF Tick

-----------------------------------------------------------------------------
(* The steps. *)

\* TypeOK without the recordings, whose beginnings and ends BuffersSound has.
Shape ==
    /\ now \in Nat \ {0}
    /\ mode \in { "local_buffering", "deafened_paused", "ended" }
    /\ streams \in [ Ssrc -> User \cup { None } ]
    /\ tick \in Tick

LEMMA Parts == IInv <=> Shape /\ Kept /\ TickWhileLive /\ DeafKeepsNothing
<1>1. ASSUME Kept PROVE \A u \in User : buffers[u] # None /\ buffers[u].length > 0 =>
                           buffers[u].started \in Nat /\ buffers[u].lastPcm \in Nat
  BY <1>1 DEF Kept, BuffersSound, Sound, Recording
<1> QED BY <1>1 DEF IInv, TypeOK, Shape, Kept

LEMMA InitSound == Init => IInv
<1> SUFFICES ASSUME Init PROVE Shape /\ Kept /\ TickWhileLive /\ DeafKeepsNothing
  BY Parts
<1>1. Unheard \in Heard
  BY DEF Unheard, Heard, Time
<1> QED BY <1>1, NoTickType DEF Init, Shape, Kept, BuffersSound, TickWhileLive, DeafKeepsNothing

\* The order of the segments, in one step.
Ordered ==
    \A u \in User : last'[u] # last[u] /\ last'[u] # None => InOrder(last[u], last'[u])

Goal == Shape' /\ Kept' /\ TickWhileLive' /\ DeafKeepsNothing' /\ Ordered

\* A user without buffered audio, or unmapped, is left alone.
LEMMA UntouchedKept ==
    ASSUME Kept, UNCHANGED << buffers, heard, last >>
    PROVE  Kept' /\ Ordered
BY DEF Kept, BuffersSound, Ordered

\* A packet of a tick.
LEMMA PacketStep ==
    ASSUME IInv, NEW s \in Ssrc, WritePacket(s)
    PROVE  Goal
<1> DEFINE u == streams[s]
           packet == tick.packets[s]
           touched == IF packet = "concealed" \/ u = None THEN {} ELSE {u}
<1>1. Shape /\ Kept /\ TickWhileLive
  BY Parts
<1>2. Live
  <2>1. DOMAIN NoTick.packets = {}
    BY DEF NoTick
  <2>2. tick # NoTick
    BY <2>1 DEF WritePacket
  <2> QED BY <1>1, <2>2 DEF TickWhileLive, Live
<1>3. u \in User \cup { None } /\ touched \subseteq User
  BY <1>1 DEF Shape
<1>4. /\ tick' = Written(s, touched) /\ now' = now /\ mode' = mode
      /\ streams' = streams /\ last' = last
      /\ IF u = None \/ packet = "concealed"
         THEN UNCHANGED << buffers, heard >>
         ELSE IF packet = "lost" THEN HearLoss(u) ELSE Hear(u, packet)
  BY DEF WritePacket
<1>5. packet \in Packet
  <2>1. PICK S \in SUBSET Ssrc : tick.packets \in [ S -> Packet ]
    BY <1>1 DEF Shape, Tick
  <2>2. s \in S
    BY <2>1 DEF WritePacket
  <2> QED BY <2>1, <2>2
<1>6. Shape' /\ TickWhileLive' /\ DeafKeepsNothing' /\ mode' = "local_buffering"
  <2>1. Written(s, touched) \in Tick
    BY <1>1, <1>3, WrittenType DEF Shape
  <2> HIDE DEF touched
  <2> QED BY <1>1, <1>2, <1>4, <2>1 DEF Shape, TickWhileLive, DeafKeepsNothing, Live
<1>7. Kept'
  <2>1. CASE u = None \/ packet = "concealed"
    BY <1>1, <1>4, <2>1, UntouchedKept
  <2>2. CASE u # None /\ packet = "lost"
    <3>1. HearLoss(u) /\ u \in User
      <4>1. packet # "concealed"
        BY <2>2
      <4> QED BY <1>3, <1>4, <2>2, <4>1
    <3>2. "quiet" \in Level /\ now \in Nat \ {0}
      BY <1>1 DEF Level, Shape
    <3> HIDE DEF u
    <3>3. CASE Buffering(u)
      BY <1>1, <1>4, <3>1, <3>2, <3>3, HearKeeps DEF HearLoss
    <3>4. CASE ~Buffering(u)
      BY <1>1, <1>4, <3>1, <3>4, UntouchedKept DEF HearLoss
    <3> QED BY <3>3, <3>4
  <2>3. CASE u # None /\ packet \in Level
    <3>1. packet # "concealed" /\ packet # "lost"
      BY <2>3 DEF Level
    <3>2. Hear(u, packet) /\ u \in User
      BY <1>3, <1>4, <2>3, <3>1
    <3>3. now \in Nat \ {0}
      BY <1>1 DEF Shape
    <3> HIDE DEF u, packet
    <3> QED BY <1>1, <1>4, <2>3, <3>2, <3>3, HearKeeps
  <2> QED BY <1>5, <2>1, <2>2, <2>3 DEF Packet
<1>8. Ordered
  BY <1>4 DEF Ordered
<1> QED BY <1>6, <1>7, <1>8 DEF Goal

\* The silence of a stream.
LEMMA SilenceStep ==
    ASSUME IInv, NEW s \in Ssrc, WriteSilence(s)
    PROVE  Goal
<1> DEFINE u == streams[s]
           touched == IF u = None THEN {} ELSE {u}
<1>1. Shape /\ Kept /\ TickWhileLive
  BY Parts
<1>2. Live
  <2>1. NoTick.silent = {}
    BY DEF NoTick
  <2>2. tick # NoTick
    BY <2>1 DEF WriteSilence
  <2> QED BY <1>1, <2>2 DEF TickWhileLive, Live
<1>3. u \in User \cup { None } /\ touched \subseteq User
  BY <1>1 DEF Shape
<1>4. /\ tick' = Written(s, touched) /\ now' = now /\ mode' = mode
      /\ streams' = streams /\ last' = last
      /\ IF u = None \/ u \in tick.touched
         THEN UNCHANGED << buffers, heard >>
         ELSE HearSilence(u)
  BY DEF WriteSilence
<1>5. Shape' /\ TickWhileLive' /\ DeafKeepsNothing' /\ mode' = "local_buffering"
  <2>1. Written(s, touched) \in Tick
    BY <1>1, <1>3, WrittenType DEF Shape
  <2> HIDE DEF touched
  <2> QED BY <1>1, <1>2, <1>4, <2>1 DEF Shape, TickWhileLive, DeafKeepsNothing, Live
<1>6. Kept'
  <2>1. CASE u = None \/ u \in tick.touched
    BY <1>1, <1>4, <2>1, UntouchedKept
  <2>2. CASE ~(u = None \/ u \in tick.touched)
    <3>1. HearSilence(u) /\ u \in User /\ u \notin tick.touched
      BY <1>3, <1>4, <2>2
    <3>2. "quiet" \in Level /\ now \in Nat \ {0}
      BY <1>1 DEF Level, Shape
    <3> HIDE DEF u
    <3>3. CASE Buffering(u)
      <4>1. Hear(u, "quiet")
        BY <3>1, <3>3 DEF HearSilence, Hear, Buffering
      <4> QED BY <1>1, <1>4, <3>1, <3>2, <4>1, HearKeeps
    <3>4. CASE ~Buffering(u)
      BY <1>1, <1>4, <3>1, <3>4, UntouchedKept DEF HearSilence
    <3> QED BY <3>3, <3>4
  <2> QED BY <2>1, <2>2
<1>7. Ordered
  BY <1>4 DEF Ordered
<1> QED BY <1>5, <1>6, <1>7 DEF Goal

\* The end of a tick.
LEMMA TickEndStep ==
    ASSUME IInv, TickEnd
    PROVE  Goal
<1>1. Shape /\ Kept /\ TickWhileLive
  BY Parts
<1>2. Live
  <2>1. tick # NoTick
    BY DEF TickEnd, NoTick
  <2> QED BY <1>1, <2>1 DEF TickWhileLive, Live
<1>3. /\ tick' = NoTick /\ now' = now + 1 /\ mode' = mode
      /\ streams' = streams /\ heard' = heard /\ last' = last
      /\ buffers' = [ u \in User |->
            IF u \in tick.touched /\ buffers[u] # None
            THEN Probed(buffers[u], FALSE) ELSE buffers[u] ]
  BY DEF TickEnd
<1>4. Shape' /\ TickWhileLive' /\ DeafKeepsNothing'
  BY <1>1, <1>2, <1>3, NoTickType DEF Shape, TickWhileLive, DeafKeepsNothing, Live
<1>5. \A u \in User : /\ buffers'[u] \in Buffer \cup { None }
                      /\ UserSound(buffers'[u], heard'[u], last'[u])
  <2> SUFFICES ASSUME NEW u \in User
               PROVE  /\ buffers'[u] \in Buffer \cup { None }
                      /\ UserSound(buffers'[u], heard'[u], last'[u])
    OBVIOUS
  <2>1. heard'[u] = heard[u] /\ last'[u] = last[u]
    BY <1>3
  <2>2. CASE u \in tick.touched /\ buffers[u] # None
    <3>1. buffers[u] \in Buffer /\ Sound(buffers[u], heard[u], last[u])
      BY <1>1, <2>2, KeptSound
    <3>2. buffers'[u] = Probed(buffers[u], FALSE) /\ now \in Nat
      BY <1>1, <1>3, <2>2 DEF Shape
    <3>3. buffers'[u] \in Buffer /\ Sound(buffers'[u], heard[u], last[u])
      BY <3>1, <3>2, ProbeKeeps
    <3> QED BY <2>1, <3>3, NoneAssumption DEF UserSound
  <2>3. CASE ~(u \in tick.touched /\ buffers[u] # None)
    <3>1. buffers'[u] = buffers[u]
      BY <1>3, <2>3
    <3> QED BY <1>1, <2>1, <3>1 DEF UserSound, Kept, BuffersSound
  <2> QED BY <2>2, <2>3
<1>6. Kept'
  <2>1. buffers' \in [ User -> Buffer \cup { None } ]
    BY <1>3, <1>5
  <2> QED BY <1>1, <1>3, <1>5, <2>1 DEF Kept, BuffersSound, UserSound
<1>7. Ordered
  BY <1>3 DEF Ordered
<1> QED BY <1>4, <1>6, <1>7 DEF Goal

\* A pass of the flush loop.
LEMMA FlushStep ==
    ASSUME IInv, NEW broken, FlushReady(broken)
    PROVE  Goal
<1> DEFINE ready == { u \in User : buffers[u] # None /\ ShouldFlush(buffers[u]) }
<1>1. Shape /\ Kept
  BY Parts
<1>2. /\ tick = NoTick /\ Live /\ Close(ready, broken)
      /\ buffers' = [ u \in User |->
            IF u \in ready THEN Closed(buffers[u]) ELSE buffers[u] ]
      /\ UNCHANGED << now, mode, streams, tick >>
  BY DEF FlushReady
<1>3. \A u \in User : u \in ready => buffers[u] # None /\ buffers[u].length > 0
  BY DEF ShouldFlush
<1>4. \A u \in User : u \notin ready =>
         \/ buffers[u] = None /\ buffers'[u] = None
         \/ /\ buffers[u] # None /\ buffers'[u] \in Buffer
            /\ Sound(buffers'[u], heard[u], last[u])
  <2> SUFFICES ASSUME NEW u \in User, u \notin ready
               PROVE  \/ buffers[u] = None /\ buffers'[u] = None
                      \/ /\ buffers[u] # None /\ buffers'[u] \in Buffer
                         /\ Sound(buffers'[u], heard[u], last[u])
    OBVIOUS
  <2>1. buffers'[u] = buffers[u]
    BY <1>2
  <2> QED BY <1>1, <2>1, KeptSound
<1>5. \A u \in User : u \in ready => buffers'[u] = Closed(buffers[u])
  BY <1>2
<1>6. buffers' = [ u \in User |-> buffers'[u] ]
  BY <1>2
<1> HIDE DEF ready
<1>7. Kept' /\ \A u \in User : last'[u] # last[u] => InOrder(last[u], last'[u])
  BY <1>1, <1>2, <1>3, <1>4, <1>5, <1>6, CloseSome
<1> QED BY <1>1, <1>2, <1>7 DEF Goal, Shape, TickWhileLive, DeafKeepsNothing, Ordered, Live

\* A session is finished.
LEMMA FinishStep ==
    ASSUME IInv, NEW broken, Finish(broken)
    PROVE  Goal
<1> DEFINE open == { u \in User : buffers[u] # None /\ buffers[u].length > 0 }
<1>1. Shape /\ Kept
  BY Parts
<1>2. /\ tick = NoTick /\ Close(open, broken) /\ mode' = "ended"
      /\ buffers' = [ u \in User |->
            CASE u \in open          -> Closed(buffers[u])
              [] buffers[u] = None   -> None
              [] OTHER               -> Probed(buffers[u], TRUE) ]
      /\ UNCHANGED << now, streams, tick >>
  BY DEF Finish
<1>3. \A u \in User : u \in open => buffers[u] # None /\ buffers[u].length > 0
  OBVIOUS
<1>4. \A u \in User : u \notin open =>
         \/ buffers[u] = None /\ buffers'[u] = None
         \/ /\ buffers[u] # None /\ buffers'[u] \in Buffer
            /\ Sound(buffers'[u], heard[u], last[u])
  <2> SUFFICES ASSUME NEW u \in User, u \notin open
               PROVE  \/ buffers[u] = None /\ buffers'[u] = None
                      \/ /\ buffers[u] # None /\ buffers'[u] \in Buffer
                         /\ Sound(buffers'[u], heard[u], last[u])
    OBVIOUS
  <2>1. CASE buffers[u] = None
    <3> HIDE DEF open
    <3>1. buffers'[u] = None
      BY <1>2, <2>1
    <3> QED BY <2>1, <3>1
  <2>2. CASE buffers[u] # None
    <3>1. buffers[u] \in Buffer /\ Sound(buffers[u], heard[u], last[u])
      BY <1>1, <2>2, KeptSound
    <3> HIDE DEF open
    <3>2. buffers'[u] = Probed(buffers[u], TRUE)
      BY <1>2, <2>2
    <3>3. now \in Nat
      BY <1>1 DEF Shape
    <3>4. buffers'[u] \in Buffer /\ Sound(buffers'[u], heard[u], last[u])
      BY <3>1, <3>2, <3>3, ProbeKeeps
    <3> QED BY <2>2, <3>4
  <2> QED BY <2>1, <2>2
<1>5. \A u \in User : u \in open => buffers'[u] = Closed(buffers[u])
  <2> SUFFICES ASSUME NEW u \in User, u \in open PROVE buffers'[u] = Closed(buffers[u])
    OBVIOUS
  <2>1. buffers[u] # None
    BY <1>3
  <2> HIDE DEF open
  <2> QED BY <1>2, <2>1
<1>6. buffers' = [ u \in User |-> buffers'[u] ]
  <2> HIDE DEF open
  <2> QED BY <1>2
<1> HIDE DEF open
<1>7. Kept' /\ \A u \in User : last'[u] # last[u] => InOrder(last[u], last'[u])
  BY <1>1, <1>2, <1>3, <1>4, <1>5, <1>6, CloseSome
<1> QED BY <1>1, <1>2, <1>7 DEF Goal, Shape, TickWhileLive, DeafKeepsNothing, Ordered

\* Deafening.
LEMMA DeafenStep ==
    ASSUME IInv, Deafen
    PROVE  Goal
<1>1. Shape /\ Kept
  BY Parts
<1>2. Unheard \in Heard
  BY DEF Unheard, Heard, Time
<1>3. /\ tick = NoTick /\ mode' = "deafened_paused"
      /\ buffers' = [ u \in User |-> None ] /\ heard' = [ u \in User |-> Unheard ]
      /\ last' = [ u \in User |-> None ] /\ UNCHANGED << now, streams, tick >>
  BY DEF Deafen
<1>4. Kept'
  BY <1>2, <1>3 DEF Kept, BuffersSound
<1> QED BY <1>1, <1>3, <1>4 DEF Goal, Shape, TickWhileLive, DeafKeepsNothing, Ordered

\* Every step keeps the invariant and the order of the segments.
LEMMA StepSound == IInv /\ [Next]_vars => IInv' /\ Ordered
<1> SUFFICES ASSUME IInv, [Next]_vars PROVE Goal
  <2>1. IInv' <=> Shape' /\ Kept' /\ TickWhileLive' /\ DeafKeepsNothing'
    BY Parts, PTL
  <2> QED BY <2>1 DEF Goal
<1>1. Shape /\ Kept /\ TickWhileLive /\ DeafKeepsNothing
  BY Parts
<1>2. ASSUME UNCHANGED << buffers, heard, last >>, Shape', TickWhileLive', DeafKeepsNothing'
      PROVE  Goal
  BY <1>1, <1>2, UntouchedKept DEF Goal
<1>3. CASE \E s \in Ssrc, u \in User : SpeakingState(s, u)
  <2>1. PICK s \in Ssrc, u \in User : SpeakingState(s, u)
    BY <1>3
  <2> QED BY <1>1, <1>2, <2>1
          DEF SpeakingState, Shape, TickWhileLive, DeafKeepsNothing
<1>4. CASE \E speaking \in SUBSET Ssrc :
             \E packets \in [ speaking -> Packet ], silent \in SUBSET (Ssrc \ speaking) :
                VoiceTick(packets, silent)
  <2>0. PICK speaking \in SUBSET Ssrc :
           \E packets \in [ speaking -> Packet ], silent \in SUBSET (Ssrc \ speaking) :
              VoiceTick(packets, silent)
    BY <1>4
  <2>1. PICK packets \in [ speaking -> Packet ], silent \in SUBSET (Ssrc \ speaking) :
           VoiceTick(packets, silent)
    BY <2>0
  <2>2. tick' \in Tick
    <3>1. packets \in UNION { [ S -> Packet ] : S \in SUBSET Ssrc }
      BY <2>1
    <3> QED BY <2>1, <3>1 DEF VoiceTick, Tick
  <2> QED BY <1>1, <1>2, <2>1, <2>2
          DEF VoiceTick, Shape, TickWhileLive, DeafKeepsNothing, Live
<1>5. CASE WriteTick
  BY <1>5, PacketStep, SilenceStep, TickEndStep DEF WriteTick
<1>6. CASE Elapse
  BY <1>1, <1>2, <1>6 DEF Elapse, Shape, TickWhileLive, DeafKeepsNothing
<1>7. CASE Flush
  BY <1>7, FlushStep DEF Flush
<1>8. CASE \E broken \in SUBSET User : Finish(broken)
  BY <1>8, FinishStep
<1>9. CASE Deafen
  BY <1>9, DeafenStep
<1>10. CASE Undeafen
  BY <1>1, <1>2, <1>10 DEF Undeafen, Shape, TickWhileLive, DeafKeepsNothing
<1>11. CASE UNCHANGED vars
  BY <1>1, <1>2, <1>11 DEF vars, Shape, TickWhileLive, DeafKeepsNothing
<1> QED BY <1>3, <1>4, <1>5, <1>6, <1>7, <1>8, <1>9, <1>10, <1>11 DEF Next

-----------------------------------------------------------------------------
(* The theorems. *)

\* The invariant holds throughout.
LEMMA Invariant == Spec => []IInv
<1>1. Init => IInv
  BY InitSound
<1>2. IInv /\ [Next]_vars => IInv'
  BY StepSound
<1> QED BY <1>1, <1>2, PTL DEF Spec

\* The variables have their types, and a recording in progress always has the
\* beginning and the end that closing it asks for (close_speaker_segment_with_reason).
THEOREM TypeCorrect == Spec => []TypeOK
<1>1. IInv => TypeOK
  BY DEF IInv
<1> QED BY <1>1, Invariant, PTL

\* No frame of speech long enough to open the gate is lost before a segment takes
\* it (ingest_stt_pcm, write_voice_tick), as long as the preroll holds what opens the
\* gate: this is GateAssumption, which the configuration does not enforce.
THEOREM SpeechStays == Spec => []SpeechKept
<1>1. IInv => SpeechKept
  <2> SUFFICES ASSUME IInv, NEW u \in User, heard[u].due # {}
               PROVE  /\ buffers[u] # None /\ buffers[u].length > 0
                      /\ \A at \in heard[u].due :
                           buffers[u].started <= at /\ at < buffers[u].lastPcm
    BY DEF SpeechKept
  <2>1. Kept
    BY Parts
  <2>2. buffers[u] # None
    BY <2>1 DEF Kept, BuffersSound, Unheard
  <2>3. buffers[u] \in Buffer /\ Sound(buffers[u], heard[u], last[u])
    BY <2>1, <2>2, KeptSound
  <2>4. buffers[u].length > 0
    BY <2>3 DEF Sound, Idle, Buffer
  <2> QED BY <2>2, <2>3, <2>4 DEF Sound, Recording
<1> QED BY <1>1, Invariant, PTL

\* The segments of a speaker follow one another, and each fills the time it claims
\* (packet_audio_bounds, close_speaker_segment_with_reason).
THEOREM SegmentsFollow == Spec => SegmentsInOrder
<1>1. IInv /\ [Next]_vars =>
        [\A u \in User : last'[u] # last[u] /\ last'[u] # None
                            => InOrder(last[u], last'[u])]_vars
  BY StepSound DEF Ordered
<1> QED BY <1>1, Invariant, PTL DEF Spec, SegmentsInOrder

\* A deafened room keeps no audio (set_deafened).
THEOREM DeafenedForgotten == Spec => []DeafKeepsNothing
<1>1. IInv => DeafKeepsNothing
  BY DEF IInv
<1> QED BY <1>1, Invariant, PTL

=============================================================================
