------------------------- MODULE WakeActivationProofs -------------------------
(***************************************************************************)
(* Proofs about the wake activations of a room, for any number of wakes,    *)
(* stretches of speech and workers: the variables have their types, the     *)
(* window of a wake is closed once, a later wake is given its time, and an  *)
(* agent task is dispatched with the whole request.                         *)
(*                                                                         *)
(* Base says what the parts of the state know of one another and that no    *)
(* time they keep lies in the future.  On top of it stand                   *)
(*   HeardInv  the records that rows, handlers and wakes have, however old, *)
(*             name a wake for one row only (OneRow), and what is recorded  *)
(*             of the boundary of an activation that was not rewritten      *)
(*             under a handler leaves its latest wake the time it has;      *)
(*   OnceInv   on HeardInv: unless it is crowded, each wake has at most one *)
(*             active handler, none while its row is queued or about to be, *)
(*             and who is about to close finds no closing;                  *)
(*   WholeInv  where a stretch of the request cannot be any more once a     *)
(*             handler has read the live audio, the slots and the jobs.     *)
(***************************************************************************)
EXTENDS WakeActivation, FiniteSetTheorems, SequenceTheorems, WellFoundedInduction, TLAPS

---------------------------------------------------------------------------
(* The latest of some times. *)

LEMMA LatestIsMember ==
    ASSUME NEW n \in Nat, NEW S \in SUBSET (0 .. n), S # {}
    PROVE  Latest(S) \in S /\ \A u \in S : u <= Latest(S)
<1> DEFINE T == { n - t : t \in S }
<1>1. T \subseteq Nat /\ T # {}
  <2>1. PICK a \in S : TRUE
    OBVIOUS
  <2>2. n - a \in T
    OBVIOUS
  <2> QED BY <2>2
<1>2. PICK x \in T : \A y \in T : << y, x >> \notin OpToRel(<, Nat)
  BY <1>1, NatLessThanWellFounded, WFMin
<1>3. PICK t \in S : x = n - t
  OBVIOUS
<1>4. ASSUME NEW u \in S PROVE u <= t
  <2>1. n - u \in T
    OBVIOUS
  <2>2. << n - u, x >> \notin OpToRel(<, Nat)
    BY <1>2, <2>1
  <2>3. ~(n - u < x)
    BY <1>1, <2>1, <2>2 DEF OpToRel
  <2> QED BY <1>3, <2>3
<1> QED BY <1>4 DEF Latest

---------------------------------------------------------------------------
(* What the parts of the state know of one another. *)

\* The stages at which a handler may still close its window, or has, and is not done.
Active == { "start", "close", "record", "live", "slots", "jobs", "dispatch" }
Bounded == Active \ { "start" }

\* The stages at which a wake holds a copy of a row.
Rewriting == { "chosen", "clear", "amend", "cancel", "root" }
Holding == Rewriting \cup { "replace" }

Placed(w) == wakes[w].stage = "done"

\* Both wakes a row names have been scheduled.
Known(r) == Placed(r.first) /\ Placed(r.latest)

References ==
    /\ \A j \in DOMAIN rows : Known(rows[j])
    /\ \A k \in Worker : worker[k].stage # "idle" => worker[k].job # 0 /\ Known(worker[k].copy)
    /\ \A w \in Wake : wakes[w].stage \in Holding => wakes[w].target # 0 /\ Known(wakes[w].copy)
    /\ \A w \in Wake : \A c \in wakes[w].listed : c.job # 0 /\ Known(c.row)
    /\ \A w \in Wake : tasks[w].state # "none" => tasks[w].of \in DOMAIN rows
    /\ \A w \in Wake : closings[w] # << >> => Placed(w)
    /\ Len(rows) <= Cardinality({ w \in Wake : Placed(w) })

\* No time that is kept lies in the future.
Past ==
    /\ \A w \in Wake : wakes[w].at <= now
    /\ \A w \in Wake : \A i \in DOMAIN closings[w] : closings[w][i] <= now
    /\ \A j \in DOMAIN rows : progress[j] <= now
    /\ \A k \in Worker : /\ worker[k].time <= now /\ worker[k].closed <= now
                         /\ worker[k].stage \in Bounded => worker[k].closed # Never

Base == TypeOK /\ References /\ Past

---------------------------------------------------------------------------
(* Types. *)

LEMMA TimeIsNat ==
    /\ \A t \in Time : t \in Int /\ 0 <= t /\ t <= LastTick
    /\ \A t \in Moment : t \in Int
    /\ Never \in Moment \ Time /\ LastTick \in Nat
BY WakeAssumption DEF Time, Never, Moment

LEMMA NoRowType == NoRow \in Row
<1> DEFINE c == CHOOSE w \in Wake : TRUE
<1>1. c \in Wake
  BY WakeAssumption
<1> HIDE DEF c
<1>2. [ state |-> "queued", due |-> 0, first |-> c, latest |-> c, heard |-> {} ] \in Row
  BY <1>1 DEF Row
<1> QED BY <1>2 DEF NoRow, c

LEMMA IdlingType ==
    ASSUME NEW J, 0 \in J
    PROVE  Idling \in Handler(J)
<1> DEFINE c == NoRow
<1>1. c \in Row
  BY NoRowType
<1> HIDE DEF c
<1>2. 0 \in Time /\ Never \in Moment
  BY WakeAssumption DEF Time, Moment
<1>3. [ stage |-> "idle", job |-> 0, copy |-> c, time |-> 0,
        closed |-> Never, pending |-> {} ] \in Handler(J)
  BY <1>1, <1>2 DEF Handler
<1> QED BY <1>3 DEF Idling, c

LEMMA UnheardType ==
    ASSUME NEW J, 0 \in J
    PROVE  Unheard \in Schedules(J)
<1> DEFINE c == NoRow
<1>1. c \in Row
  BY NoRowType
<1> HIDE DEF c
<1>2. 0 \in Time
  BY WakeAssumption DEF Time
<1>3. [ stage |-> "unheard", at |-> 0, target |-> 0, copy |-> c, listed |-> {} ] \in Schedules(J)
  BY <1>1, <1>2 DEF Schedules
<1> QED BY <1>3 DEF Unheard, c

LEMMA InitBase == Init => Base
<1> SUFFICES ASSUME Init PROVE Base
  OBVIOUS
<1> USE DEF Init
<1>1. 0 \in Time /\ Never \in Moment /\ 0 \in { 0 } \cup DOMAIN rows
  BY WakeAssumption DEF Time, Moment
<1>2. Idling \in Handler({ 0 } \cup DOMAIN rows) /\ Unheard \in Schedules({ 0 } \cup DOMAIN rows)
  BY <1>1, IdlingType, UnheardType
<1>3. Cardinality(Wake) \in Nat /\ Cardinality({ w \in Wake : Placed(w) }) \in Nat
  BY WakeAssumption, FS_CardinalityType, FS_Subset
<1>4. rows \in Seq(Row) /\ Len(rows) = 0 /\ DOMAIN rows = {}
  OBVIOUS
<1>5. progress \in Seq(Moment) /\ Len(progress) = 0
  OBVIOUS
<1>6. tasks \in [ Wake -> Task ]
  BY <1>1 DEF Task
<1>7. closings \in [ Wake -> Seq(Time) ] /\ \A w \in Wake : closings[w] = << >> /\ DOMAIN closings[w] = {}
  OBVIOUS
<1>8. speech \in [ Segment -> Stretch ]
  BY <1>1 DEF Stretch
<1>9. \A s \in Segment : speech[s].start <= speech[s].end /\ speech[s].end <= now
  OBVIOUS
<1>10. TypeOK
  BY <1>1, <1>2, <1>3, <1>4, <1>5, <1>6, <1>7, <1>8, <1>9, WakeAssumption DEF TypeOK
<1>11. \A w \in Wake : wakes[w].stage = "unheard" /\ wakes[w].at = 0 /\ wakes[w].listed = {}
  BY DEF Unheard
<1>12. \A k \in Worker : worker[k].stage = "idle" /\ worker[k].time = 0 /\ worker[k].closed = Never
  BY DEF Idling
<1>13. \A w \in Wake : tasks[w].state = "none"
  OBVIOUS
<1>14. References
  BY <1>3, <1>4, <1>7, <1>11, <1>12, <1>13 DEF References, Holding, Rewriting
<1>15. Past
  BY <1>4, <1>7, <1>11, <1>12 DEF Past, Never, Bounded, Active
<1> QED BY <1>10, <1>14, <1>15 DEF Base

\* The fields of the state, one by one.
LEMMA Fields ==
    ASSUME TypeOK
    PROVE  /\ now \in Int /\ 0 <= now /\ now <= LastTick
           /\ \A s \in Segment : speech[s] \in Stretch /\ speech[s].start \in Int /\ speech[s].end \in Int
           /\ \A w \in Wake : /\ wakes[w].at \in Int /\ 0 <= wakes[w].at /\ wakes[w].at <= LastTick
                              /\ wakes[w].copy \in Row /\ wakes[w].target \in { 0 } \cup DOMAIN rows
                              /\ \A c \in wakes[w].listed : c.row \in Row /\ c.job \in { 0 } \cup DOMAIN rows
           /\ \A w \in Wake : \A i \in DOMAIN closings[w] : closings[w][i] \in Int
           /\ \A k \in Worker : /\ worker[k].time \in Int /\ worker[k].closed \in Int
                                /\ worker[k].copy \in Row /\ worker[k].job \in { 0 } \cup DOMAIN rows
           /\ \A j \in DOMAIN rows : rows[j] \in Row /\ progress[j] \in Moment /\ progress[j] \in Int
           /\ \A w \in Wake : tasks[w].closed \in Int
           /\ DOMAIN rows = 1 .. Len(rows) /\ Len(rows) \in Nat /\ DOMAIN progress = DOMAIN rows
<1>1. now \in Int /\ 0 <= now /\ now <= LastTick
  BY TimeIsNat DEF TypeOK
<1>2. ASSUME NEW s \in Segment
      PROVE  speech[s] \in Stretch /\ speech[s].start \in Int /\ speech[s].end \in Int
  <2>1. speech[s] \in Stretch
    BY DEF TypeOK
  <2>2. speech[s].start \in Time /\ speech[s].end \in Time
    BY <2>1 DEF Stretch
  <2> QED BY <2>1, <2>2, TimeIsNat
<1>3. ASSUME NEW w \in Wake
      PROVE  /\ wakes[w].at \in Int /\ 0 <= wakes[w].at /\ wakes[w].at <= LastTick
             /\ wakes[w].copy \in Row /\ wakes[w].target \in { 0 } \cup DOMAIN rows
             /\ \A c \in wakes[w].listed : c.row \in Row /\ c.job \in { 0 } \cup DOMAIN rows
             /\ tasks[w].closed \in Int
  <2>1. wakes[w] \in Schedules({ 0 } \cup DOMAIN rows) /\ tasks[w] \in Task
    BY DEF TypeOK
  <2>2. wakes[w].at \in Time /\ wakes[w].copy \in Row /\ wakes[w].target \in { 0 } \cup DOMAIN rows
        /\ \A c \in wakes[w].listed : c.row \in Row /\ c.job \in { 0 } \cup DOMAIN rows
    BY <2>1 DEF Schedules
  <2>3. tasks[w].closed \in Moment
    BY <2>1 DEF Task
  <2> QED BY <2>2, <2>3, TimeIsNat
<1>4. ASSUME NEW w \in Wake, NEW i \in DOMAIN closings[w] PROVE closings[w][i] \in Int
  <2>1. closings[w] \in Seq(Time)
    BY DEF TypeOK
  <2>2. closings[w][i] \in Time
    BY <2>1
  <2> QED BY <2>2, TimeIsNat
<1>5. ASSUME NEW k \in Worker
      PROVE  /\ worker[k].time \in Int /\ worker[k].closed \in Int
             /\ worker[k].copy \in Row /\ worker[k].job \in { 0 } \cup DOMAIN rows
  <2>1. worker[k] \in Handler({ 0 } \cup DOMAIN rows)
    BY DEF TypeOK
  <2>2. /\ worker[k].time \in Time /\ worker[k].closed \in Moment
        /\ worker[k].copy \in Row /\ worker[k].job \in { 0 } \cup DOMAIN rows
    BY <2>1 DEF Handler
  <2> QED BY <2>2, TimeIsNat
<1>6. ASSUME NEW j \in DOMAIN rows PROVE rows[j] \in Row /\ progress[j] \in Moment /\ progress[j] \in Int
  <2>1. rows[j] \in Row /\ progress[j] \in Moment
    BY DEF TypeOK
  <2> QED BY <2>1, TimeIsNat
<1>7. DOMAIN rows = 1 .. Len(rows) /\ Len(rows) \in Nat /\ DOMAIN progress = DOMAIN rows
  BY DEF TypeOK
<1> QED BY <1>1, <1>2, <1>3, <1>4, <1>5, <1>6, <1>7

\* The audio moves: only the speech changes, and never beyond the present.
LEMMA AudioBase ==
    ASSUME Base, NEW s \in Segment, NEW f \in Stretch,
           f.start <= f.end, f.end <= now,
           speech' = [ speech EXCEPT ![s] = f ], slipped' \subseteq Segment, unchangedByAudio
    PROVE  Base'
<1> USE DEF unchangedByAudio
<1>1. TypeOK'
  BY DEF Base, TypeOK
<1>2. References'
  BY DEF Base, References, Known, Placed
<1>3. Past'
  BY DEF Base, Past
<1> QED BY <1>1, <1>2, <1>3 DEF Base

LEMMA ClockBase == Base /\ Tick => Base'
<1> SUFFICES ASSUME Base, Tick PROVE Base'
  OBVIOUS
<1> USE DEF Tick
<1>1. TypeOK
  BY DEF Base
<1>2. now' = now + 1 /\ now' \in Time /\ now \in Int
  BY <1>1, Fields, WakeAssumption DEF Time
<1>3. \A s \in Segment : speech'[s].start <= speech'[s].end /\ speech'[s].end <= now'
  <2> TAKE s \in Segment
  <2>1. speech[s].start <= speech[s].end /\ speech[s].end <= now
    BY <1>1 DEF TypeOK
  <2> QED BY <1>1, <1>2, <2>1, Fields
<1>4. TypeOK'
  BY <1>1, <1>2, <1>3 DEF TypeOK
<1>5. References'
  BY DEF Base, References, Known, Placed
<1>6. \A w \in Wake : wakes'[w].at <= now' /\ \A i \in DOMAIN closings'[w] : closings'[w][i] <= now'
  BY <1>1, <1>2, Fields DEF Base, Past
<1>7. \A j \in DOMAIN rows' : progress'[j] <= now'
  BY <1>1, <1>2, Fields DEF Base, Past
<1>8. \A k \in Worker : /\ worker'[k].time <= now' /\ worker'[k].closed <= now'
                        /\ worker'[k].stage \in Bounded => worker'[k].closed # Never
  BY <1>1, <1>2, Fields DEF Base, Past
<1>9. Past'
  BY <1>6, <1>7, <1>8 DEF Past
<1> QED BY <1>4, <1>5, <1>9 DEF Base

LEMMA SpeechBase ==
    ASSUME Base, NEW s \in Segment, Speak(s) \/ Talk(s) \/ Hearing(s)
    PROVE  Base'
<1>0. TypeOK
  BY DEF Base
<1>1. speech[s] \in Stretch /\ now \in Time /\ now \in Int /\ speech[s].start <= speech[s].end
      /\ speech[s].end <= now /\ slipped \subseteq Segment
  BY <1>0, Fields DEF TypeOK
<1>2. speech[s].start \in Int /\ speech[s].end \in Int
  BY <1>0, Fields
<1>3. CASE Speak(s)
  <2> DEFINE f == [ stage |-> "live", start |-> now, end |-> now ]
  <2>1. f \in Stretch /\ f.start <= f.end /\ f.end <= now
    BY <1>1 DEF Stretch
  <2>2. speech' = [ speech EXCEPT ![s] = f ] /\ slipped' \subseteq Segment /\ unchangedByAudio
    BY <1>1, <1>3 DEF Speak
  <2> HIDE DEF f
  <2> QED BY <2>1, <2>2, AudioBase
<1>4. CASE Talk(s)
  <2> DEFINE f == [ speech[s] EXCEPT !.end = now ]
  <2>1. f \in Stretch /\ f.start = speech[s].start /\ f.end = now
    BY <1>1 DEF Stretch
  <2>2. speech' = [ speech EXCEPT ![s] = f ]
    BY <1>4 DEF Talk
  <2>3. f.start <= f.end /\ f.end <= now
    BY <1>1, <1>2, <2>1
  <2> HIDE DEF f
  <2> QED BY <1>1, <1>4, <2>1, <2>2, <2>3, AudioBase DEF Talk
<1>5. ASSUME NEW st \in { "audio", "slot", "audio_failed", "published", "blank", "slot_failed", "dropped" },
             speech' = [ speech EXCEPT ![s].stage = st ], slipped' \subseteq Segment, unchangedByAudio
      PROVE  Base'
  <2> DEFINE f == [ speech[s] EXCEPT !.stage = st ]
  <2>1. f \in Stretch /\ f.start = speech[s].start /\ f.end = speech[s].end
    BY <1>1 DEF Stretch
  <2>2. speech' = [ speech EXCEPT ![s] = f ]
    BY <1>5
  <2>3. f.start <= f.end /\ f.end <= now
    BY <1>1, <2>1
  <2> HIDE DEF f
  <2> QED BY <1>5, <2>1, <2>2, <2>3, AudioBase
<1>6. CASE Flush(s)
  BY <1>1, <1>5, <1>6 DEF Flush
<1>7. CASE Validate(s)
  BY <1>1, <1>5, <1>7 DEF Validate
<1>8. CASE Transcribe(s)
  BY <1>1, <1>5, <1>8 DEF Transcribe
<1>9. CASE DropOrphan(s)
  BY <1>1, <1>5, <1>9 DEF DropOrphan
<1> QED BY <1>3, <1>4, <1>6, <1>7, <1>8, <1>9 DEF Hearing

\* Nothing that was scheduled is unscheduled, and the count goes along.
PlacedStay == \A v \in Wake : Placed(v) => Placed(v)'

LEMMA PlacedCount ==
    ASSUME PlacedStay
    PROVE  /\ Cardinality({ v \in Wake : Placed(v) }) <= Cardinality({ v \in Wake : Placed(v)' })
           /\ Cardinality({ v \in Wake : Placed(v)' }) <= Cardinality(Wake)
           /\ Cardinality({ v \in Wake : Placed(v) }) \in Nat
           /\ Cardinality({ v \in Wake : Placed(v)' }) \in Nat
           /\ Cardinality(Wake) \in Nat
           /\ \A w \in Wake : ~Placed(w) /\ Placed(w)' =>
                Cardinality({ v \in Wake : Placed(v) }) + 1 <= Cardinality({ v \in Wake : Placed(v)' })
<1>1. PICK A \in SUBSET Wake : A = { v \in Wake : Placed(v) }
  OBVIOUS
<1>2. PICK B \in SUBSET Wake : B = { v \in Wake : Placed(v)' }
  OBVIOUS
<1>3. A \subseteq B
  BY <1>1, <1>2 DEF PlacedStay
<1>4. IsFiniteSet(B) /\ Cardinality(B) <= Cardinality(Wake)
  BY WakeAssumption, FS_Subset
<1>5. IsFiniteSet(A) /\ Cardinality(A) <= Cardinality(B)
  BY <1>3, <1>4, FS_Subset
<1>6. Cardinality(A) \in Nat /\ Cardinality(B) \in Nat /\ Cardinality(Wake) \in Nat
  BY <1>4, <1>5, WakeAssumption, FS_CardinalityType
<1>7. ASSUME NEW w \in Wake, w \notin A, w \in B PROVE Cardinality(A) + 1 <= Cardinality(B)
  <2>1. A \cup { w } \in SUBSET B
    BY <1>3, <1>7
  <2>2. Cardinality(A \cup { w }) = Cardinality(A) + 1
    BY <1>5, <1>7, FS_AddElement
  <2>3. Cardinality(A \cup { w }) <= Cardinality(B)
    BY <1>4, <2>1, FS_Subset
  <2> QED BY <2>2, <2>3
<1> QED BY <1>1, <1>2, <1>4, <1>5, <1>6, <1>7

LEMMA KnownStays ==
    ASSUME PlacedStay, NEW r \in Row, Known(r)
    PROVE  Placed(r.first)' /\ Placed(r.latest)'
<1>1. r.first \in Wake /\ r.latest \in Wake
  BY DEF Row
<1> QED BY <1>1 DEF Known, PlacedStay

\* Row j is rewritten, and still says whom it serves.
LEMMA RowWritten ==
    ASSUME TypeOK, NEW j \in DOMAIN rows, NEW r \in Row, rows' = [ rows EXCEPT ![j] = r ]
    PROVE  /\ rows' \in Seq(Row) /\ Len(rows') = Len(rows) /\ DOMAIN rows' = DOMAIN rows
           /\ rows'[j] = r /\ \A i \in DOMAIN rows : i # j => rows'[i] = rows[i]
<1>1. rows \in Seq(Row) /\ j \in 1 .. Len(rows) /\ DOMAIN rows = 1 .. Len(rows)
  BY DEF TypeOK
<1>2. PICK q : q = [ rows EXCEPT ![j] = r ]
  OBVIOUS
<1>3. q \in Seq(Row) /\ Len(q) = Len(rows) /\ \A i \in 1 .. Len(rows) : q[i] = IF i = j THEN r ELSE rows[i]
  BY <1>1, <1>2, ExceptSeq
<1>4. rows' = q /\ DOMAIN q = 1 .. Len(q)
  BY <1>2, <1>3
<1> QED BY <1>1, <1>3, <1>4

\* A row is inserted.
LEMMA RowInserted ==
    ASSUME TypeOK, NEW r \in Row, Insert(r)
    PROVE  /\ rows' \in Seq(Row) /\ Len(rows') = Len(rows) + 1 /\ rows'[Len(rows')] = r
           /\ DOMAIN rows' = DOMAIN rows \cup { Len(rows') } /\ Len(rows') \notin DOMAIN rows
           /\ \A i \in DOMAIN rows : rows'[i] = rows[i] /\ progress'[i] = progress[i]
           /\ progress' \in Seq(Moment) /\ Len(progress') = Len(rows')
           /\ progress'[Len(rows')] = Never
<1>1. rows \in Seq(Row) /\ progress \in Seq(Moment) /\ Len(progress) = Len(rows)
      /\ Len(rows) \in Nat /\ DOMAIN rows = 1 .. Len(rows)
  BY DEF TypeOK
<1>2. PICK q : q = Append(rows, r)
  OBVIOUS
<1>3. q \in Seq(Row) /\ Len(q) = Len(rows) + 1 /\ q[Len(rows) + 1] = r
      /\ \A i \in 1 .. Len(rows) : q[i] = rows[i]
  BY <1>1, <1>2, AppendProperties
<1>4. PICK p : p = Append(progress, Never)
  OBVIOUS
<1>5. p \in Seq(Moment) /\ Len(p) = Len(progress) + 1 /\ p[Len(progress) + 1] = Never
      /\ \A i \in 1 .. Len(progress) : p[i] = progress[i]
  BY <1>1, <1>4, AppendProperties, TimeIsNat
<1>6. rows' = q /\ progress' = p /\ DOMAIN q = 1 .. Len(q)
  BY <1>2, <1>3, <1>4 DEF Insert
<1> QED BY <1>1, <1>3, <1>5, <1>6

LEMMA SchedulesGrow ==
    ASSUME NEW J, NEW K, J \subseteq K, NEW f \in Schedules(J)
    PROVE  f \in Schedules(K)
<1>1. \A c \in [ job : J, row : Row ] : c \in [ job : K, row : Row ]
  OBVIOUS
<1>2. f.listed \in SUBSET [ job : K, row : Row ]
  BY <1>1 DEF Schedules
<1> QED BY <1>2 DEF Schedules

\* A wake takes a step of its scheduling.
LEMMA WakeStepBase ==
    ASSUME Base, NEW w \in Wake, NEW f \in Schedules({ 0 } \cup DOMAIN rows),
           wakes' = [ wakes EXCEPT ![w] = f ], f.at <= now,
           Placed(w) => f.stage = "done",
           f.stage \in Holding => f.target # 0 /\ Known(f.copy),
           \A c \in f.listed : c.job # 0 /\ Known(c.row),
           rows' \in Seq(Row), DOMAIN rows \subseteq DOMAIN rows',
           progress' \in Seq(Moment), Len(progress') = Len(rows'),
           \A j \in DOMAIN rows' : Known(rows[j])',
           \A j \in DOMAIN rows' : progress'[j] <= now,
           Len(rows') <= Cardinality({ v \in Wake : Placed(v)' }),
           tasks' \in [ Wake -> Task ],
           \A v \in Wake : tasks'[v].state # "none" => tasks'[v].of \in DOMAIN rows,
           UNCHANGED << now, closings, speech, worker, crowded, slipped, crashes >>,
           raced' \subseteq DOMAIN rows'
    PROVE  Base'
<1>1. wakes \in [ Wake -> Schedules({ 0 } \cup DOMAIN rows) ] /\ TypeOK
  BY DEF Base, TypeOK
<1>2. wakes'[w] = f /\ \A v \in Wake : v # w => wakes'[v] = wakes[v]
  BY <1>1
<1>3. PlacedStay
  BY <1>2 DEF PlacedStay, Placed
<1>4. \A v \in Wake : wakes'[v] \in Schedules({ 0 } \cup DOMAIN rows')
  <2> TAKE v \in Wake
  <2>1. wakes'[v] \in Schedules({ 0 } \cup DOMAIN rows)
    BY <1>1, <1>2
  <2> QED BY <2>1, SchedulesGrow
<1>5. wakes' \in [ Wake -> Schedules({ 0 } \cup DOMAIN rows') ]
  BY <1>1, <1>4
<1>6. \A k \in Worker : worker[k] \in Handler({ 0 } \cup DOMAIN rows')
  BY <1>1 DEF TypeOK, Handler
<1>7. worker' \in [ Worker -> Handler({ 0 } \cup DOMAIN rows') ]
  BY <1>1, <1>6 DEF TypeOK
<1>8. Len(rows') \in Nat /\ Len(rows') <= Cardinality(Wake)
  BY <1>3, PlacedCount
<1>9. TypeOK'
  BY <1>1, <1>5, <1>7, <1>8 DEF TypeOK
<1>10. ASSUME NEW k \in Worker, worker'[k].stage # "idle"
       PROVE  worker'[k].job # 0 /\ Known(worker[k].copy)'
  <2>1. PICK c : c = worker[k].copy
    OBVIOUS
  <2>2. c \in Row /\ Known(c) /\ worker[k].job # 0
    BY <1>1, <1>10, <2>1, Fields DEF Base, References
  <2>3. Placed(c.first)' /\ Placed(c.latest)'
    BY <1>3, <2>2, KnownStays
  <2> QED BY <2>1, <2>2, <2>3 DEF Known, Placed
<1>11. ASSUME NEW v \in Wake, wakes'[v].stage \in Holding
       PROVE  wakes'[v].target # 0 /\ Known(wakes[v].copy)'
  <2>1. PICK c : c = wakes'[v].copy
    OBVIOUS
  <2>2. c \in Row /\ Known(c) /\ wakes'[v].target # 0
    <3>1. CASE v = w
      BY <1>2, <1>11, <2>1, <3>1 DEF Schedules
    <3>2. CASE v # w
      BY <1>1, <1>2, <1>11, <2>1, <3>2, Fields DEF Base, References
    <3> QED BY <3>1, <3>2
  <2>3. Placed(c.first)' /\ Placed(c.latest)'
    BY <1>3, <2>2, KnownStays
  <2> QED BY <2>1, <2>2, <2>3 DEF Known, Placed
<1>12. \A v \in Wake : closings'[v] # << >> => Placed(v)'
  BY <1>3 DEF Base, References, PlacedStay
<1>15. ASSUME NEW v \in Wake, NEW c \in wakes'[v].listed
       PROVE  c.job # 0 /\ Known(c.row)'
  <2>1. PICK r : r = c.row
    OBVIOUS
  <2>2. c.job # 0 /\ r \in Row /\ Known(r)
    <3>1. CASE v = w
      BY <1>2, <1>15, <2>1, <3>1 DEF Schedules
    <3>2. CASE v # w
      BY <1>1, <1>2, <1>15, <2>1, <3>2, Fields DEF Base, References
    <3> QED BY <3>1, <3>2
  <2>3. Placed(r.first)' /\ Placed(r.latest)'
    BY <1>3, <2>2, KnownStays
  <2> QED BY <2>1, <2>2, <2>3 DEF Known, Placed
<1>13. References'
  BY <1>10, <1>11, <1>12, <1>15 DEF References
<1>14. Past'
  BY <1>2 DEF Base, Past
<1> QED BY <1>9, <1>13, <1>14 DEF Base

Serves(r) == wakes'[r.first].stage = "done" /\ wakes'[r.latest].stage = "done"

LEMMA RowsStayKnown ==
    ASSUME Base, PlacedStay,
           \A i \in DOMAIN rows' :
             \/ i \in DOMAIN rows /\ rows'[i] = rows[i]
             \/ \E r \in Row : rows'[i] = r /\ Serves(r)
    PROVE  \A i \in DOMAIN rows' : Known(rows[i])'
<1> TAKE i \in DOMAIN rows'
<1>1. PICK r : r = rows'[i]
  OBVIOUS
<1>2. CASE i \in DOMAIN rows /\ rows'[i] = rows[i]
  <2>1. r \in Row /\ Known(r)
    BY <1>1, <1>2, Fields DEF Base, References
  <2> QED BY <1>1, <2>1, KnownStays DEF Known, Placed
<1>3. CASE \E q \in Row : rows'[i] = q /\ Serves(q)
  BY <1>1, <1>3 DEF Serves, Known, Placed
<1> QED BY <1>2, <1>3

LEMMA HearBase ==
    ASSUME Base, NEW w \in Wake, Hear(w)
    PROVE  Base'
<1> DEFINE f == [ wakes[w] EXCEPT !.stage = "heard", !.at = now ]
<1>0. TypeOK
  BY DEF Base
<1>1. wakes[w] \in Schedules({ 0 } \cup DOMAIN rows) /\ now \in Time
  BY <1>0 DEF TypeOK
<1>2. f \in Schedules({ 0 } \cup DOMAIN rows) /\ f.stage = "heard" /\ f.at = now
      /\ f.listed = wakes[w].listed
  BY <1>1 DEF Schedules
<1>3. wakes' = [ wakes EXCEPT ![w] = f ]
  BY <1>0 DEF TypeOK, Hear
<1>4. wakes[w].stage = "unheard" /\ UNCHANGED << now, rows, progress, tasks, closings, speech, worker, raced, crowded, slipped, crashes >>
  BY DEF Hear
<1> HIDE DEF f
<1>5. \A v \in Wake : v # w => wakes'[v] = wakes[v]
  BY <1>0, <1>3 DEF TypeOK
<1>6. PlacedStay
  BY <1>4, <1>5 DEF PlacedStay, Placed
<1>7. \A i \in DOMAIN rows' : Known(rows[i])'
  BY <1>4, <1>6, RowsStayKnown
<1>8. Len(rows) <= Cardinality({ v \in Wake : Placed(v)' }) /\ Len(rows) \in Nat
  BY <1>0, <1>6, PlacedCount, Fields DEF Base, References
<1>9. /\ rows' \in Seq(Row) /\ progress' \in Seq(Moment) /\ Len(progress') = Len(rows')
      /\ tasks' \in [ Wake -> Task ] /\ raced' \subseteq DOMAIN rows'
      /\ \A j \in DOMAIN rows' : progress'[j] <= now
      /\ \A v \in Wake : tasks'[v].state # "none" => tasks'[v].of \in DOMAIN rows
  BY <1>0, <1>4 DEF TypeOK, Base, References, Past
<1>10. f.at <= now /\ ~Placed(w) /\ f.stage \notin Holding
  BY <1>0, <1>2, <1>4, Fields DEF Placed, Holding, Rewriting
<1>11. \A c \in f.listed : c.job # 0 /\ Known(c.row)
  BY <1>2 DEF Base, References
<1> QED BY <1>2, <1>3, <1>4, <1>7, <1>8, <1>9, <1>10, <1>11, WakeStepBase

\* The steps of a wake that leave rows, tasks and progress alone.
LEMMA QuietWakeBase ==
    ASSUME Base, NEW w \in Wake, NEW f \in Schedules({ 0 } \cup DOMAIN rows),
           wakes' = [ wakes EXCEPT ![w] = f ], f.at = wakes[w].at,
           Placed(w) => f.stage = "done",
           f.stage \in Holding => f.target # 0 /\ Known(f.copy),
           \A c \in f.listed : c.job # 0 /\ Known(c.row),
           UNCHANGED << now, rows, tasks, closings, speech, worker, crowded, slipped, crashes >>,
           progress' \in Seq(Moment), Len(progress') = Len(progress),
           \A j \in DOMAIN rows : progress'[j] <= now,
           raced' \subseteq DOMAIN rows
    PROVE  Base'
<1>0. TypeOK
  BY DEF Base
<1>1. \A v \in Wake : v # w => wakes'[v] = wakes[v]
  BY <1>0 DEF TypeOK
<1>2. wakes'[w] = f
  BY <1>0 DEF TypeOK
<1>3. PlacedStay
  BY <1>1, <1>2 DEF PlacedStay, Placed
<1>4. \A i \in DOMAIN rows' : Known(rows[i])'
  BY <1>3, RowsStayKnown
<1>5. Len(rows) <= Cardinality({ v \in Wake : Placed(v)' }) /\ Len(rows) \in Nat
  BY <1>0, <1>3, PlacedCount, Fields DEF Base, References
<1>6. f.at <= now
  BY DEF Base, Past
<1>7. /\ rows' \in Seq(Row) /\ Len(progress') = Len(rows')
      /\ tasks' \in [ Wake -> Task ] /\ raced' \subseteq DOMAIN rows'
      /\ \A j \in DOMAIN rows' : progress'[j] <= now
      /\ \A v \in Wake : tasks'[v].state # "none" => tasks'[v].of \in DOMAIN rows
  BY <1>0 DEF TypeOK, Base, References
<1> QED BY <1>4, <1>5, <1>6, <1>7, WakeStepBase

\* What is so when it is not touched.
LEMMA Untouched ==
    ASSUME Base
    PROVE  /\ rows \in Seq(Row) /\ \A i \in DOMAIN rows : Known(rows[i])
           /\ progress \in Seq(Moment) /\ \A j \in DOMAIN rows : progress[j] <= now
           /\ tasks \in [ Wake -> Task ]
           /\ \A v \in Wake : tasks[v].state # "none" => tasks[v].of \in DOMAIN rows
           /\ closings \in [ Wake -> Seq(Time) ]
           /\ \A v \in Wake : closings[v] # << >> => Placed(v)
           /\ \A v \in Wake : \A i \in DOMAIN closings[v] : closings[v][i] <= now
           /\ worker \in [ Worker -> Handler({ 0 } \cup DOMAIN rows) ]
           /\ \A k \in Worker : /\ worker[k].stage # "idle" => worker[k].job # 0 /\ Known(worker[k].copy)
                                /\ worker[k].time <= now /\ worker[k].closed <= now
                                /\ worker[k].stage \in Bounded => worker[k].closed # Never
           /\ raced \subseteq DOMAIN rows /\ crowded \subseteq Wake
BY DEF Base, TypeOK, References, Past

LEMMA HeldCopy ==
    ASSUME Base, NEW w \in Wake, wakes[w].stage \in Holding
    PROVE  /\ wakes[w].copy \in Row /\ Known(wakes[w].copy)
           /\ wakes[w].target \in DOMAIN rows /\ ~Placed(w)
<1>1. wakes[w].copy \in Row /\ wakes[w].target \in { 0 } \cup DOMAIN rows
  BY Fields DEF Base
<1> QED BY <1>1 DEF Base, References, Placed, Holding, Rewriting

\* The rows are read as they are.
LEMMA ListedRows ==
    ASSUME Base, NEW w \in Wake
    PROVE  /\ Listed(w) \in SUBSET [ job : { 0 } \cup DOMAIN rows, row : Row ]
           /\ \A c \in Listed(w) : /\ c.job \in DOMAIN rows /\ c.job # 0
                                   /\ c.row = rows[c.job] /\ Known(c.row)
<1>1. DOMAIN rows = 1 .. Len(rows) /\ \A j \in DOMAIN rows : rows[j] \in Row /\ Known(rows[j])
  BY Fields, Untouched DEF Base
<1>2. ASSUME NEW c \in Listed(w)
      PROVE  /\ c \in [ job : { 0 } \cup DOMAIN rows, row : Row ]
             /\ c.job \in DOMAIN rows /\ c.job # 0
             /\ c.row = rows[c.job] /\ Known(c.row)
  <2>1. PICK j \in DOMAIN rows : c = [ job |-> j, row |-> rows[j] ]
    BY DEF Listed
  <2>2. PICK r \in Row : r = rows[j] /\ Known(r)
    BY <1>1
  <2>3. c = [ job |-> j, row |-> r ]
    BY <2>1, <2>2
  <2> QED BY <1>1, <2>2, <2>3
<1> QED BY <1>2

LEMMA LookBase ==
    ASSUME Base, NEW w \in Wake, Look(w)
    PROVE  Base'
<1>0. TypeOK
  BY DEF Base
<1>1. PICK L : L = Listed(w)
  OBVIOUS
<1>2. L \in SUBSET [ job : { 0 } \cup DOMAIN rows, row : Row ] /\ \A c \in L : c.job # 0 /\ Known(c.row)
  BY <1>1, ListedRows
<1> DEFINE f == [ wakes[w] EXCEPT !.stage = "listed", !.listed = L ]
<1>3. wakes[w] \in Schedules({ 0 } \cup DOMAIN rows) /\ wakes[w].stage = "heard"
  BY <1>0 DEF TypeOK, Look
<1>4. f \in Schedules({ 0 } \cup DOMAIN rows) /\ f.stage = "listed" /\ f.at = wakes[w].at /\ f.listed = L
  BY <1>2, <1>3 DEF Schedules
<1>5. wakes' = [ wakes EXCEPT ![w] = f ]
  BY <1>0, <1>1 DEF TypeOK, Look
<1> HIDE DEF f
<1>6. UNCHANGED << now, rows, progress, tasks, closings, speech, worker, raced, crowded, slipped, crashes >>
  BY DEF Look
<1>7. raced' \subseteq DOMAIN rows /\ progress' \in Seq(Moment) /\ Len(progress') = Len(progress)
      /\ \A i \in DOMAIN rows : progress'[i] <= now
  BY <1>0, <1>6 DEF TypeOK, Base, Past
<1>8. ~Placed(w) /\ f.stage \notin Holding
  BY <1>3, <1>4 DEF Placed, Holding, Rewriting
<1> QED BY <1>2, <1>4, <1>5, <1>6, <1>7, <1>8, QuietWakeBase

\* The choice of a row: the wake's record becomes f.
ChoosesNone(w, f) ==
    /\ f \in Schedules({ 0 } \cup DOMAIN rows) /\ f.at = wakes[w].at /\ f.listed = {}
    /\ f.stage = "create" /\ raced' = raced

ChoosesRow(w, f) ==
    /\ f \in Schedules({ 0 } \cup DOMAIN rows) /\ f.at = wakes[w].at /\ f.listed = {}
    /\ \E c \in wakes[w].listed :
         /\ f.stage = "chosen" /\ f.target = c.job /\ f.copy = c.row
         /\ c.row \in Row /\ c.job \in DOMAIN rows /\ Known(c.row)
         /\ raced' = IF Handlers(c.job) = {} /\ Rewriters(c.job) = {} /\ rows[c.job] = c.row
                     THEN raced ELSE raced \cup { c.job }

LEMMA ChooseShape ==
    ASSUME Base, NEW w \in Wake, Choose(w)
    PROVE  \E f : wakes' = [ wakes EXCEPT ![w] = f ] /\ (ChoosesNone(w, f) \/ ChoosesRow(w, f))
<1>0. TypeOK
  BY DEF Base
<1>1. PICK g \in Schedules({ 0 } \cup DOMAIN rows) : g = wakes[w]
  BY <1>0 DEF TypeOK
<1>2. CASE Candidates(w) = {} /\ raced' = raced
           /\ wakes' = [ wakes EXCEPT ![w].stage = "create", ![w].listed = {} ]
  <2> DEFINE f == [ g EXCEPT !.stage = "create", !.listed = {} ]
  <2>1. wakes' = [ wakes EXCEPT ![w] = f ]
    BY <1>0, <1>1, <1>2 DEF TypeOK
  <2>2. f \in Schedules({ 0 } \cup DOMAIN rows) /\ f.at = g.at /\ f.listed = {} /\ f.stage = "create"
    BY <1>1 DEF Schedules
  <2> QED BY <1>1, <1>2, <2>1, <2>2 DEF ChoosesNone
<1>3. ASSUME NEW c \in Candidates(w),
             wakes' = [ wakes EXCEPT ![w].stage = "chosen", ![w].listed = {},
                                     ![w].target = c.job, ![w].copy = c.row ],
             raced' = IF Handlers(c.job) = {} /\ Rewriters(c.job) = {} /\ rows[c.job] = c.row
                      THEN raced ELSE raced \cup { c.job }
      PROVE  \E f : wakes' = [ wakes EXCEPT ![w] = f ] /\ ChoosesRow(w, f)
  <2>1. c \in wakes[w].listed
    BY DEF Candidates
  <2>2. PICK r \in Row, j \in DOMAIN rows : r = c.row /\ j = c.job /\ Known(r)
    BY <1>0, <2>1, Fields DEF Base, References
  <2> DEFINE f == [ g EXCEPT !.stage = "chosen", !.listed = {}, !.target = j, !.copy = r ]
  <2>3. wakes' = [ wakes EXCEPT ![w] = f ]
    BY <1>0, <1>1, <1>3, <2>2 DEF TypeOK
  <2>4. /\ f \in Schedules({ 0 } \cup DOMAIN rows) /\ f.at = g.at /\ f.listed = {}
        /\ f.stage = "chosen" /\ f.target = j /\ f.copy = r
    BY <1>1, <2>2 DEF Schedules
  <2> HIDE DEF f
  <2>5. ChoosesRow(w, f)
    BY <1>1, <1>3, <2>1, <2>2, <2>4 DEF ChoosesRow
  <2> QED BY <2>3, <2>5
<1> QED BY <1>2, <1>3 DEF Choose

LEMMA ChooseBase ==
    ASSUME Base, NEW w \in Wake, Choose(w)
    PROVE  Base'
<1>0. TypeOK
  BY DEF Base
<1>1. PICK f : wakes' = [ wakes EXCEPT ![w] = f ] /\ (ChoosesNone(w, f) \/ ChoosesRow(w, f))
  BY ChooseShape
<1>2. /\ f \in Schedules({ 0 } \cup DOMAIN rows) /\ f.at = wakes[w].at /\ f.listed = {}
      /\ f.stage \in Holding => f.target # 0 /\ Known(f.copy)
      /\ raced' \subseteq DOMAIN rows
  <2>1. CASE ChoosesNone(w, f)
    BY <1>0, <2>1 DEF ChoosesNone, Holding, Rewriting, TypeOK
  <2>2. CASE ChoosesRow(w, f)
    <3>1. PICK c \in wakes[w].listed :
            /\ f.target = c.job /\ f.copy = c.row /\ c.job \in DOMAIN rows /\ Known(c.row)
            /\ raced' \subseteq raced \cup { c.job }
      BY <2>2 DEF ChoosesRow
    <3> QED BY <1>0, <2>2, <3>1, Fields DEF ChoosesRow, TypeOK
  <2> QED BY <1>1, <2>1, <2>2
<1>3. /\ UNCHANGED << now, rows, progress, tasks, closings, speech, worker, crowded, slipped, crashes >>
      /\ ~Placed(w)
  BY DEF Choose, Placed
<1>4. progress' \in Seq(Moment) /\ Len(progress') = Len(progress)
      /\ \A i \in DOMAIN rows : progress'[i] <= now
  BY <1>0, <1>3 DEF TypeOK, Base, Past
<1>5. \A c \in f.listed : c.job # 0 /\ Known(c.row)
  BY <1>2
<1> QED BY <1>1, <1>2, <1>3, <1>4, <1>5, QuietWakeBase

\* A wake that goes on with the row it has chosen, to stage st.
Proceeds(w, st, f) ==
    /\ f \in Schedules({ 0 } \cup DOMAIN rows) /\ wakes' = [ wakes EXCEPT ![w] = f ]
    /\ f.stage = st /\ f.at = wakes[w].at
    /\ f.target = wakes[w].target /\ f.copy = wakes[w].copy /\ f.listed = wakes[w].listed

LEMMA ProceedShape ==
    ASSUME Base, NEW w \in Wake, NEW st \in Holding, wakes' = [ wakes EXCEPT ![w].stage = st ]
    PROVE  \E f : Proceeds(w, st, f)
<1>1. PICK g \in Schedules({ 0 } \cup DOMAIN rows) : g = wakes[w]
  BY DEF Base, TypeOK
<1>2. PICK f : f = [ g EXCEPT !.stage = st ]
  OBVIOUS
<1>3. /\ f \in Schedules({ 0 } \cup DOMAIN rows) /\ f.stage = st /\ f.at = g.at
      /\ f.target = g.target /\ f.copy = g.copy /\ f.listed = g.listed
  BY <1>1, <1>2 DEF Schedules, Holding, Rewriting
<1>4. wakes' = [ wakes EXCEPT ![w] = f ]
  BY <1>1, <1>2 DEF Base, TypeOK
<1> QED BY <1>1, <1>3, <1>4 DEF Proceeds

LEMMA InspectBase ==
    ASSUME Base, NEW w \in Wake, Inspect(w)
    PROVE  Base'
<1>0. TypeOK /\ wakes[w].stage = "chosen" /\ "chosen" \in Holding
  BY DEF Base, Inspect, Holding, Rewriting
<1>1. PICK st \in { "cancel", "clear" } : wakes' = [ wakes EXCEPT ![w].stage = st ]
  BY DEF Inspect
<1>2. PICK f : Proceeds(w, st, f)
  BY <1>1, ProceedShape DEF Holding, Rewriting
<1>3. wakes[w].target # 0 /\ Known(wakes[w].copy) /\ \A c \in wakes[w].listed : c.job # 0 /\ Known(c.row)
  BY <1>0 DEF Base, References
<1>4. UNCHANGED << now, rows, progress, tasks, closings, speech, worker, raced, crowded, slipped, crashes >>
  BY DEF Inspect
<1>5. raced' \subseteq DOMAIN rows /\ progress' \in Seq(Moment) /\ Len(progress') = Len(progress)
      /\ \A i \in DOMAIN rows : progress'[i] <= now
  BY <1>0, <1>4 DEF TypeOK, Base, Past
<1>6. ~Placed(w)
  BY <1>0 DEF Placed
<1> QED BY <1>2, <1>3, <1>4, <1>5, <1>6, QuietWakeBase DEF Proceeds

\* The progress of row j is set to t.
LEMMA ProgressSet ==
    ASSUME Base, NEW j \in DOMAIN rows, NEW t \in Moment, t <= now,
           progress' = [ progress EXCEPT ![j] = t ]
    PROVE  /\ progress' \in Seq(Moment) /\ Len(progress') = Len(progress)
           /\ progress'[j] = t /\ \A i \in DOMAIN rows : i # j => progress'[i] = progress[i]
           /\ \A i \in DOMAIN rows : progress'[i] <= now
<1>1. progress \in Seq(Moment) /\ j \in 1 .. Len(progress) /\ DOMAIN rows = 1 .. Len(progress)
  BY Fields DEF Base, TypeOK
<1>2. PICK q : q = [ progress EXCEPT ![j] = t ]
  OBVIOUS
<1>3. q \in Seq(Moment) /\ Len(q) = Len(progress)
      /\ \A i \in 1 .. Len(progress) : q[i] = IF i = j THEN t ELSE progress[i]
  BY <1>1, <1>2, ExceptSeq
<1> QED BY <1>1, <1>2, <1>3 DEF Base, Past

LEMMA ClearBase ==
    ASSUME Base, NEW w \in Wake, Clear(w)
    PROVE  Base'
<1>0. TypeOK /\ wakes[w].stage = "clear" /\ "clear" \in Holding /\ "amend" \in Holding
  BY DEF Base, Clear, Holding, Rewriting
<1>1. PICK f : Proceeds(w, "amend", f)
  BY <1>0, ProceedShape DEF Clear
<1>2. wakes[w].target # 0 /\ Known(wakes[w].copy) /\ \A c \in wakes[w].listed : c.job # 0 /\ Known(c.row)
  BY <1>0 DEF Base, References
<1>3. PICK j \in DOMAIN rows : j = wakes[w].target
  BY <1>0, <1>2, Fields
<1>4. Never \in Moment /\ Never <= now
  BY <1>0, Fields, TimeIsNat DEF Never
<1>5. progress' = [ progress EXCEPT ![j] = Never ]
  BY <1>3 DEF Clear
<1>6. progress' \in Seq(Moment) /\ Len(progress') = Len(progress)
      /\ \A i \in DOMAIN rows : progress'[i] <= now
  BY <1>4, <1>5, ProgressSet
<1>7. /\ UNCHANGED << now, rows, tasks, closings, speech, worker, crowded, slipped, crashes >>
      /\ raced' \subseteq DOMAIN rows
  BY <1>0 DEF Clear, TypeOK
<1>8. ~Placed(w)
  BY <1>0 DEF Placed
<1> QED BY <1>1, <1>2, <1>6, <1>7, <1>8, QuietWakeBase DEF Proceeds

\* A row as a wake that is scheduled writes it.
LEMMA RowOfWake ==
    ASSUME TypeOK, NEW w \in Wake, NEW r \in Row
    PROVE  /\ Amended(r, w) \in Row /\ Queued(r, w) \in Row
           /\ Amended(r, w).first = r.first /\ Amended(r, w).latest = w
           /\ Queued(r, w).first = r.first /\ Queued(r, w).latest = r.latest
           /\ Queued(r, w).state = "queued"
<1>1. ReadyAt(w) \in Int
  BY Fields, WakeAssumption DEF ReadyAt, At, Later
<1>2. Amended(r, w) \in Row /\ Amended(r, w).first = r.first /\ Amended(r, w).latest = w
  BY DEF Amended, Row
<1>3. Queued(r, w) \in Row /\ Queued(r, w).first = r.first /\ Queued(r, w).latest = r.latest
      /\ Queued(r, w).state = "queued"
  BY <1>1 DEF Queued, Row
<1> QED BY <1>2, <1>3

\* The record of a wake that is done with.
LEMMA DoneWake ==
    ASSUME TypeOK, NEW w \in Wake, wakes' = Scheduled(w)
    PROVE  \E f \in Schedules({ 0 } \cup DOMAIN rows) :
             /\ wakes' = [ wakes EXCEPT ![w] = f ]
             /\ f.stage = "done" /\ f.at = wakes[w].at /\ f.target = wakes[w].target
             /\ f.listed = wakes[w].listed
<1> DEFINE f == [ wakes[w] EXCEPT !.stage = "done", !.copy = NoRow ]
<1>1. wakes[w] \in Schedules({ 0 } \cup DOMAIN rows)
  BY DEF TypeOK
<1>2. f \in Schedules({ 0 } \cup DOMAIN rows) /\ f.stage = "done" /\ f.at = wakes[w].at
      /\ f.target = wakes[w].target /\ f.listed = wakes[w].listed
  BY <1>1, NoRowType DEF Schedules
<1>3. wakes' = [ wakes EXCEPT ![w] = f ]
  BY DEF TypeOK, Scheduled
<1> QED BY <1>2, <1>3

\* A wake that is done leaves the others as they are.
LEMMA OnlyWake ==
    ASSUME TypeOK, NEW w \in Wake, NEW f, wakes' = [ wakes EXCEPT ![w] = f ], f.stage = "done"
    PROVE  /\ wakes'[w] = f /\ \A v \in Wake : v # w => wakes'[v] = wakes[v]
           /\ PlacedStay /\ Placed(w)'
<1>1. wakes'[w] = f /\ \A v \in Wake : v # w => wakes'[v] = wakes[v]
  BY DEF TypeOK
<1> QED BY <1>1 DEF PlacedStay, Placed

LEMMA InsertBase ==
    ASSUME Base, NEW w \in Wake, ~Placed(w), NEW r \in Row, r.latest = w,
           r.first = w \/ Placed(r.first), Insert(r), wakes' = Scheduled(w),
           UNCHANGED << now, tasks, closings, speech, worker, raced, crowded, slipped, crashes >>
    PROVE  Base'
<1>0. TypeOK
  BY DEF Base
<1>1. PICK f \in Schedules({ 0 } \cup DOMAIN rows) :
        /\ wakes' = [ wakes EXCEPT ![w] = f ]
        /\ f.stage = "done" /\ f.at = wakes[w].at /\ f.listed = wakes[w].listed
  BY <1>0, DoneWake
<1>2. PlacedStay /\ Placed(w)'
  BY <1>0, <1>1, OnlyWake
<1>3. /\ rows' \in Seq(Row) /\ Len(rows') = Len(rows) + 1 /\ rows'[Len(rows')] = r
      /\ DOMAIN rows' = DOMAIN rows \cup { Len(rows') }
      /\ \A i \in DOMAIN rows : rows'[i] = rows[i] /\ progress'[i] = progress[i]
      /\ progress' \in Seq(Moment) /\ Len(progress') = Len(rows')
      /\ progress'[Len(rows')] = Never
  BY <1>0, RowInserted
<1>4. r.first \in Wake
  BY DEF Row
<1>5. Serves(r)
  BY <1>2, <1>4 DEF Serves, PlacedStay, Placed
<1>6. \A i \in DOMAIN rows' : Known(rows[i])'
  BY <1>2, <1>3, <1>5, RowsStayKnown
<1>7. Len(rows) \in Nat /\ Len(rows) <= Cardinality({ v \in Wake : Placed(v) })
  BY <1>0, Fields DEF Base, References
<1>8. Len(rows') <= Cardinality({ v \in Wake : Placed(v)' })
  <2>1. /\ Cardinality({ v \in Wake : Placed(v) }) + 1 <= Cardinality({ v \in Wake : Placed(v)' })
        /\ Cardinality({ v \in Wake : Placed(v) }) \in Nat
        /\ Cardinality({ v \in Wake : Placed(v)' }) \in Nat
    BY <1>2, PlacedCount
  <2>2. PICK m \in Nat : m = Cardinality({ v \in Wake : Placed(v) })
    BY <2>1
  <2>3. PICK n \in Nat : n = Cardinality({ v \in Wake : Placed(v)' })
    BY <2>1
  <2>4. m + 1 <= n /\ Len(rows) <= m
    BY <1>7, <2>1, <2>2, <2>3
  <2>5. Len(rows') <= n
    BY <1>3, <1>7, <2>4
  <2> QED BY <2>3, <2>5
<1>9. Never <= now
  BY <1>0, Fields DEF Never
<1>10. \A j \in DOMAIN rows' : progress'[j] <= now
  BY <1>3, <1>9 DEF Base, Past
<1>11. /\ tasks' \in [ Wake -> Task ] /\ raced' \subseteq DOMAIN rows'
       /\ \A v \in Wake : tasks'[v].state # "none" => tasks'[v].of \in DOMAIN rows
  BY <1>0, <1>3 DEF TypeOK, Base, References
<1>12. f.at <= now /\ f.stage \notin Holding /\ \A c \in f.listed : c.job # 0 /\ Known(c.row)
  BY <1>1 DEF Base, References, Past, Holding, Rewriting
<1> QED BY <1>1, <1>3, <1>6, <1>8, <1>10, <1>11, <1>12, WakeStepBase

LEMMA CreateBase ==
    ASSUME Base, NEW w \in Wake, Create(w)
    PROVE  Base'
<1>0. TypeOK
  BY DEF Base
<1> DEFINE n == [ NoRow EXCEPT !.first = w, !.latest = w, !.heard = { w } ]
<1>1. n \in Row /\ n.first = w /\ n.latest = w
  BY NoRowType DEF Row
<1> HIDE DEF n
<1>2. Queued(n, w) \in Row /\ Queued(n, w).first = w /\ Queued(n, w).latest = w
  BY <1>0, <1>1, RowOfWake
<1>3. PICK r : r = Queued(n, w)
  OBVIOUS
<1>4. Insert(r)
  BY <1>3 DEF Create, n
<1>5. ~Placed(w) /\ wakes' = Scheduled(w)
      /\ UNCHANGED << now, tasks, closings, speech, worker, raced, crowded, slipped, crashes >>
  BY DEF Create, Placed
<1> QED BY <1>2, <1>3, <1>4, <1>5, InsertBase

LEMMA ReplaceBase ==
    ASSUME Base, NEW w \in Wake, Replace(w)
    PROVE  Base'
<1>0. TypeOK
  BY DEF Base
<1>1. PICK c : c = wakes[w].copy
  OBVIOUS
<1>2. c \in Row /\ Known(c) /\ ~Placed(w)
  BY <1>1, HeldCopy DEF Replace, Holding
<1>3. PICK r : r = Queued(Amended(c, w), w)
  OBVIOUS
<1>4. r \in Row /\ r.first = c.first /\ r.latest = w
  BY <1>0, <1>2, <1>3, RowOfWake
<1>5. Insert(r) /\ wakes' = Scheduled(w)
      /\ UNCHANGED << now, tasks, closings, speech, worker, raced, crowded, slipped, crashes >>
  BY <1>1, <1>3 DEF Replace
<1>6. Placed(r.first)
  BY <1>2, <1>4 DEF Known
<1> QED BY <1>2, <1>4, <1>5, <1>6, InsertBase

LEMMA AmendBase ==
    ASSUME Base, NEW w \in Wake, Amend(w)
    PROVE  Base'
<1>0. TypeOK
  BY DEF Base
<1>1. PICK c : c = wakes[w].copy
  OBVIOUS
<1>2. c \in Row /\ Known(c) /\ ~Placed(w) /\ wakes[w].target \in DOMAIN rows
  BY <1>1, HeldCopy DEF Amend, Holding, Rewriting
<1>3. PICK j \in DOMAIN rows : j = wakes[w].target
  BY <1>2
<1>4. PICK r : r = Queued(Amended(c, w), w)
  OBVIOUS
<1>5. r \in Row /\ r.first = c.first /\ r.latest = w
  BY <1>0, <1>2, <1>4, RowOfWake
<1>6. rows' = [ rows EXCEPT ![j] = r ] /\ wakes' = Scheduled(w)
      /\ UNCHANGED << now, progress, tasks, closings, speech, worker, raced, crowded, slipped, crashes >>
  BY <1>1, <1>3, <1>4 DEF Amend
<1>7. PICK f \in Schedules({ 0 } \cup DOMAIN rows) :
        /\ wakes' = [ wakes EXCEPT ![w] = f ]
        /\ f.stage = "done" /\ f.at = wakes[w].at /\ f.listed = wakes[w].listed
  BY <1>0, <1>6, DoneWake
<1>8. PlacedStay /\ Placed(w)'
  BY <1>0, <1>7, OnlyWake
<1>9. /\ rows' \in Seq(Row) /\ Len(rows') = Len(rows) /\ DOMAIN rows' = DOMAIN rows
      /\ rows'[j] = r /\ \A i \in DOMAIN rows : i # j => rows'[i] = rows[i]
  BY <1>0, <1>5, <1>6, RowWritten
<1>10. Serves(r)
  BY <1>2, <1>5, <1>8 DEF Serves, Known, PlacedStay, Placed, Row
<1>11. \A i \in DOMAIN rows' : Known(rows[i])'
  BY <1>5, <1>8, <1>9, <1>10, RowsStayKnown
<1>15. Len(rows) \in Nat /\ Len(rows) <= Cardinality({ v \in Wake : Placed(v) })
  BY <1>0, Fields DEF Base, References
<1>12. Len(rows') <= Cardinality({ v \in Wake : Placed(v)' })
  BY <1>8, <1>9, <1>15, PlacedCount
<1>13. /\ tasks' \in [ Wake -> Task ] /\ raced' \subseteq DOMAIN rows'
       /\ \A v \in Wake : tasks'[v].state # "none" => tasks'[v].of \in DOMAIN rows
       /\ progress' \in Seq(Moment) /\ Len(progress') = Len(rows')
       /\ \A i \in DOMAIN rows' : progress'[i] <= now
  BY <1>0, <1>6, <1>9 DEF TypeOK, Base, References, Past
<1>14. f.at <= now /\ f.stage \notin Holding /\ \A d \in f.listed : d.job # 0 /\ Known(d.row)
  BY <1>7 DEF Base, References, Past, Holding, Rewriting
<1> QED BY <1>6, <1>7, <1>9, <1>11, <1>12, <1>13, <1>14, WakeStepBase

\* A task only settles.
LEMMA TasksSettle ==
    ASSUME Base, NEW S \in SUBSET Wake, \A v \in S : tasks[v].state = "open",
           tasks' = [ v \in Wake |-> IF v \in S THEN [ tasks[v] EXCEPT !.state = "settled" ] ELSE tasks[v] ]
    PROVE  /\ tasks' \in [ Wake -> Task ]
           /\ \A v \in Wake : /\ tasks'[v].of = tasks[v].of /\ tasks'[v].closed = tasks[v].closed
                              /\ tasks'[v].state = "none" <=> tasks[v].state = "none"
                              /\ tasks'[v].state = "open" => tasks[v].state = "open"
           /\ \A v \in Wake : tasks'[v].state # "none" => tasks'[v].of \in DOMAIN rows
<1>1. \A v \in Wake : tasks[v] \in Task
  BY DEF Base, TypeOK
<1>2. ASSUME NEW v \in Wake
      PROVE  /\ tasks'[v] \in Task
             /\ tasks'[v].of = tasks[v].of /\ tasks'[v].closed = tasks[v].closed
             /\ tasks'[v].state = "none" <=> tasks[v].state = "none"
             /\ tasks'[v].state = "open" => tasks[v].state = "open"
  BY <1>1 DEF Task
<1>3. tasks' \in [ Wake -> Task ]
  BY <1>2
<1> QED BY <1>2, <1>3 DEF Base, References

\* Some of the open tasks of row j settle.
LEMMA TreeSettles ==
    ASSUME Base, NEW w \in Wake, CancelTree(w)
    PROVE  /\ tasks' \in [ Wake -> Task ]
           /\ \A v \in Wake : /\ tasks'[v].of = tasks[v].of /\ tasks'[v].closed = tasks[v].closed
                              /\ tasks'[v].state = "none" <=> tasks[v].state = "none"
                              /\ tasks'[v].state = "open" => tasks[v].state = "open"
           /\ \A v \in Wake : tasks'[v].state # "none" => tasks'[v].of \in DOMAIN rows
<1>1. PICK S \in SUBSET { v \in Wake : tasks[v].of = wakes[w].target /\ tasks[v].state = "open" } :
        tasks' = [ v \in Wake |-> IF v \in S THEN [ tasks[v] EXCEPT !.state = "settled" ] ELSE tasks[v] ]
  BY DEF CancelTree
<1>2. S \in SUBSET Wake /\ \A v \in S : tasks[v].state = "open"
  OBVIOUS
<1> QED BY <1>1, <1>2, TasksSettle

LEMMA CancelTreeBase ==
    ASSUME Base, NEW w \in Wake, CancelTree(w)
    PROVE  Base'
<1>0. TypeOK /\ wakes[w].stage = "cancel" /\ "cancel" \in Holding /\ "root" \in Holding
  BY DEF Base, CancelTree, Holding, Rewriting
<1>1. PICK f : Proceeds(w, "root", f)
  BY <1>0, ProceedShape DEF CancelTree
<1>2. wakes[w].target # 0 /\ Known(wakes[w].copy) /\ \A c \in wakes[w].listed : c.job # 0 /\ Known(c.row)
  BY <1>0 DEF Base, References
<1>3. UNCHANGED << now, rows, progress, closings, speech, worker, raced, crowded, slipped, crashes >>
  BY DEF CancelTree
<1>4. ~Placed(w)
  BY <1>0 DEF Placed
<1>5. PlacedStay
  BY <1>0, <1>1, <1>4 DEF Proceeds, TypeOK, PlacedStay, Placed
<1>6. \A i \in DOMAIN rows' : Known(rows[i])'
  BY <1>3, <1>5, RowsStayKnown
<1>7. Len(rows) \in Nat /\ Len(rows) <= Cardinality({ v \in Wake : Placed(v) })
  BY <1>0, Fields DEF Base, References
<1>8. Len(rows') <= Cardinality({ v \in Wake : Placed(v)' })
  BY <1>3, <1>5, <1>7, PlacedCount
<1>9. tasks' \in [ Wake -> Task ] /\ \A v \in Wake : tasks'[v].state # "none" => tasks'[v].of \in DOMAIN rows
  BY TreeSettles
<1>10. /\ raced' \subseteq DOMAIN rows' /\ rows' \in Seq(Row)
       /\ progress' \in Seq(Moment) /\ Len(progress') = Len(rows')
       /\ \A i \in DOMAIN rows' : progress'[i] <= now
  BY <1>0, <1>3 DEF TypeOK, Base, Past
<1>11. f.at <= now
  BY <1>1 DEF Proceeds, Base, Past
<1> QED BY <1>1, <1>2, <1>3, <1>4, <1>6, <1>8, <1>9, <1>10, <1>11, WakeStepBase DEF Proceeds

LEMMA CancelRootBase ==
    ASSUME Base, NEW w \in Wake, CancelRoot(w)
    PROVE  Base'
<1>0. TypeOK /\ wakes[w].stage = "root" /\ "root" \in Holding /\ "replace" \in Holding
  BY DEF Base, CancelRoot, Holding, Rewriting
<1>1. PICK f : Proceeds(w, "replace", f)
  BY <1>0, ProceedShape DEF CancelRoot
<1>2. PICK c \in Row : c = wakes[w].copy /\ Known(c)
  BY <1>0, HeldCopy
<1>3. PICK j \in DOMAIN rows : j = wakes[w].target
  BY <1>0, HeldCopy
<1>4. PICK r : r = [ c EXCEPT !.state = IF @ = "running" THEN "cancel_requested" ELSE "settled" ]
  OBVIOUS
<1>5. r \in Row /\ r.first = c.first /\ r.latest = c.latest
  BY <1>2, <1>4 DEF Row
<1>6. /\ rows' = [ rows EXCEPT ![j] = r ] /\ ~Placed(w)
      /\ UNCHANGED << now, progress, tasks, closings, speech, worker, raced, crowded, slipped, crashes >>
  BY <1>0, <1>2, <1>3, <1>4 DEF CancelRoot, Placed
<1>7. PlacedStay
  BY <1>0, <1>1, <1>6 DEF Proceeds, TypeOK, PlacedStay, Placed
<1>8. /\ rows' \in Seq(Row) /\ Len(rows') = Len(rows) /\ DOMAIN rows' = DOMAIN rows
      /\ rows'[j] = r /\ \A i \in DOMAIN rows : i # j => rows'[i] = rows[i]
  BY <1>0, <1>5, <1>6, RowWritten
<1>9. Serves(r)
  BY <1>2, <1>5, <1>7 DEF Serves, Known, PlacedStay, Placed, Row
<1>10. \A i \in DOMAIN rows' : Known(rows[i])'
  BY <1>5, <1>7, <1>8, <1>9, RowsStayKnown
<1>11. Len(rows) \in Nat /\ Len(rows) <= Cardinality({ v \in Wake : Placed(v) })
  BY <1>0, Fields DEF Base, References
<1>12. Len(rows') <= Cardinality({ v \in Wake : Placed(v)' })
  BY <1>7, <1>8, <1>11, PlacedCount
<1>13. /\ raced' \subseteq DOMAIN rows'
       /\ progress' \in Seq(Moment) /\ Len(progress') = Len(rows')
       /\ \A i \in DOMAIN rows' : progress'[i] <= now
       /\ tasks' \in [ Wake -> Task ] /\ \A v \in Wake : tasks'[v].state # "none" => tasks'[v].of \in DOMAIN rows
  BY <1>0, <1>6, <1>8 DEF TypeOK, Base, References, Past
<1>14. wakes[w].target # 0 /\ Known(wakes[w].copy) /\ \A d \in wakes[w].listed : d.job # 0 /\ Known(d.row)
  BY <1>0 DEF Base, References
<1>15. f.at <= now
  BY <1>1 DEF Proceeds, Base, Past
<1> QED BY <1>1, <1>6, <1>8, <1>10, <1>12, <1>13, <1>14, <1>15, WakeStepBase DEF Proceeds

\* The steps of a handler or of the runtime, which leave the wakes alone.
LEMMA WorkStepBase ==
    ASSUME Base, UNCHANGED << now, wakes, speech, slipped, crashes >>,
           rows' \in Seq(Row), Len(rows') = Len(rows), \A i \in DOMAIN rows : Known(rows'[i]),
           progress' \in Seq(Moment), Len(progress') = Len(progress),
           \A j \in DOMAIN rows : progress'[j] <= now,
           tasks' \in [ Wake -> Task ],
           \A v \in Wake : tasks'[v].state # "none" => tasks'[v].of \in DOMAIN rows,
           closings' \in [ Wake -> Seq(Time) ],
           \A v \in Wake : closings'[v] # << >> => Placed(v),
           \A v \in Wake : \A i \in DOMAIN closings'[v] : closings'[v][i] <= now,
           worker' \in [ Worker -> Handler({ 0 } \cup DOMAIN rows) ],
           \A k \in Worker : /\ worker'[k].stage # "idle" => worker'[k].job # 0 /\ Known(worker'[k].copy)
                             /\ worker'[k].time <= now /\ worker'[k].closed <= now
                             /\ worker'[k].stage \in Bounded => worker'[k].closed # Never,
           raced' \subseteq DOMAIN rows, crowded' \subseteq Wake
    PROVE  Base'
<1>0. TypeOK
  BY DEF Base
<1>1. DOMAIN rows' = DOMAIN rows
  BY <1>0, Fields
<1>2. TypeOK'
  BY <1>0, <1>1 DEF TypeOK
<1>3. \A i \in DOMAIN rows' : Known(rows[i])'
  BY <1>1 DEF Known, Placed
<1>4. \A k \in Worker : worker'[k].stage # "idle" => worker'[k].job # 0 /\ Known(worker[k].copy)'
  BY DEF Known, Placed
<1>5. \A w \in Wake : wakes'[w].stage \in Holding => wakes'[w].target # 0 /\ Known(wakes[w].copy)'
  BY DEF Base, References, Known, Placed
<1>6. { v \in Wake : Placed(v)' } = { v \in Wake : Placed(v) }
  BY DEF Placed
<1>7. Len(rows') <= Cardinality({ v \in Wake : Placed(v)' })
  BY <1>6 DEF Base, References
<1>8. \A w \in Wake : closings'[w] # << >> => Placed(w)'
  BY DEF Placed
<1>11. \A w \in Wake : \A c \in wakes'[w].listed : c.job # 0 /\ Known(c.row)'
  BY DEF Base, References, Known, Placed
<1>9. References'
  BY <1>1, <1>3, <1>4, <1>5, <1>7, <1>8, <1>11 DEF References
<1>10. Past'
  BY <1>1 DEF Base, Past
<1> QED BY <1>2, <1>9, <1>10 DEF Base

LEMMA RowKnown ==
    ASSUME Base, NEW j \in DOMAIN rows, NEW r \in Row, Known(r), rows' = [ rows EXCEPT ![j] = r ]
    PROVE  /\ rows' \in Seq(Row) /\ Len(rows') = Len(rows) /\ DOMAIN rows' = DOMAIN rows
           /\ \A i \in DOMAIN rows : Known(rows'[i])
           /\ rows'[j] = r /\ \A i \in DOMAIN rows : i # j => rows'[i] = rows[i]
<1>1. /\ rows' \in Seq(Row) /\ Len(rows') = Len(rows) /\ DOMAIN rows' = DOMAIN rows
      /\ rows'[j] = r /\ \A i \in DOMAIN rows : i # j => rows'[i] = rows[i]
  BY RowWritten DEF Base
<1>2. ASSUME NEW i \in DOMAIN rows PROVE Known(rows'[i])
  <2>1. PICK q : q = rows'[i]
    OBVIOUS
  <2>2. q = r \/ q = rows[i]
    BY <1>1, <2>1
  <2>3. Known(q)
    BY <2>2, Untouched
  <2> QED BY <2>1, <2>3
<1> QED BY <1>1, <1>2

LEMMA WorkerKnown ==
    ASSUME Base, NEW k \in Worker, NEW h \in Handler({ 0 } \cup DOMAIN rows),
           h.stage # "idle" => h.job # 0 /\ Known(h.copy),
           h.time <= now, h.closed <= now, h.stage \in Bounded => h.closed # Never,
           worker' = [ worker EXCEPT ![k] = h ]
    PROVE  /\ worker' \in [ Worker -> Handler({ 0 } \cup DOMAIN rows) ]
           /\ worker'[k] = h /\ \A i \in Worker : i # k => worker'[i] = worker[i]
           /\ \A i \in Worker : /\ worker'[i].stage # "idle" => worker'[i].job # 0 /\ Known(worker'[i].copy)
                                /\ worker'[i].time <= now /\ worker'[i].closed <= now
                                /\ worker'[i].stage \in Bounded => worker'[i].closed # Never
<1>1. worker \in [ Worker -> Handler({ 0 } \cup DOMAIN rows) ]
  BY Untouched
<1>2. worker'[k] = h /\ \A i \in Worker : i # k => worker'[i] = worker[i]
  BY <1>1
<1>3. worker' \in [ Worker -> Handler({ 0 } \cup DOMAIN rows) ]
  BY <1>1
<1>4. ASSUME NEW i \in Worker
      PROVE  /\ worker'[i].stage # "idle" => worker'[i].job # 0 /\ Known(worker'[i].copy)
             /\ worker'[i].time <= now /\ worker'[i].closed <= now
             /\ worker'[i].stage \in Bounded => worker'[i].closed # Never
  <2>1. PICK q : q = worker'[i]
    OBVIOUS
  <2>2. q = h \/ q = worker[i]
    BY <1>2, <2>1
  <2>3. /\ q.stage # "idle" => q.job # 0 /\ Known(q.copy)
        /\ q.time <= now /\ q.closed <= now
        /\ q.stage \in Bounded => q.closed # Never
    BY <2>2, Untouched
  <2> QED BY <2>1, <2>3
<1> QED BY <1>2, <1>3, <1>4

---------------------------------------------------------------------------
(* The times of a handler. *)

\* What a handler works on.
LEMMA MineKnown ==
    ASSUME Base, NEW k \in Worker, worker[k].stage # "idle"
    PROVE  /\ worker[k].job \in DOMAIN rows /\ Mine(k) \in Row /\ Known(Mine(k))
           /\ Mine(k).first \in Wake /\ Mine(k).latest \in Wake
           /\ worker[k].time \in Int /\ worker[k].time <= now
           /\ worker[k].closed \in Moment /\ worker[k].closed <= now
           /\ worker[k].stage \in Bounded => worker[k].closed \in Time
<1>1. /\ worker[k].time \in Int /\ worker[k].closed \in Int
      /\ worker[k].copy \in Row /\ worker[k].job \in { 0 } \cup DOMAIN rows
  BY Fields DEF Base
<1>2. /\ worker[k].job # 0 /\ Known(worker[k].copy)
      /\ worker[k].time <= now /\ worker[k].closed <= now
      /\ worker[k].stage \in Bounded => worker[k].closed # Never
  BY Untouched
<1>3. worker[k].closed \in Moment
  BY Untouched DEF Handler
<1>4. Mine(k).first \in Wake /\ Mine(k).latest \in Wake
  BY <1>1 DEF Mine, Row
<1> QED BY <1>1, <1>2, <1>3, <1>4 DEF Mine, Moment

\* The least closing time of an activation, whatever its speaker does.
Lower(r) == Earlier(At(r.latest) + MinPost, HardCap(r))

\* The three kinds of times at which an activation's speaker is known to end.
WakeEnds(r) == { At(w) : w \in { v \in Wake : WakerOf[v] = Voice(r) /\ wakes[v].stage # "unheard" } }
ClosingSets(r) == { { closings[w][i] : i \in DOMAIN closings[w] } :
                    w \in { v \in Wake : WakerOf[v] = Voice(r) } }
ClosingEnds(r) == UNION ClosingSets(r)
SpeechEnds(r) == { speech[s].end : s \in { t \in Spoken(r) : speech[t].stage = "published" } }

LEMMA EndsInTime ==
    ASSUME TypeOK, NEW r \in Row
    PROVE  SpeakerEnds(r) \subseteq Time
<1>0. SpeakerEnds(r) = WakeEnds(r) \cup ClosingEnds(r) \cup SpeechEnds(r)
  BY Zenon DEF SpeakerEnds, WakeEnds, ClosingEnds, ClosingSets, SpeechEnds
<1>1. WakeEnds(r) \subseteq Time
  BY DEF WakeEnds, At, TypeOK, Schedules
<1>2. ASSUME NEW e \in ClosingEnds(r) PROVE e \in Time
  <2>1. PICK T \in ClosingSets(r) : e \in T
    BY <1>2 DEF ClosingEnds
  <2>2. PICK v \in Wake : T = { closings[v][i] : i \in DOMAIN closings[v] }
    BY <2>1 DEF ClosingSets
  <2>3. closings[v] \in Seq(Time)
    BY DEF TypeOK
  <2> QED BY <2>1, <2>2, <2>3
<1>3. SpeechEnds(r) \subseteq Time
  BY DEF SpeechEnds, Spoken, TypeOK, Stretch
<1> QED BY <1>0, <1>1, <1>2, <1>3

LEMMA DueAtIsNat ==
    ASSUME TypeOK, NEW r \in Row
    PROVE  /\ DueAt(r) \in Int /\ 0 <= DueAt(r) /\ Lower(r) <= DueAt(r)
           /\ HardCap(r) \in Int /\ 0 <= HardCap(r) /\ Lower(r) <= HardCap(r) /\ Lower(r) \in Int
           /\ 0 <= Lower(r)
<1>1. r.latest \in Wake /\ r.first \in Wake
  BY DEF Row
<1>2. PICK a \in Int : a = At(r.latest) /\ 0 <= a /\ a <= LastTick
  BY <1>1, Fields DEF At
<1>3. PICK b \in Int : b = At(r.first) /\ 0 <= b
  BY <1>1, Fields DEF At
<1>4. PICK S : S = { a } \cup SpeakerEnds(r)
  OBVIOUS
<1>5. S \in SUBSET (0 .. LastTick) /\ a \in S
  BY <1>2, <1>4, EndsInTime, WakeAssumption DEF Time
<1>6. Latest(S) \in S /\ a <= Latest(S)
  BY <1>5, LatestIsMember, TimeIsNat
<1>7. PICK last \in Int : last = Latest(S) /\ a <= last
  <2>1. PICK x : x = Latest(S)
    OBVIOUS
  <2>2. x \in 0 .. LastTick /\ a <= x
    BY <1>5, <1>6, <2>1
  <2> QED BY <2>1, <2>2
<1>8. MinPost \in Nat /\ Idle \in Nat /\ MaxWindow \in Nat
  BY WakeAssumption
<1>9. DueAt(r) = Earlier(Later(a + MinPost, last + Idle), b + MaxWindow)
  BY <1>2, <1>3, <1>4, <1>7 DEF DueAt, HardCap
<1>10. Lower(r) = Earlier(a + MinPost, b + MaxWindow) /\ HardCap(r) = b + MaxWindow
  BY <1>2, <1>3 DEF Lower, HardCap
<1> QED BY <1>2, <1>3, <1>7, <1>8, <1>9, <1>10 DEF Earlier, Later

LEMMA HeldUntilIsInt ==
    ASSUME TypeOK, NEW r \in Row, NEW time \in Int, Hold(r, time)
    PROVE  HeldUntil(r, time) \in Int
<1>1. PICK s \in Spoken(r) : TRUE
  BY DEF Hold
<1>2. PICK S : S = { speech[t].end : t \in Spoken(r) }
  OBVIOUS
<1>3. \A t \in Segment : speech[t].end \in 0 .. LastTick
  BY DEF TypeOK, Stretch, Time
<1>4. S \in SUBSET (0 .. LastTick) /\ S # {}
  BY <1>1, <1>2, <1>3 DEF Spoken
<1>5. PICK last \in Int : last = Latest(S)
  <2>1. PICK x : x = Latest(S)
    OBVIOUS
  <2>2. x \in S
    BY <1>4, <2>1, LatestIsMember, TimeIsNat
  <2>3. x \in 0 .. LastTick
    BY <1>4, <2>2
  <2> QED BY <2>1, <2>3
<1>6. HardCap(r) \in Int
  BY DueAtIsNat
<1>7. HeldUntil(r, time) = Earlier(IF last + Idle > time THEN last + Idle ELSE time + 1, HardCap(r))
  BY <1>2, <1>5 DEF HeldUntil
<1> QED BY <1>5, <1>6, <1>7, WakeAssumption DEF Earlier

\* The recorded closing of a wake that has one.
LEMMA RecordedClosing ==
    ASSUME Base, NEW w \in Wake, closings[w] # << >>
    PROVE  \E i \in DOMAIN closings[w] :
             /\ Latest({ closings[w][n] : n \in DOMAIN closings[w] }) = closings[w][i]
             /\ closings[w][i] \in Time /\ closings[w][i] <= now
<1>1. PICK q : q = closings[w]
  OBVIOUS
<1>2. q \in Seq(Time) /\ q # << >>
  BY <1>1, Untouched
<1>3. 1 \in DOMAIN q /\ \A i \in DOMAIN q : q[i] \in 0 .. LastTick
  <2>1. DOMAIN q = 1 .. Len(q) /\ Len(q) \in Nat /\ Len(q) # 0
    BY <1>2, EmptySeq
  <2>2. \A i \in DOMAIN q : q[i] \in Time
    BY <1>2
  <2> QED BY <2>1, <2>2 DEF Time
<1>4. PICK S : S = { q[n] : n \in DOMAIN q }
  OBVIOUS
<1>5. S \in SUBSET (0 .. LastTick) /\ S # {}
  BY <1>3, <1>4
<1>6. Latest(S) \in S
  BY <1>5, LatestIsMember, TimeIsNat
<1>7. PICK i \in DOMAIN q : Latest(S) = q[i]
  BY <1>4, <1>6
<1>8. q[i] \in Time /\ q[i] <= now
  BY <1>1, <1>3, Untouched DEF Time
<1> QED BY <1>1, <1>4, <1>7, <1>8

\* The boundary a handler sets is past, and leaves every wake its time.
LEMMA BoundaryIsPast ==
    ASSUME Base, NEW k \in Worker, EndWindow(k)
    PROVE  \E c \in Time : /\ c <= now /\ Lower(Mine(k)) <= c /\ c <= worker[k].time
                           /\ Settling(k, "close", c)
<1>1. worker[k].stage # "idle"
  BY DEF EndWindow, Started
<1>2. PICK r \in Row : r = Mine(k)
  BY <1>1, MineKnown
<1>3. PICK t \in Int : t = worker[k].time /\ t <= now
  BY <1>1, MineKnown
<1>4. /\ DueAt(r) \in Int /\ 0 <= DueAt(r) /\ Lower(r) <= DueAt(r)
      /\ HardCap(r) \in Int /\ 0 <= HardCap(r) /\ Lower(r) <= HardCap(r)
  BY DueAtIsNat DEF Base
<1>5. PICK c : c = IF t >= HardCap(r) THEN HardCap(r) ELSE DueAt(r)
  OBVIOUS
<1>6. t >= DueAt(r) /\ Settling(k, "close", c)
  BY <1>2, <1>3, <1>5 DEF EndWindow
<1>7. now \in Int /\ now <= LastTick
  BY Fields DEF Base
<1>8. c \in Int /\ 0 <= c /\ c <= t /\ Lower(r) <= c
  BY <1>3, <1>4, <1>5, <1>6
<1>9. c \in Time /\ c <= now
  BY <1>3, <1>7, <1>8, WakeAssumption DEF Time
<1> QED BY <1>2, <1>3, <1>6, <1>8, <1>9

---------------------------------------------------------------------------
(* The steps of a handler keep what is known. *)

Notes == { "requester", "context", "failed" }
Stages == { "idle", "start", "close", "record", "live", "slots", "jobs", "dispatch", "fail", "leave",
            "finish" }

\* A handler goes on: to its next stage, with a boundary, or with what it saw.
Moves(k, st, c, P) ==
    \/ Goto(k, st) /\ c = worker[k].closed /\ P = worker[k].pending
    \/ Settling(k, st, c) /\ P = worker[k].pending
    \/ See(k, st, P) /\ c = worker[k].closed /\ worker[k].pending \subseteq P

LEMMA HandlerMoves ==
    ASSUME Base, NEW k \in Worker, worker[k].stage # "idle",
           NEW st \in Stages \ { "idle" }, NEW c \in Moment, c <= now, st \in Bounded => c # Never,
           NEW P \in SUBSET Notes, Moves(k, st, c, P)
    PROVE  /\ worker' \in [ Worker -> Handler({ 0 } \cup DOMAIN rows) ]
           /\ worker'[k].stage = st /\ worker'[k].closed = c /\ worker'[k].pending = P
           /\ worker'[k].job = worker[k].job /\ worker'[k].copy = worker[k].copy
           /\ worker'[k].time = worker[k].time
           /\ \A i \in Worker : i # k => worker'[i] = worker[i]
           /\ \A i \in Worker : /\ worker'[i].stage # "idle" => worker'[i].job # 0 /\ Known(worker'[i].copy)
                                /\ worker'[i].time <= now /\ worker'[i].closed <= now
                                /\ worker'[i].stage \in Bounded => worker'[i].closed # Never
<1>1. worker \in [ Worker -> Handler({ 0 } \cup DOMAIN rows) ]
  BY Untouched
<1>2. PICK g \in Handler({ 0 } \cup DOMAIN rows) : g = worker[k]
  BY <1>1
<1> DEFINE h == [ g EXCEPT !.stage = st, !.closed = c, !.pending = P ]
<1>3. h \in Handler({ 0 } \cup DOMAIN rows) /\ h.stage = st /\ h.closed = c /\ h.pending = P
      /\ h.job = g.job /\ h.copy = g.copy /\ h.time = g.time
  BY <1>2 DEF Handler, Stages, Notes
<1>4. worker' = [ worker EXCEPT ![k] = h ]
  <2>1. CASE Goto(k, st) /\ c = worker[k].closed /\ P = worker[k].pending
    <3>1. h = [ g EXCEPT !.stage = st ]
      BY <1>2, <2>1 DEF Handler
    <3> QED BY <1>2, <2>1, <3>1 DEF Goto
  <2>2. CASE Settling(k, st, c) /\ P = worker[k].pending
    <3>1. h = [ g EXCEPT !.stage = st, !.closed = c ]
      BY <1>2, <2>2 DEF Handler
    <3>2. worker' = [ worker EXCEPT ![k] = [ g EXCEPT !.stage = st, !.closed = c ] ]
      BY <1>1, <1>2, <2>2 DEF Settling
    <3> QED BY <3>1, <3>2
  <2>3. CASE See(k, st, P) /\ c = worker[k].closed /\ worker[k].pending \subseteq P
    <3>1. PICK Q : Q = g.pending \cup P
      OBVIOUS
    <3>2. Q = P
      BY <1>2, <2>3, <3>1
    <3>3. h = [ g EXCEPT !.stage = st, !.pending = Q ]
      BY <1>2, <2>3, <3>2 DEF Handler
    <3>4. worker' = [ worker EXCEPT ![k] = [ g EXCEPT !.stage = st, !.pending = Q ] ]
      BY <1>1, <1>2, <2>3, <3>1 DEF See
    <3> QED BY <3>3, <3>4
  <2> QED BY <2>1, <2>2, <2>3 DEF Moves
<1> HIDE DEF h
<1>5. g.job # 0 /\ Known(g.copy) /\ g.time <= now
  BY <1>2, Untouched
<1>6. /\ worker' \in [ Worker -> Handler({ 0 } \cup DOMAIN rows) ]
      /\ worker'[k] = h /\ \A i \in Worker : i # k => worker'[i] = worker[i]
      /\ \A i \in Worker : /\ worker'[i].stage # "idle" => worker'[i].job # 0 /\ Known(worker'[i].copy)
                           /\ worker'[i].time <= now /\ worker'[i].closed <= now
                           /\ worker'[i].stage \in Bounded => worker'[i].closed # Never
  BY <1>3, <1>4, <1>5, WorkerKnown
<1> QED BY <1>2, <1>3, <1>6

\* What a handler sees beside what it saw.
LEMMA SeesMore ==
    ASSUME Base, NEW k \in Worker, NEW st, NEW found \in SUBSET Notes, See(k, st, found)
    PROVE  \E P \in SUBSET Notes : P = worker[k].pending \cup found /\ See(k, st, P)
                                   /\ worker[k].pending \subseteq P
<1>1. worker[k].pending \in SUBSET Notes
  BY Untouched DEF Handler, Notes
<1>2. PICK Q : Q = worker[k].pending
  OBVIOUS
<1>3. Q \cup found = Q \cup (Q \cup found)
  OBVIOUS
<1>4. See(k, st, Q \cup found)
  BY <1>2, <1>3 DEF See
<1> QED BY <1>1, <1>2, <1>4

\* A move that writes nothing else.
LEMMA MoveBase ==
    ASSUME Base, NEW k \in Worker, worker[k].stage # "idle",
           NEW st \in Stages \ { "idle" }, NEW c \in Moment, c <= now, st \in Bounded => c # Never,
           NEW P \in SUBSET Notes, Moves(k, st, c, P),
           UNCHANGED << now, rows, progress, tasks, closings, wakes, speech, raced, crowded, slipped, crashes >>
    PROVE  Base'
<1>1. /\ worker' \in [ Worker -> Handler({ 0 } \cup DOMAIN rows) ]
      /\ \A i \in Worker : /\ worker'[i].stage # "idle" => worker'[i].job # 0 /\ Known(worker'[i].copy)
                           /\ worker'[i].time <= now /\ worker'[i].closed <= now
                           /\ worker'[i].stage \in Bounded => worker'[i].closed # Never
  BY HandlerMoves
<1> QED BY <1>1, Untouched, WorkStepBase

\* The moves of each step.
LEMMA GotoMoves ==
    ASSUME Base, NEW k \in Worker, worker[k].stage # "idle", NEW st, Goto(k, st)
    PROVE  \E c \in Moment, P \in SUBSET Notes :
             /\ Moves(k, st, c, P) /\ c <= now /\ c = worker[k].closed
             /\ worker[k].stage \in Bounded => c # Never
<1>1. worker[k].closed \in Moment /\ worker[k].pending \in SUBSET Notes
  BY Untouched DEF Handler, Notes
<1> QED BY <1>1, Untouched DEF Moves

LEMMA DeferBase ==
    ASSUME Base, NEW k \in Worker, worker[k].stage # "idle", NEW due \in Int, Defer(k, due)
    PROVE  Base'
<1>1. /\ worker[k].job \in DOMAIN rows /\ Mine(k) \in Row /\ Known(Mine(k))
  BY MineKnown
<1>2. PICK j \in DOMAIN rows : j = worker[k].job
  BY <1>1
<1>3. PICK c \in Row : c = Mine(k) /\ Known(c)
  BY <1>1
<1>4. PICK r : r = [ c EXCEPT !.state = "queued", !.due = due ]
  OBVIOUS
<1>5. r \in Row /\ r.first = c.first /\ r.latest = c.latest
  BY <1>4 DEF Row
<1>6. Known(r)
  BY <1>3, <1>5 DEF Known
<1>7. rows' = [ rows EXCEPT ![j] = r ] /\ Goto(k, "leave")
      /\ UNCHANGED << now, progress, tasks, closings, wakes, speech, raced, crowded, slipped, crashes >>
  BY <1>2, <1>3, <1>4 DEF Defer, Leave
<1>8. rows' \in Seq(Row) /\ Len(rows') = Len(rows) /\ \A i \in DOMAIN rows : Known(rows'[i])
  BY <1>5, <1>6, <1>7, RowKnown
<1>9. PICK t \in Moment, P \in SUBSET Notes : Moves(k, "leave", t, P) /\ t <= now
  BY <1>7, GotoMoves
<1>10. "leave" \in Stages \ { "idle" } /\ "leave" \notin Bounded
  BY DEF Stages, Bounded, Active
<1>11. /\ worker' \in [ Worker -> Handler({ 0 } \cup DOMAIN rows) ]
       /\ \A i \in Worker : /\ worker'[i].stage # "idle" => worker'[i].job # 0 /\ Known(worker'[i].copy)
                            /\ worker'[i].time <= now /\ worker'[i].closed <= now
                            /\ worker'[i].stage \in Bounded => worker'[i].closed # Never
  BY <1>9, <1>10, HandlerMoves
<1> QED BY <1>7, <1>8, <1>11, Untouched, WorkStepBase

LEMMA ResumeBase ==
    ASSUME Base, NEW k \in Worker, Resume(k)
    PROVE  Base'
<1>1. worker[k].stage = "start" /\ worker[k].job \in DOMAIN rows
  BY MineKnown DEF Resume
<1>2. PICK c \in Moment : c = progress[worker[k].job] /\ c <= now /\ c # Never
  BY <1>1, Untouched, Fields DEF Resume, Base
<1>3. PICK P \in SUBSET Notes : P = worker[k].pending
  BY Untouched DEF Handler, Notes
<1>4. Moves(k, "live", c, P)
  BY <1>2, <1>3 DEF Resume, Moves
<1>5. "live" \in Stages \ { "idle" }
  BY DEF Stages
<1>6. UNCHANGED << now, rows, progress, tasks, closings, wakes, speech, raced, crowded, slipped, crashes >>
  BY DEF Resume, unchangedByReading
<1> QED BY <1>1, <1>2, <1>4, <1>5, <1>6, MoveBase

\* The handler finds its window closed.
LEMMA RediscoverFinds ==
    ASSUME Base, NEW k \in Worker, Rediscover(k)
    PROVE  \E i \in DOMAIN closings[Mine(k).latest] :
             /\ closings[Mine(k).latest][i] \in Time /\ closings[Mine(k).latest][i] <= now
             /\ Settling(k, "record", closings[Mine(k).latest][i])
<1>1. PICK w \in Wake : w = Mine(k).latest /\ closings[w] # << >>
  BY MineKnown DEF Rediscover, Started, Unclosed
<1>2. Settling(k, "record", Latest({ closings[w][i] : i \in DOMAIN closings[w] }))
  BY <1>1 DEF Rediscover
<1> QED BY <1>1, <1>2, RecordedClosing

LEMMA RediscoverBase ==
    ASSUME Base, NEW k \in Worker, Rediscover(k)
    PROVE  Base'
<1>1. PICK c \in Time : c <= now /\ Settling(k, "record", c)
  BY RediscoverFinds
<1>2. c \in Moment /\ c # Never
  BY TimeIsNat DEF Moment
<1>3. PICK P \in SUBSET Notes : P = worker[k].pending
  BY Untouched DEF Handler, Notes
<1>4. Moves(k, "record", c, P) /\ worker[k].stage # "idle"
  BY <1>1, <1>3 DEF Rediscover, Started, Moves
<1>5. "record" \in Stages \ { "idle" }
  BY DEF Stages
<1>6. UNCHANGED << now, rows, progress, tasks, closings, wakes, speech, raced, crowded, slipped, crashes >>
  BY DEF Rediscover, unchangedByReading
<1> QED BY <1>1, <1>2, <1>4, <1>5, <1>6, MoveBase

LEMMA EndWindowBase ==
    ASSUME Base, NEW k \in Worker, EndWindow(k)
    PROVE  Base'
<1>1. PICK c \in Time : c <= now /\ Settling(k, "close", c)
  BY BoundaryIsPast
<1>2. c \in Moment /\ c # Never
  BY TimeIsNat DEF Moment
<1>3. PICK P \in SUBSET Notes : P = worker[k].pending
  BY Untouched DEF Handler, Notes
<1>4. Moves(k, "close", c, P) /\ worker[k].stage # "idle"
  BY <1>1, <1>3 DEF EndWindow, Started, Moves
<1>5. "close" \in Stages \ { "idle" }
  BY DEF Stages
<1>6. UNCHANGED << now, rows, progress, tasks, closings, wakes, speech, raced, crowded, slipped, crashes >>
  BY DEF EndWindow, unchangedByReading
<1> QED BY <1>1, <1>2, <1>4, <1>5, <1>6, MoveBase

LEMMA WaitBase ==
    ASSUME Base, NEW k \in Worker, WaitForDue(k) \/ WaitForSpeaker(k) \/ WaitForTranscription(k)
    PROVE  Base'
<1>1. worker[k].stage # "idle"
  BY DEF WaitForDue, WaitForSpeaker, WaitForTranscription, Started
<1>2. Mine(k) \in Row /\ worker[k].time \in Int
  BY <1>1, MineKnown
<1>3. PICK r \in Row : r = Mine(k)
  BY <1>2
<1>4. PICK t \in Int : t = worker[k].time
  BY <1>2
<1>5. CASE WaitForDue(k)
  <2>1. DueAt(r) \in Int
    BY DueAtIsNat DEF Base
  <2> QED BY <1>1, <1>3, <1>5, <2>1, DeferBase DEF WaitForDue
<1>6. CASE WaitForSpeaker(k)
  <2>1. HeldUntil(r, t) \in Int
    BY <1>3, <1>4, <1>6, HeldUntilIsInt DEF Base, WaitForSpeaker
  <2> QED BY <1>1, <1>3, <1>4, <1>6, <2>1, DeferBase DEF WaitForSpeaker
<1>7. CASE WaitForTranscription(k)
  <2>1. t + 1 \in Int
    OBVIOUS
  <2> QED BY <1>1, <1>4, <1>7, <2>1, DeferBase DEF WaitForTranscription
<1> QED BY <1>5, <1>6, <1>7

\* The event of a closing is appended to those of the wake.
LEMMA ClosingAppended ==
    ASSUME Base, NEW k \in Worker, Close(k)
    PROVE  /\ worker[k].closed \in Time
           /\ closings' \in [ Wake -> Seq(Time) ]
           /\ \A v \in Wake : closings'[v] # << >> => Placed(v)
           /\ \A v \in Wake : \A i \in DOMAIN closings'[v] :
                \/ i \in DOMAIN closings[v] /\ closings'[v][i] = closings[v][i]
                \/ v = Mine(k).latest /\ closings'[v][i] = worker[k].closed
           /\ \A v \in Wake : v # Mine(k).latest => closings'[v] = closings[v]
           /\ closings[Mine(k).latest] = << >> => Len(closings'[Mine(k).latest]) = 1
<1>1. worker[k].stage = "close"
  BY DEF Close
<1>2. PICK c \in Time : c = worker[k].closed /\ c <= now
  BY <1>1, MineKnown DEF Bounded, Active
<1>3. PICK w \in Wake : w = Mine(k).latest /\ Placed(w)
  BY <1>1, MineKnown DEF Known
<1>4. PICK q \in Seq(Time) : q = closings[w]
  BY Untouched
<1>5. PICK p : p = Append(q, c)
  OBVIOUS
<1>6. p \in Seq(Time) /\ Len(p) = Len(q) + 1 /\ p[Len(q) + 1] = c
      /\ \A i \in 1 .. Len(q) : p[i] = q[i]
  BY <1>5, AppendProperties
<1>7. closings' = [ closings EXCEPT ![w] = p ]
  BY <1>2, <1>3, <1>4, <1>5 DEF Close
<1>8. closings'[w] = p /\ closings' \in [ Wake -> Seq(Time) ] /\ \A v \in Wake : v # w => closings'[v] = closings[v]
  BY <1>6, <1>7, Untouched
<1>9. DOMAIN p = 1 .. Len(p) /\ DOMAIN q = 1 .. Len(q) /\ Len(q) \in Nat
  BY <1>6
<1>10. ASSUME NEW i \in DOMAIN p PROVE (i \in DOMAIN q /\ p[i] = q[i]) \/ p[i] = c
  BY <1>6, <1>9, <1>10
<1>11. q = << >> => Len(p) = 1
  BY <1>6
<1> QED BY <1>2, <1>3, <1>4, <1>8, <1>10, <1>11, Untouched

LEMMA CloseBase ==
    ASSUME Base, NEW k \in Worker, Close(k)
    PROVE  Base'
<1>1. worker[k].stage = "close" /\ Goto(k, "record")
      /\ UNCHANGED << now, rows, progress, tasks, wakes, speech, raced, crowded, slipped, crashes >>
  BY DEF Close, unchangedByReading
<1>2. PICK c \in Moment, P \in SUBSET Notes : Moves(k, "record", c, P) /\ c <= now /\ c # Never
  BY <1>1, GotoMoves DEF Bounded, Active
<1>3. "record" \in Stages \ { "idle" } /\ worker[k].stage # "idle"
  BY <1>1 DEF Stages
<1>4. /\ worker' \in [ Worker -> Handler({ 0 } \cup DOMAIN rows) ]
      /\ \A i \in Worker : /\ worker'[i].stage # "idle" => worker'[i].job # 0 /\ Known(worker'[i].copy)
                           /\ worker'[i].time <= now /\ worker'[i].closed <= now
                           /\ worker'[i].stage \in Bounded => worker'[i].closed # Never
  BY <1>2, <1>3, HandlerMoves
<1>5. worker[k].closed <= now
  BY Untouched
<1>6. ASSUME NEW v \in Wake, NEW i \in DOMAIN closings'[v] PROVE closings'[v][i] <= now
  <2>1. CASE i \in DOMAIN closings[v] /\ closings'[v][i] = closings[v][i]
    <3>1. closings[v][i] <= now
      BY <2>1, Untouched
    <3> QED BY <2>1, <3>1
  <2>2. CASE closings'[v][i] = worker[k].closed
    BY <1>5, <2>2
  <2> QED BY <2>1, <2>2, ClosingAppended
<1> QED BY <1>1, <1>4, <1>6, ClosingAppended, Untouched, WorkStepBase

LEMMA RecordBase ==
    ASSUME Base, NEW k \in Worker, Record(k)
    PROVE  Base'
<1>1. worker[k].stage = "record" /\ Goto(k, "live")
      /\ UNCHANGED << now, rows, closings, tasks, wakes, speech, raced, crowded, slipped, crashes >>
  BY DEF Record, unchangedByReading
<1>2. PICK c \in Moment, P \in SUBSET Notes :
        Moves(k, "live", c, P) /\ c <= now /\ c # Never /\ c = worker[k].closed
  BY <1>1, GotoMoves DEF Bounded, Active
<1>3. "live" \in Stages \ { "idle" } /\ worker[k].stage # "idle"
  BY <1>1 DEF Stages
<1>4. /\ worker' \in [ Worker -> Handler({ 0 } \cup DOMAIN rows) ]
      /\ \A i \in Worker : /\ worker'[i].stage # "idle" => worker'[i].job # 0 /\ Known(worker'[i].copy)
                           /\ worker'[i].time <= now /\ worker'[i].closed <= now
                           /\ worker'[i].stage \in Bounded => worker'[i].closed # Never
  BY <1>2, <1>3, HandlerMoves
<1>5. PICK j \in DOMAIN rows : j = worker[k].job
  BY <1>3, MineKnown
<1>6. progress' = [ progress EXCEPT ![j] = c ]
  BY <1>2, <1>5 DEF Record
<1>7. progress' \in Seq(Moment) /\ Len(progress') = Len(progress) /\ \A i \in DOMAIN rows : progress'[i] <= now
  BY <1>2, <1>6, ProgressSet
<1> QED BY <1>1, <1>4, <1>7, Untouched, WorkStepBase

LEMMA NotesSeen ==
    ASSUME NEW k \in Worker, NEW S, NEW st
    PROVE  Pending(k, S) \in SUBSET Notes /\ Failure(k, st) \in SUBSET Notes
BY DEF Pending, Failure, Notes

LEMMA ReadBase ==
    ASSUME Base, NEW k \in Worker, ReadLive(k) \/ ReadSlots(k) \/ ReadJobs(k)
    PROVE  Base'
<1>1. worker[k].stage \in { "live", "slots", "jobs" }
      /\ UNCHANGED << now, rows, progress, tasks, closings, wakes, speech, raced, crowded, slipped, crashes >>
  BY DEF ReadLive, ReadSlots, ReadJobs, unchangedByReading
<1>2. PICK st \in { "slots", "jobs", "fail", "dispatch" }, found \in SUBSET Notes : See(k, st, found)
  <2>1. CASE ReadLive(k)
    BY <2>1, NotesSeen DEF ReadLive
  <2>2. CASE ReadSlots(k)
    <3>1. Pending(k, { "slot" }) \cup Failure(k, "slot_failed") \in SUBSET Notes
      BY NotesSeen
    <3> QED BY <2>2, <3>1 DEF ReadSlots
  <2>3. CASE ReadJobs(k)
    <3>1. {} \in SUBSET Notes
      OBVIOUS
    <3>2. See(k, "fail", {}) \/ See(k, "dispatch", {})
      BY <2>3 DEF ReadJobs
    <3> QED BY <3>1, <3>2
  <2> QED BY <2>1, <2>2, <2>3
<1>3. PICK P \in SUBSET Notes : See(k, st, P) /\ worker[k].pending \subseteq P
  BY <1>2, SeesMore
<1>4. PICK c \in Moment : c = worker[k].closed /\ c <= now /\ c # Never
  BY <1>1, Untouched DEF Handler, Bounded, Active
<1>5. st \in Stages \ { "idle" } /\ worker[k].stage # "idle"
  BY <1>1, <1>2 DEF Stages
<1>6. Moves(k, st, c, P)
  BY <1>3, <1>4 DEF Moves
<1> QED BY <1>1, <1>4, <1>5, <1>6, MoveBase

LEMMA DispatchBase ==
    ASSUME Base, NEW k \in Worker, Dispatch(k)
    PROVE  Base'
<1>1. worker[k].stage = "dispatch" /\ Goto(k, "leave")
      /\ UNCHANGED << now, progress, closings, wakes, speech, raced, crowded, slipped, crashes >>
  BY DEF Dispatch, Leave
<1>2. PICK t \in Moment, P \in SUBSET Notes : Moves(k, "leave", t, P) /\ t <= now
  BY <1>1, GotoMoves
<1>3. "leave" \in Stages \ { "idle" } /\ "leave" \notin Bounded /\ worker[k].stage # "idle"
  BY <1>1 DEF Stages, Bounded, Active
<1>4. /\ worker' \in [ Worker -> Handler({ 0 } \cup DOMAIN rows) ]
      /\ \A i \in Worker : /\ worker'[i].stage # "idle" => worker'[i].job # 0 /\ Known(worker'[i].copy)
                           /\ worker'[i].time <= now /\ worker'[i].closed <= now
                           /\ worker'[i].stage \in Bounded => worker'[i].closed # Never
  BY <1>2, <1>3, HandlerMoves
<1>5. PICK j \in DOMAIN rows : j = worker[k].job
  BY <1>3, MineKnown
<1>6. PICK c \in Row : c = Mine(k) /\ Known(c) /\ c.latest \in Wake
  BY <1>3, MineKnown
<1>7. PICK r : r = [ c EXCEPT !.state = "waiting" ]
  OBVIOUS
<1>8. r \in Row /\ r.first = c.first /\ r.latest = c.latest
  BY <1>7 DEF Row
<1>9. Known(r)
  BY <1>6, <1>8 DEF Known
<1>10. rows' = [ rows EXCEPT ![j] = r ]
  BY <1>5, <1>6, <1>7 DEF Dispatch
<1>11. rows' \in Seq(Row) /\ Len(rows') = Len(rows) /\ \A i \in DOMAIN rows : Known(rows'[i])
  BY <1>8, <1>9, <1>10, RowKnown
<1>12. PICK m \in Moment : m = worker[k].closed
  BY <1>3, MineKnown
<1>13. PICK a : a = [ state |-> "open", of |-> j, closed |-> m ]
  OBVIOUS
<1>14. j \in Nat
  BY Fields DEF Base
<1>15. a \in Task /\ a.of = j
  BY <1>13, <1>14 DEF Task
<1>16. PICK w \in Wake : w = c.latest
  BY <1>6
<1>17. tasks' = [ tasks EXCEPT ![w] = a ]
  BY <1>5, <1>6, <1>12, <1>13, <1>16 DEF Dispatch
<1>18. tasks' \in [ Wake -> Task ] /\ \A v \in Wake : tasks'[v].state # "none" => tasks'[v].of \in DOMAIN rows
  BY <1>15, <1>17, Untouched
<1> QED BY <1>1, <1>4, <1>11, <1>18, Untouched, WorkStepBase

LEMMA NoRequestBase ==
    ASSUME Base, NEW k \in Worker, NoRequest(k)
    PROVE  Base'
<1>1. worker[k].stage = "dispatch" /\ Goto(k, "leave")
      /\ UNCHANGED << now, rows, progress, tasks, closings, wakes, speech, raced, crowded, slipped, crashes >>
  BY DEF NoRequest, Leave, unchangedByReading
<1>2. PICK t \in Moment, P \in SUBSET Notes : Moves(k, "leave", t, P) /\ t <= now
  BY <1>1, GotoMoves
<1>3. "leave" \in Stages \ { "idle" } /\ "leave" \notin Bounded /\ worker[k].stage # "idle"
  BY <1>1 DEF Stages, Bounded, Active
<1> QED BY <1>1, <1>2, <1>3, MoveBase

LEMMA IdlingKnown ==
    ASSUME Base
    PROVE  /\ Idling \in Handler({ 0 } \cup DOMAIN rows) /\ Idling.stage = "idle"
           /\ Idling.time <= now /\ Idling.closed <= now /\ "idle" \notin Bounded
<1>1. now \in Int /\ 0 <= now
  BY Fields DEF Base
<1>2. Idling.time = 0 /\ Idling.closed = Never /\ Idling.stage = "idle"
  BY DEF Idling
<1>3. Idling.time <= now /\ Idling.closed <= now
  BY <1>1, <1>2 DEF Never
<1> QED BY <1>2, <1>3, IdlingType DEF Bounded, Active

\* The row is read again, and what will be written is kept.
LEMMA RereadShape ==
    ASSUME Base, NEW k \in Worker, Reread(k)
    PROVE  /\ worker[k].stage \in { "leave", "fail" } /\ worker[k].job \in DOMAIN rows
           /\ UNCHANGED << now, rows, progress, tasks, closings, wakes, speech, raced, crowded, slipped, crashes >>
           /\ \E h \in Handler({ 0 } \cup DOMAIN rows) :
                /\ worker' = [ worker EXCEPT ![k] = h ]
                /\ h.stage = "finish" /\ h.job = worker[k].job
                /\ h.time = worker[k].time /\ h.closed = worker[k].closed
                /\ h.copy \in Row /\ Known(h.copy)
                /\ h.copy.first = rows[worker[k].job].first
                /\ h.copy.latest = rows[worker[k].job].latest
                /\ h.copy.heard = rows[worker[k].job].heard
                /\ h.copy.state = "queued" => rows[worker[k].job].state = "queued"
<1>1. /\ worker[k].stage \in { "leave", "fail" }
      /\ UNCHANGED << now, rows, progress, tasks, closings, wakes, speech, raced, crowded, slipped, crashes >>
  BY DEF Reread, unchangedByReading
<1>2. PICK j \in DOMAIN rows : j = worker[k].job
  BY <1>1, MineKnown
<1>3. PICK c \in Row : c = rows[j] /\ Known(c)
  BY Fields, Untouched DEF Base
<1>4. PICK r : r = IF worker[k].stage = "fail" \/ c.state \notin { "queued", "waiting" }
                   THEN [ c EXCEPT !.state = "settled" ] ELSE c
  OBVIOUS
<1>5. /\ r \in Row /\ r.first = c.first /\ r.latest = c.latest /\ r.heard = c.heard
      /\ r.state = "queued" => c.state = "queued"
  BY <1>3, <1>4 DEF Row
<1>6. PICK g \in Handler({ 0 } \cup DOMAIN rows) : g = worker[k]
  BY Untouched
<1>7. PICK h : h = [ g EXCEPT !.stage = "finish", !.copy = r ]
  OBVIOUS
<1>8. /\ h \in Handler({ 0 } \cup DOMAIN rows) /\ h.stage = "finish" /\ h.copy = r
      /\ h.job = g.job /\ h.time = g.time /\ h.closed = g.closed
  BY <1>5, <1>6, <1>7 DEF Handler
<1>9. worker' = [ worker EXCEPT ![k] = h ]
  BY <1>2, <1>3, <1>4, <1>6, <1>7, Untouched DEF Reread
<1>10. Known(r)
  BY <1>3, <1>5 DEF Known
<1> QED BY <1>1, <1>2, <1>3, <1>5, <1>6, <1>8, <1>9, <1>10

LEMMA RereadBase ==
    ASSUME Base, NEW k \in Worker, Reread(k)
    PROVE  Base'
<1>1. UNCHANGED << now, rows, progress, tasks, closings, wakes, speech, raced, crowded, slipped, crashes >>
  BY RereadShape
<1>2. PICK h \in Handler({ 0 } \cup DOMAIN rows) :
        /\ worker' = [ worker EXCEPT ![k] = h ]
        /\ h.stage = "finish" /\ h.job = worker[k].job
        /\ h.time = worker[k].time /\ h.closed = worker[k].closed /\ Known(h.copy)
  BY RereadShape
<1>3. worker[k].stage # "idle"
  BY RereadShape
<1>4. h.job # 0 /\ h.time <= now /\ h.closed <= now /\ h.stage \notin Bounded
  BY <1>2, <1>3, Untouched DEF Bounded, Active
<1>5. /\ worker' \in [ Worker -> Handler({ 0 } \cup DOMAIN rows) ]
      /\ \A i \in Worker : /\ worker'[i].stage # "idle" => worker'[i].job # 0 /\ Known(worker'[i].copy)
                           /\ worker'[i].time <= now /\ worker'[i].closed <= now
                           /\ worker'[i].stage \in Bounded => worker'[i].closed # Never
  BY <1>2, <1>4, WorkerKnown
<1> QED BY <1>1, <1>5, Untouched, WorkStepBase

LEMMA FinishBase ==
    ASSUME Base, NEW k \in Worker, Finish(k)
    PROVE  Base'
<1>1. worker[k].stage = "finish"
      /\ UNCHANGED << now, progress, tasks, closings, wakes, speech, raced, crowded, slipped, crashes >>
  BY DEF Finish
<1>2. PICK j \in DOMAIN rows : j = worker[k].job
  BY <1>1, MineKnown
<1>3. PICK c \in Row : c = Mine(k) /\ Known(c)
  BY <1>1, MineKnown
<1>4. rows' = [ rows EXCEPT ![j] = c ]
  BY <1>2, <1>3 DEF Finish
<1>5. rows' \in Seq(Row) /\ Len(rows') = Len(rows) /\ \A i \in DOMAIN rows : Known(rows'[i])
  BY <1>3, <1>4, RowKnown
<1>6. PICK h \in Handler({ 0 } \cup DOMAIN rows) : h = Idling /\ h.stage = "idle" /\ h.time <= now /\ h.closed <= now
  BY IdlingKnown
<1>7. worker' = [ worker EXCEPT ![k] = h ]
  BY <1>6 DEF Finish
<1>8. /\ worker' \in [ Worker -> Handler({ 0 } \cup DOMAIN rows) ]
      /\ \A i \in Worker : /\ worker'[i].stage # "idle" => worker'[i].job # 0 /\ Known(worker'[i].copy)
                           /\ worker'[i].time <= now /\ worker'[i].closed <= now
                           /\ worker'[i].stage \in Bounded => worker'[i].closed # Never
  BY <1>6, <1>7, IdlingKnown, WorkerKnown
<1> QED BY <1>1, <1>5, <1>8, Untouched, WorkStepBase

LEMMA HandleBase ==
    ASSUME Base, NEW k \in Worker, Handle(k)
    PROVE  Base'
BY ResumeBase, RediscoverBase, EndWindowBase, WaitBase, CloseBase, RecordBase, ReadBase,
   DispatchBase, NoRequestBase, RereadBase, FinishBase DEF Handle, Open

LEMMA TaskSettlesBase ==
    ASSUME Base, NEW w \in Wake, TaskSettles(w)
    PROVE  Base'
<1>1. PICK S \in SUBSET Wake : S = { w }
  OBVIOUS
<1>2. tasks' = [ v \in Wake |-> IF v \in S THEN [ tasks[v] EXCEPT !.state = "settled" ] ELSE tasks[v] ]
  BY <1>1, Untouched DEF TaskSettles
<1>3. tasks' \in [ Wake -> Task ] /\ \A v \in Wake : tasks'[v].state # "none" => tasks'[v].of \in DOMAIN rows
  BY <1>1, <1>2, TasksSettle DEF TaskSettles
<1>4. UNCHANGED << now, rows, progress, closings, wakes, speech, worker, raced, crowded, slipped, crashes >>
  BY DEF TaskSettles
<1> QED BY <1>3, <1>4, Untouched, WorkStepBase

LEMMA RowSettlesBase ==
    ASSUME Base, NEW j \in DOMAIN rows, ResolveWaiting(j) \/ Sweep(j)
    PROVE  Base'
<1>1. PICK c \in Row : c = rows[j] /\ Known(c)
  BY Fields, Untouched DEF Base
<1>2. PICK r : r = [ c EXCEPT !.state = "settled" ]
  OBVIOUS
<1>3. r \in Row /\ r.first = c.first /\ r.latest = c.latest
  BY <1>2 DEF Row
<1>4. Known(r)
  BY <1>1, <1>3 DEF Known
<1>5. rows' = [ rows EXCEPT ![j] = r ]
      /\ UNCHANGED << now, progress, tasks, closings, wakes, speech, worker, raced, crowded, slipped, crashes >>
  BY <1>1, <1>2 DEF ResolveWaiting, Sweep
<1>6. rows' \in Seq(Row) /\ Len(rows') = Len(rows) /\ \A i \in DOMAIN rows : Known(rows'[i])
  BY <1>3, <1>4, <1>5, RowKnown
<1> QED BY <1>5, <1>6, Untouched, WorkStepBase

\* What a claim makes of the row and of the worker.
Claims(k, j, r, h) ==
    /\ r \in Row /\ h \in Handler({ 0 } \cup DOMAIN rows)
    /\ r.state = "running" /\ r.first = rows[j].first /\ r.latest = rows[j].latest
    /\ r.heard = rows[j].heard
    /\ h.stage = "start" /\ h.job = j /\ h.copy = r /\ h.time = now /\ h.closed = Never
    /\ h.pending = {}
    /\ rows' = [ rows EXCEPT ![j] = r ] /\ worker' = [ worker EXCEPT ![k] = h ]

LEMMA ClaimShape ==
    ASSUME Base, NEW k \in Worker, NEW j \in DOMAIN rows, Claim(k, j)
    PROVE  \E r, h : Claims(k, j, r, h)
<1>1. PICK c \in Row : c = rows[j] /\ Known(c)
  BY Fields, Untouched DEF Base
<1>2. PICK r : r = [ c EXCEPT !.state = "running", !.due = 0 ]
  OBVIOUS
<1>3. r \in Row /\ r.state = "running" /\ r.first = c.first /\ r.latest = c.latest /\ r.heard = c.heard
  <2>1. PICK st : st = "running"
    OBVIOUS
  <2>2. PICK z \in Int : z = 0
    OBVIOUS
  <2>3. r = [ c EXCEPT !.state = st, !.due = z ] /\ st \in { "queued", "running", "waiting", "cancel_requested", "settled" }
    BY <1>2, <2>1, <2>2
  <2>4. r \in Row /\ r.state = st /\ r.first = c.first /\ r.latest = c.latest /\ r.heard = c.heard
    BY <2>3 DEF Row
  <2> QED BY <2>1, <2>4
<1>4. rows' = [ rows EXCEPT ![j] = r ]
  BY <1>1, <1>2, Untouched DEF Claim
<1>5. rows'[j] = r
  BY <1>3, <1>4, RowWritten DEF Base
<1>6. PICK i \in Handler({ 0 } \cup DOMAIN rows) : i = Idling
  BY IdlingKnown
<1>7. i.closed = Never /\ i.pending = {}
  BY <1>6 DEF Idling
<1>8. PICK h : h = [ i EXCEPT !.stage = "start", !.job = j, !.copy = r, !.time = now ]
  OBVIOUS
<1>9. now \in Time /\ j \in { 0 } \cup DOMAIN rows
  BY DEF Base, TypeOK
<1>10. /\ h \in Handler({ 0 } \cup DOMAIN rows)
       /\ h.stage = "start" /\ h.job = j /\ h.copy = r /\ h.time = now
       /\ h.closed = i.closed /\ h.pending = i.pending
  BY <1>3, <1>6, <1>8, <1>9 DEF Handler
<1>11. worker' = [ worker EXCEPT ![k] = h ]
  BY <1>5, <1>6, <1>8 DEF Claim
<1> QED BY <1>1, <1>3, <1>4, <1>7, <1>10, <1>11 DEF Claims

LEMMA ClaimBase ==
    ASSUME Base, NEW k \in Worker, NEW j \in DOMAIN rows, Claim(k, j)
    PROVE  Base'
<1>0. PICK r, h : Claims(k, j, r, h)
  BY ClaimShape
<1>1. /\ r \in Row /\ h \in Handler({ 0 } \cup DOMAIN rows)
      /\ r.first = rows[j].first /\ r.latest = rows[j].latest
      /\ h.stage = "start" /\ h.job = j /\ h.copy = r /\ h.time = now /\ h.closed = Never
      /\ rows' = [ rows EXCEPT ![j] = r ] /\ worker' = [ worker EXCEPT ![k] = h ]
  BY <1>0 DEF Claims
<1>2. Known(r)
  BY <1>1, Untouched DEF Known
<1>3. rows' \in Seq(Row) /\ Len(rows') = Len(rows) /\ \A i \in DOMAIN rows : Known(rows'[i])
  BY <1>1, <1>2, RowKnown
<1>4. now \in Int /\ 0 <= now /\ DOMAIN rows = 1 .. Len(rows) /\ Len(rows) \in Nat
  BY Fields DEF Base
<1>5. h.time <= now /\ h.closed <= now /\ h.job # 0 /\ h.stage \notin Bounded
  BY <1>1, <1>4 DEF Never, Bounded
<1>6. /\ worker' \in [ Worker -> Handler({ 0 } \cup DOMAIN rows) ]
      /\ \A i \in Worker : /\ worker'[i].stage # "idle" => worker'[i].job # 0 /\ Known(worker'[i].copy)
                           /\ worker'[i].time <= now /\ worker'[i].closed <= now
                           /\ worker'[i].stage \in Bounded => worker'[i].closed # Never
  BY <1>1, <1>2, <1>5, WorkerKnown
<1>7. UNCHANGED << now, progress, tasks, closings, wakes, speech, slipped, crashes >>
      /\ raced' \subseteq raced \cup { j } /\ crowded' \subseteq crowded \cup { r.latest }
      /\ r.latest \in Wake
  BY <1>1 DEF Claim, Row
<1> QED BY <1>3, <1>6, <1>7, Untouched, WorkStepBase

\* A crash ends what was under way, and unschedules nothing.
LEMMA CrashWakes ==
    ASSUME Base, Crash
    PROVE  /\ wakes' \in [ Wake -> Schedules({ 0 } \cup DOMAIN rows) ]
           /\ \A w \in Wake : /\ wakes'[w].at = wakes[w].at /\ wakes'[w].target = wakes[w].target
                              /\ wakes'[w].listed \subseteq wakes[w].listed
                              /\ Placed(w) <=> wakes'[w].stage = "done"
                              /\ wakes'[w].stage \in { "unheard", "done", "lost" }
                              /\ wakes'[w].stage = "unheard" => wakes[w].stage = "unheard"
<1>1. \A w \in Wake : wakes[w] \in Schedules({ 0 } \cup DOMAIN rows)
  BY DEF Base, TypeOK
<1>2. PICK n \in Row : n = NoRow
  BY NoRowType
<1>3. ASSUME NEW w \in Wake
      PROVE  /\ wakes'[w] \in Schedules({ 0 } \cup DOMAIN rows)
             /\ wakes'[w].at = wakes[w].at /\ wakes'[w].target = wakes[w].target
             /\ wakes'[w].listed \subseteq wakes[w].listed
             /\ Placed(w) <=> wakes'[w].stage = "done"
             /\ wakes'[w].stage \in { "unheard", "done", "lost" }
             /\ wakes'[w].stage = "unheard" => wakes[w].stage = "unheard"
  <2>1. PICK g \in Schedules({ 0 } \cup DOMAIN rows) : g = wakes[w]
    BY <1>1
  <2>2. CASE g.stage \in { "unheard", "done", "lost" }
    <3>1. wakes'[w] = g
      BY <2>1, <2>2 DEF Crash
    <3> QED BY <2>1, <2>2, <3>1 DEF Placed
  <2>3. CASE g.stage \notin { "unheard", "done", "lost" }
    <3>1. PICK f : f = [ g EXCEPT !.stage = "lost", !.copy = n, !.listed = {} ]
      OBVIOUS
    <3>2. wakes'[w] = f
      BY <1>2, <2>1, <2>3, <3>1 DEF Crash
    <3>3. f \in Schedules({ 0 } \cup DOMAIN rows) /\ f.stage = "lost" /\ f.at = g.at /\ f.target = g.target
          /\ f.listed = {}
      BY <3>1 DEF Schedules
    <3> QED BY <2>1, <2>3, <3>2, <3>3 DEF Placed
  <2> QED BY <2>2, <2>3
<1>4. DOMAIN wakes' = Wake /\ wakes' = [ w \in Wake |-> wakes'[w] ]
  BY DEF Crash
<1> QED BY <1>3, <1>4

LEMMA CrashBase ==
    ASSUME Base, Crash
    PROVE  Base'
<1>0. TypeOK
  BY DEF Base
<1>1. /\ wakes' \in [ Wake -> Schedules({ 0 } \cup DOMAIN rows) ]
      /\ \A w \in Wake : /\ wakes'[w].at = wakes[w].at
                         /\ wakes'[w].listed \subseteq wakes[w].listed
                         /\ Placed(w) <=> wakes'[w].stage = "done"
                         /\ wakes'[w].stage \in { "unheard", "done", "lost" }
  BY CrashWakes
<1>2. PICK h \in Handler({ 0 } \cup DOMAIN rows) : h = Idling /\ h.stage = "idle" /\ h.time <= now /\ h.closed <= now
  BY IdlingKnown
<1>3. worker' = [ k \in Worker |-> h ] /\ crashes < MaxCrashes /\ crashes' = crashes + 1
      /\ UNCHANGED << now, rows, progress, tasks, closings, raced, crowded, slipped >>
  BY <1>2 DEF Crash
<1>4. ASSUME NEW s \in Segment
      PROVE  speech'[s] \in Stretch /\ speech'[s].start = speech[s].start /\ speech'[s].end = speech[s].end
  <2>1. PICK g \in Stretch : g = speech[s]
    BY <1>0, Fields
  <2>2. speech'[s] = IF g.stage = "live" THEN [ g EXCEPT !.stage = "orphan" ] ELSE g
    BY <2>1 DEF Crash
  <2> QED BY <2>1, <2>2 DEF Stretch
<1>5. speech' \in [ Segment -> Stretch ]
  BY <1>4 DEF Crash
<1>6. \A s \in Segment : speech'[s].start <= speech'[s].end /\ speech'[s].end <= now
  BY <1>0, <1>4 DEF TypeOK
<1>7. crashes' \in 0 .. MaxCrashes
  BY <1>0, <1>3, WakeAssumption DEF TypeOK
<1>8. TypeOK'
  BY <1>0, <1>1, <1>2, <1>3, <1>5, <1>6, <1>7 DEF TypeOK
<1>9. \A r \in Row : Known(r) => wakes'[r.first].stage = "done" /\ wakes'[r.latest].stage = "done"
  BY <1>1 DEF Known, Row
<1>10. \A i \in DOMAIN rows' : Known(rows[i])'
  <2> TAKE i \in DOMAIN rows'
  <2>1. PICK r : r = rows[i] /\ r \in Row /\ Known(r)
    BY <1>0, <1>3, Fields, Untouched
  <2> QED BY <1>3, <1>9, <2>1 DEF Known, Placed
<1>11. { v \in Wake : Placed(v)' } = { v \in Wake : Placed(v) }
  BY <1>1 DEF Placed
<1>12. Len(rows') <= Cardinality({ v \in Wake : Placed(v)' })
  BY <1>3, <1>11 DEF Base, References
<1>13. \A k \in Worker : worker'[k].stage = "idle" /\ worker'[k].time <= now /\ worker'[k].closed <= now
  BY <1>2, <1>3
<1>14. \A w \in Wake : wakes'[w].stage \notin Holding
  BY <1>1 DEF Holding, Rewriting
<1>15. \A w \in Wake : closings'[w] # << >> => Placed(w)'
  BY <1>1, <1>3, Untouched DEF Placed
<1>16. \A w \in Wake : tasks'[w].state # "none" => tasks'[w].of \in DOMAIN rows'
  BY <1>3, Untouched
<1>19. ASSUME NEW w \in Wake, NEW c \in wakes'[w].listed PROVE c.job # 0 /\ Known(c.row)'
  <2>1. PICK r : r = c.row
    OBVIOUS
  <2>2. c.job # 0 /\ r \in Row /\ Known(r)
    BY <1>0, <1>1, <1>19, <2>1, Fields DEF Base, References
  <2> QED BY <1>9, <2>1, <2>2 DEF Known, Placed
<1>17. References'
  BY <1>10, <1>12, <1>13, <1>14, <1>15, <1>16, <1>19 DEF References
<1>18. Past'
  BY <1>1, <1>3, <1>13 DEF Base, Past, Bounded, Active
<1> QED BY <1>8, <1>17, <1>18 DEF Base

---------------------------------------------------------------------------
(* Every step keeps what is known. *)

LEMMA ScheduleBase ==
    ASSUME Base, NEW w \in Wake, Schedule(w)
    PROVE  Base'
BY LookBase, ChooseBase, InspectBase, CreateBase, ClearBase, AmendBase, CancelTreeBase,
   CancelRootBase, ReplaceBase DEF Schedule

LEMMA StutterBase ==
    ASSUME Base, UNCHANGED vars
    PROVE  Base'
<1>1. TypeOK'
  BY DEF Base, TypeOK, vars
<1>2. References' /\ Past'
  BY DEF Base, References, Past, Known, Placed, vars
<1> QED BY <1>1, <1>2 DEF Base

LEMMA NextBase ==
    ASSUME Base, [Next]_vars
    PROVE  Base'
BY ClockBase, CrashBase, HearBase, SpeechBase, ScheduleBase, TaskSettlesBase, HandleBase,
   RowSettlesBase, ClaimBase, StutterBase DEF Next, Work, Runtime

\* The invariant Base holds in every reachable state.
LEMMA BaseHolds == Spec => []Base
BY InitBase, NextBase, PTL DEF Spec

\* Every variable of WakeActivation has its type, whatever the number of wakes,
\* stretches of speech and workers, and there is at most one row for each wake.
THEOREM WakeTypeCorrect == Spec => []TypeOK
<1>1. Base => TypeOK
  BY DEF Base
<1> QED BY <1>1, BaseHolds, PTL

---------------------------------------------------------------------------
(* What the steps of a handler write. *)

\* What is written back when a handler defers or waits.
LEMMA LeaveShape ==
    ASSUME Base, NEW k \in Worker, worker[k].stage # "idle", Leave(k)
    PROVE  /\ worker'[k].stage = "leave" /\ worker'[k].copy = worker[k].copy
           /\ worker'[k].job = worker[k].job /\ "leave" \notin Active
           /\ \A i \in Worker : i # k => worker'[i] = worker[i]
<1>1. PICK t \in Moment, P \in SUBSET Notes : Moves(k, "leave", t, P) /\ t <= now
  BY GotoMoves DEF Leave
<1>2. "leave" \in Stages \ { "idle" } /\ "leave" \notin Bounded /\ "leave" \notin Active
  BY DEF Stages, Bounded, Active
<1> QED BY <1>1, <1>2, HandlerMoves

LEMMA DeferShape ==
    ASSUME Base, NEW k \in Worker, worker[k].stage # "idle", NEW due \in Int, Defer(k, due)
    PROVE  \E r \in Row : /\ rows' = [ rows EXCEPT ![worker[k].job] = r ]
                          /\ r.first = Mine(k).first /\ r.latest = Mine(k).latest
                          /\ r.heard = Mine(k).heard
<1>1. PICK c \in Row : c = Mine(k)
  BY MineKnown
<1>2. PICK r : r = [ c EXCEPT !.state = "queued", !.due = due ]
  OBVIOUS
<1>3. r \in Row /\ r.first = c.first /\ r.latest = c.latest /\ r.heard = c.heard
  BY <1>2 DEF Row
<1>4. rows' = [ rows EXCEPT ![worker[k].job] = r ]
  BY <1>1, <1>2 DEF Defer
<1> QED BY <1>1, <1>3, <1>4

\* The three waits write the copy of the handler back.
LEMMA WaitShape ==
    ASSUME Base, NEW k \in Worker, WaitForDue(k) \/ WaitForSpeaker(k) \/ WaitForTranscription(k)
    PROVE  /\ worker[k].stage \in Active /\ worker[k].stage # "idle" /\ Leave(k)
           /\ UNCHANGED << now, progress, tasks, closings, wakes, speech, raced, crowded, slipped, crashes >>
           /\ \E r \in Row : /\ rows' = [ rows EXCEPT ![worker[k].job] = r ]
                             /\ r.first = Mine(k).first /\ r.latest = Mine(k).latest
                             /\ r.heard = Mine(k).heard
<1>1. worker[k].stage \in Active /\ worker[k].stage # "idle"
  BY DEF WaitForDue, WaitForSpeaker, WaitForTranscription, Started, Active
<1>2. PICK r \in Row : r = Mine(k)
  BY <1>1, MineKnown
<1>3. PICK t \in Int : t = worker[k].time
  BY <1>1, MineKnown
<1>4. \E due \in Int : Defer(k, due)
  <2>1. CASE WaitForDue(k)
    <3>1. DueAt(r) \in Int
      BY DueAtIsNat DEF Base
    <3> QED BY <1>2, <2>1, <3>1 DEF WaitForDue
  <2>2. CASE WaitForSpeaker(k)
    <3>1. HeldUntil(r, t) \in Int
      BY <1>2, <1>3, <2>2, HeldUntilIsInt DEF Base, WaitForSpeaker
    <3> QED BY <1>2, <1>3, <2>2, <3>1 DEF WaitForSpeaker
  <2>3. CASE WaitForTranscription(k)
    <3>1. t + 1 \in Int
      OBVIOUS
    <3> QED BY <1>3, <2>3, <3>1 DEF WaitForTranscription
  <2> QED BY <2>1, <2>2, <2>3
<1>5. PICK due \in Int : Defer(k, due)
  BY <1>4
<1>6. Leave(k) /\ UNCHANGED << now, progress, tasks, closings, wakes, speech, raced, crowded, slipped, crashes >>
  BY <1>5 DEF Defer
<1> QED BY <1>1, <1>5, <1>6, DeferShape

\* The rows and tasks after a request was dispatched.
LEMMA DispatchShape ==
    ASSUME Base, NEW k \in Worker, Dispatch(k)
    PROVE  /\ worker[k].stage = "dispatch" /\ Leave(k)
           /\ UNCHANGED << now, progress, closings, wakes, speech, raced, crowded, slipped, crashes >>
           /\ \E r \in Row : /\ rows' = [ rows EXCEPT ![worker[k].job] = r ] /\ r.state = "waiting"
                             /\ r.first = Mine(k).first /\ r.latest = Mine(k).latest
                             /\ r.heard = Mine(k).heard
           /\ tasks'[Mine(k).latest].of = worker[k].job
           /\ tasks'[Mine(k).latest].closed = worker[k].closed
           /\ tasks'[Mine(k).latest].state = "open"
           /\ \A w \in Wake : w # Mine(k).latest => tasks'[w] = tasks[w]
<1>1. worker[k].stage = "dispatch" /\ Leave(k)
      /\ UNCHANGED << now, progress, closings, wakes, speech, raced, crowded, slipped, crashes >>
  BY DEF Dispatch
<1>2. PICK c \in Row : c = Mine(k) /\ c.latest \in Wake
  BY <1>1, MineKnown
<1>3. PICK r : r = [ c EXCEPT !.state = "waiting" ]
  OBVIOUS
<1>4. r \in Row /\ r.state = "waiting" /\ r.first = c.first /\ r.latest = c.latest /\ r.heard = c.heard
  BY <1>3 DEF Row
<1>5. rows' = [ rows EXCEPT ![worker[k].job] = r ]
  BY <1>2, <1>3 DEF Dispatch
<1>6. PICK a : a = [ state |-> "open", of |-> worker[k].job, closed |-> worker[k].closed ]
  OBVIOUS
<1>7. a.state = "open" /\ a.of = worker[k].job /\ a.closed = worker[k].closed
  BY <1>6
<1>8. tasks' = [ tasks EXCEPT ![c.latest] = a ]
  BY <1>2, <1>6 DEF Dispatch
<1>9. tasks'[c.latest] = a /\ \A w \in Wake : w # c.latest => tasks'[w] = tasks[w]
  BY <1>2, <1>8, Untouched
<1> QED BY <1>1, <1>2, <1>4, <1>5, <1>7, <1>9

\* A row that waits or runs settles.
LEMMA SettleShape ==
    ASSUME Base, NEW j \in DOMAIN rows, ResolveWaiting(j) \/ Sweep(j)
    PROVE  /\ UNCHANGED << now, progress, tasks, closings, wakes, speech, worker, raced, crowded, slipped, crashes >>
           /\ \E r \in Row : /\ rows' = [ rows EXCEPT ![j] = r ] /\ r.state = "settled"
                             /\ r.first = rows[j].first /\ r.latest = rows[j].latest
                             /\ r.heard = rows[j].heard
<1>1. PICK c \in Row : c = rows[j]
  BY Fields DEF Base
<1>2. PICK r : r = [ c EXCEPT !.state = "settled" ]
  OBVIOUS
<1>3. r \in Row /\ r.state = "settled" /\ r.first = c.first /\ r.latest = c.latest /\ r.heard = c.heard
  BY <1>2 DEF Row
<1>4. rows' = [ rows EXCEPT ![j] = r ]
      /\ UNCHANGED << now, progress, tasks, closings, wakes, speech, worker, raced, crowded, slipped, crashes >>
  BY <1>1, <1>2 DEF ResolveWaiting, Sweep
<1> QED BY <1>1, <1>3, <1>4

\* A wake that is not scheduled is nobody's.
LEMMA NobodysYet ==
    ASSUME Base, NEW w \in Wake, ~Placed(w)
    PROVE  /\ \A j \in DOMAIN rows : rows[j].latest # w /\ rows[j].first # w
           /\ \A k \in Worker : worker[k].stage # "idle" => worker[k].copy.latest # w
           /\ closings[w] = << >>
BY Untouched DEF Known

---------------------------------------------------------------------------
(* A window is not closed before the latest wake of its row has had its time. *)

Same(r, q) == r.first = q.first /\ r.latest = q.latest

\* Somebody has record r of row j.
Named(j, r) ==
    \/ j \in DOMAIN rows /\ r = rows[j]
    \/ \E k \in Worker : worker[k].stage # "idle" /\ j = worker[k].job /\ r = worker[k].copy
    \/ \E w \in Wake : wakes[w].stage \in Holding /\ j = wakes[w].target /\ r = wakes[w].copy
    \/ \E w \in Wake : \E c \in wakes[w].listed : j = c.job /\ r = c.row

\* Records that name the same latest wake are of the same row and activation.
OneRow == \A i, j, r, q : Named(i, r) /\ Named(j, q) /\ r.latest = q.latest => i = j /\ r.first = q.first

ClosesInTime == \A k \in Worker : worker[k].stage = "close" => Lower(worker[k].copy) <= worker[k].closed
ClosedInTime ==
    \A j, r : Named(j, r) => \A i \in DOMAIN closings[r.latest] : Lower(r) <= closings[r.latest][i]

BoundaryInv == OneRow /\ ClosesInTime /\ ClosedInTime

\* The time of a wake that is scheduled stays.
AtKept == \A v \in Wake : Placed(v) => Placed(v)' /\ wakes'[v].at = wakes[v].at

LEMMA LowerKept ==
    ASSUME AtKept, NEW r \in Row, Known(r)
    PROVE  Lower(r)' = Lower(r)
<1>1. r.first \in Wake /\ r.latest \in Wake
  BY DEF Row
<1>2. At(r.first)' = At(r.first) /\ At(r.latest)' = At(r.latest)
  BY <1>1 DEF AtKept, Known, At
<1> QED BY <1>2 DEF Lower, HardCap

LEMMA LowerOfSame ==
    ASSUME NEW r, NEW q, Same(r, q)
    PROVE  Lower(r) = Lower(q) /\ HardCap(r) = HardCap(q)
BY DEF Same, Lower, HardCap

LEMMA NamedIsKnown ==
    ASSUME Base, NEW j, NEW r, Named(j, r)
    PROVE  r \in Row /\ Known(r)
<1>1. CASE j \in DOMAIN rows /\ r = rows[j]
  BY <1>1, Fields, Untouched DEF Base
<1>2. CASE \E k \in Worker : worker[k].stage # "idle" /\ r = worker[k].copy
  BY <1>2, MineKnown DEF Mine
<1>3. CASE \E w \in Wake : wakes[w].stage \in Holding /\ r = wakes[w].copy
  BY <1>3, HeldCopy
<1>4. CASE \E w \in Wake : \E c \in wakes[w].listed : r = c.row
  BY <1>4, Fields DEF Base, References
<1> QED BY <1>1, <1>2, <1>3, <1>4 DEF Named

\* A record like one that was held before.
Old(j, r) == \E q : Named(j, q) /\ Same(r, q)

\* A record of row n that names a wake nobody named before, with the first wake f.
Fresh(j, r, w, f, n) == w \in Wake /\ ~Placed(w) /\ r.latest = w /\ r.first = f /\ j = n

LEMMA BoundaryStep ==
    ASSUME Base, BoundaryInv, Base', AtKept, NEW w, NEW f, NEW n, closings' = closings,
           \A j \in DOMAIN rows' : Old(j, rows'[j]) \/ Fresh(j, rows'[j], w, f, n),
           \A k \in Worker : worker'[k].stage # "idle" => Old(worker'[k].job, worker'[k].copy),
           \A v \in Wake : wakes'[v].stage \in Holding => Old(wakes'[v].target, wakes'[v].copy),
           \A v \in Wake : \A c \in wakes'[v].listed : Old(c.job, c.row),
           \A k \in Worker : worker'[k].stage = "close" =>
             \/ /\ worker[k].stage = "close" /\ worker'[k].copy = worker[k].copy
                /\ worker'[k].closed = worker[k].closed
             \/ /\ worker[k].stage # "idle" /\ worker'[k].copy = worker[k].copy
                /\ Lower(worker[k].copy) <= worker'[k].closed
    PROVE  BoundaryInv'
<1>0. \A j, r : Named(j, r)' => Old(j, r) \/ Fresh(j, r, w, f, n)
  <2> SUFFICES ASSUME NEW j, NEW r, Named(j, r)' PROVE Old(j, r) \/ Fresh(j, r, w, f, n)
    OBVIOUS
  <2>1. CASE j \in DOMAIN rows' /\ r = rows'[j]
    BY <2>1
  <2>2. CASE \E k \in Worker : worker'[k].stage # "idle" /\ j = worker'[k].job /\ r = worker'[k].copy
    BY <2>2
  <2>3. CASE \E v \in Wake : wakes'[v].stage \in Holding /\ j = wakes'[v].target /\ r = wakes'[v].copy
    BY <2>3
  <2>4. CASE \E v \in Wake : \E c \in wakes'[v].listed : j = c.job /\ r = c.row
    BY <2>4
  <2> QED BY <2>1, <2>2, <2>3, <2>4 DEF Named
<1>1. ASSUME NEW j, NEW q, Named(j, q), w \in Wake, ~Placed(w) PROVE q.latest # w
  BY <1>1, NamedIsKnown DEF Known
<1>2. OneRow'
  <2> SUFFICES ASSUME NEW i, NEW j, NEW r, NEW q, Named(i, r)', Named(j, q)', r.latest = q.latest
               PROVE  i = j /\ r.first = q.first
    BY DEF OneRow
  <2>1. (Old(i, r) \/ Fresh(i, r, w, f, n)) /\ (Old(j, q) \/ Fresh(j, q, w, f, n))
    BY <1>0
  <2>2. ASSUME Old(i, r), Old(j, q) PROVE i = j /\ r.first = q.first
    <3>1. PICK p : Named(i, p) /\ Same(r, p)
      BY <2>2 DEF Old
    <3>2. PICK x : Named(j, x) /\ Same(q, x)
      BY <2>2 DEF Old
    <3>3. p.latest = x.latest
      BY <3>1, <3>2 DEF Same
    <3>4. i = j /\ p.first = x.first
      BY <3>1, <3>2, <3>3 DEF BoundaryInv, OneRow
    <3> QED BY <3>1, <3>2, <3>4 DEF Same
  <2>3. \A y, p, z, x : Old(y, p) /\ Fresh(z, x, w, f, n) => p.latest # x.latest
    BY <1>1 DEF Old, Same, Fresh
  <2>4. ASSUME Fresh(i, r, w, f, n), Fresh(j, q, w, f, n) PROVE i = j /\ r.first = q.first
    BY <2>4 DEF Fresh
  <2>5. ~(Old(i, r) /\ Fresh(j, q, w, f, n)) /\ ~(Old(j, q) /\ Fresh(i, r, w, f, n))
    BY <2>3
  <2> QED BY <2>1, <2>2, <2>4, <2>5
<1>3. ClosesInTime'
  <2> SUFFICES ASSUME NEW k \in Worker, worker'[k].stage = "close"
               PROVE  Lower(worker[k].copy)' <= worker'[k].closed
    BY DEF ClosesInTime
  <2>1. worker[k].stage # "idle" /\ worker'[k].copy = worker[k].copy
    OBVIOUS
  <2>2. PICK c \in Row : c = worker[k].copy /\ Known(c)
    BY <2>1, MineKnown DEF Mine
  <2>3. Lower(c) <= worker'[k].closed
    BY <2>2 DEF BoundaryInv, ClosesInTime
  <2>4. Lower(c)' = Lower(c)
    BY <2>2, LowerKept
  <2>5. PICK d : d = worker'[k].copy
    OBVIOUS
  <2>6. d = c
    BY <2>1, <2>2, <2>5
  <2>7. Lower(d)' <= worker'[k].closed
    BY <2>3, <2>4, <2>6
  <2> QED BY <2>5, <2>7 DEF Lower, HardCap, At
<1>4. ClosedInTime'
  <2> SUFFICES ASSUME NEW j, NEW r, Named(j, r)', NEW i \in DOMAIN closings[r.latest]
               PROVE  Lower(r)' <= closings[r.latest][i]
    BY DEF ClosedInTime
  <2>1. CASE Old(j, r)
    <3>1. PICK q : Named(j, q) /\ Same(r, q)
      BY <2>1 DEF Old
    <3>2. q \in Row /\ Known(q) /\ r.latest = q.latest
      BY <3>1, NamedIsKnown DEF Same
    <3>3. Lower(q) <= closings[q.latest][i]
      BY <3>1, <3>2 DEF BoundaryInv, ClosedInTime
    <3>4. Lower(q)' = Lower(q)
      BY <3>2, LowerKept
    <3>5. Lower(r)' = Lower(q)'
      BY <3>1 DEF Same, Lower, HardCap
    <3> QED BY <3>2, <3>3, <3>4, <3>5
  <2>2. CASE Fresh(j, r, w, f, n)
    <3>1. closings[w] = << >>
      BY <2>2, NobodysYet DEF Fresh
    <3> QED BY <2>2, <3>1 DEF Fresh
  <2> QED BY <1>0, <2>1, <2>2
<1> QED BY <1>2, <1>3, <1>4 DEF BoundaryInv

AtWork(k, j) == worker[k].stage # "idle" /\ worker[k].job = j
Rewrites(v, j) == wakes[v].stage \in Rewriting /\ wakes[v].target = j
Spawned(w, j) == tasks[w].state # "none" /\ tasks[w].of = j

\* Of an activation that was not rewritten under a handler, all that is recorded
\* of its boundary leaves its latest wake the time it has.
FairRow(j) ==
    /\ \A k \in Worker : AtWork(k, j) =>
         /\ Same(worker[k].copy, rows[j])
         /\ worker[k].stage \in Bounded => Lower(rows[j]) <= worker[k].closed
         /\ \A v \in Wake : ~Rewrites(v, j)
    /\ \A v \in Wake : Rewrites(v, j) =>
         /\ Same(wakes[v].copy, rows[j])
         /\ wakes[v].stage \in { "clear", "amend" } => \A w \in Wake : ~Spawned(w, j)
         /\ wakes[v].stage = "amend" => progress[j] = Never
         /\ \A u \in Wake : Rewrites(u, j) => u = v
    /\ progress[j] # Never => Lower(rows[j]) <= progress[j]
    /\ \A w \in Wake : Spawned(w, j) => Lower(rows[j]) <= tasks[w].closed

FairInv == \A j \in DOMAIN rows : j \notin raced => FairRow(j)

HeardInv == Base /\ BoundaryInv /\ FairInv

\* What a step may do to an activation that stays fair.
LEMMA FairKept ==
    ASSUME Base, Base', AtKept, NEW j \in DOMAIN rows, j \in DOMAIN rows', FairRow(j),
           Same(rows'[j], rows[j]),
           progress'[j] = progress[j]
             \/ ((\E k \in Worker : AtWork(k, j)) /\ Lower(rows[j]) <= progress'[j]),
           \A k \in Worker : AtWork(k, j)' =>
             /\ AtWork(k, j)
             /\ worker'[k].copy = worker[k].copy \/ Same(worker'[k].copy, rows[j])
             /\ worker'[k].stage \in Bounded =>
                  \/ worker[k].stage \in Bounded /\ worker'[k].closed = worker[k].closed
                  \/ Lower(rows[j]) <= worker'[k].closed,
           \A v \in Wake : Rewrites(v, j)' =>
             Rewrites(v, j) /\ wakes'[v].copy = wakes[v].copy /\ wakes'[v].stage = wakes[v].stage,
           \A w \in Wake : Spawned(w, j)' =>
             \/ Spawned(w, j) /\ tasks'[w].closed = tasks[w].closed
             \/ (\E k \in Worker : AtWork(k, j)) /\ Lower(rows[j]) <= tasks'[w].closed
    PROVE  FairRow(j)'
<1>1. PICK r \in Row : r = rows[j] /\ Known(r)
  BY Fields, Untouched DEF Base
<1>2. PICK q : q = rows'[j]
  OBVIOUS
<1>3. PICK m : m = Lower(r)
  OBVIOUS
<1>4. Lower(q)' = m
  <2>1. Lower(r)' = m
    BY <1>1, <1>3, LowerKept
  <2>2. Same(q, r)
    BY <1>1, <1>2
  <2>3. Lower(q)' = Lower(r)'
    BY <2>2 DEF Same, Lower, HardCap
  <2> QED BY <2>1, <2>3
<1>5. Lower(rows[j])' = m
  BY <1>2, <1>4 DEF Lower, HardCap, At
<1>6. Same(q, r) /\ \A c : Same(c, r) <=> Same(c, q)
  BY <1>1, <1>2 DEF Same
<1>7. ASSUME NEW k \in Worker, AtWork(k, j)'
      PROVE  /\ Same(worker'[k].copy, q)
             /\ worker'[k].stage \in Bounded => m <= worker'[k].closed
             /\ \A v \in Wake : ~Rewrites(v, j)'
  <2>1. AtWork(k, j) /\ (worker'[k].copy = worker[k].copy \/ Same(worker'[k].copy, r))
    BY <1>1, <1>7
  <2>2. Same(worker[k].copy, r) /\ (worker[k].stage \in Bounded => m <= worker[k].closed)
        /\ \A v \in Wake : ~Rewrites(v, j)
    BY <1>1, <1>3, <2>1 DEF FairRow
  <2>3. Same(worker'[k].copy, r)
    BY <2>1, <2>2
  <2> QED BY <1>1, <1>3, <1>6, <1>7, <2>1, <2>2, <2>3
<1>8. ASSUME NEW v \in Wake, Rewrites(v, j)'
      PROVE  /\ Same(wakes'[v].copy, q)
             /\ wakes'[v].stage \in { "clear", "amend" } => \A w \in Wake : ~Spawned(w, j)'
             /\ wakes'[v].stage = "amend" => progress'[j] = Never
             /\ \A u \in Wake : Rewrites(u, j)' => u = v
  <2>1. Rewrites(v, j) /\ wakes'[v].copy = wakes[v].copy /\ wakes'[v].stage = wakes[v].stage
    BY <1>8
  <2>2. /\ Same(wakes[v].copy, r)
        /\ wakes[v].stage \in { "clear", "amend" } => \A w \in Wake : ~Spawned(w, j)
        /\ wakes[v].stage = "amend" => progress[j] = Never
        /\ \A u \in Wake : Rewrites(u, j) => u = v
    BY <1>1, <2>1 DEF FairRow
  <2>3. \A k \in Worker : ~AtWork(k, j)
    BY <2>1 DEF FairRow
  <2> QED BY <1>6, <2>1, <2>2, <2>3
<1>9. progress'[j] # Never => m <= progress'[j]
  BY <1>1, <1>3 DEF FairRow
<1>10. \A w \in Wake : Spawned(w, j)' => m <= tasks'[w].closed
  BY <1>1, <1>3 DEF FairRow
<1> QED BY <1>2, <1>5, <1>7, <1>8, <1>9, <1>10 DEF FairRow

\* Handlers and wakes go on with what they hold.
HoldersKept ==
    /\ \A k \in Worker : worker'[k].stage # "idle" =>
         /\ worker[k].stage # "idle" /\ worker'[k].job = worker[k].job
         /\ \/ worker'[k].copy = worker[k].copy
            \/ worker'[k].stage = "finish" /\ Same(worker'[k].copy, rows[worker[k].job])
         /\ worker'[k].stage \in Bounded =>
              \/ worker[k].stage \in Bounded /\ worker'[k].closed = worker[k].closed
              \/ worker[k].job \notin raced => Lower(rows[worker[k].job]) <= worker'[k].closed
    /\ \A v \in Wake : wakes'[v].stage \in Holding =>
         /\ wakes[v].stage \in Holding /\ wakes'[v].copy = wakes[v].copy
         /\ wakes'[v].target = wakes[v].target
         /\ wakes'[v].stage \in Rewriting => wakes'[v].stage = wakes[v].stage
    /\ \A v \in Wake : wakes'[v].listed \subseteq wakes[v].listed

\* Rows, boundaries and tasks are written for the activation they belong to.
WritesFair ==
    /\ DOMAIN rows' = DOMAIN rows /\ raced \subseteq raced'
    /\ \A j \in DOMAIN rows : j \notin raced =>
         /\ Same(rows'[j], rows[j])
         /\ \/ progress'[j] = progress[j]
            \/ (\E k \in Worker : AtWork(k, j)) /\ Lower(rows[j]) <= progress'[j]
         /\ \A w \in Wake : Spawned(w, j)' =>
              \/ Spawned(w, j) /\ tasks'[w].closed = tasks[w].closed
              \/ (\E k \in Worker : AtWork(k, j)) /\ Lower(rows[j]) <= tasks'[w].closed

LEMMA FairStep ==
    ASSUME Base, FairInv, Base', AtKept, HoldersKept, WritesFair
    PROVE  FairInv'
<1> SUFFICES ASSUME NEW j \in DOMAIN rows', j \notin raced'
             PROVE  FairRow(j)'
  BY DEF FairInv
<1>1. j \in DOMAIN rows /\ j \notin raced /\ FairRow(j)
  BY DEF WritesFair, FairInv
<1>2. ASSUME NEW k \in Worker, AtWork(k, j)'
      PROVE  /\ AtWork(k, j)
             /\ worker'[k].copy = worker[k].copy \/ Same(worker'[k].copy, rows[j])
             /\ worker'[k].stage \in Bounded =>
                  \/ worker[k].stage \in Bounded /\ worker'[k].closed = worker[k].closed
                  \/ Lower(rows[j]) <= worker'[k].closed
  BY <1>1, <1>2 DEF HoldersKept, AtWork
<1>3. ASSUME NEW v \in Wake, Rewrites(v, j)'
      PROVE  Rewrites(v, j) /\ wakes'[v].copy = wakes[v].copy /\ wakes'[v].stage = wakes[v].stage
  BY <1>3 DEF HoldersKept, Rewrites, Holding
<1>4. /\ Same(rows'[j], rows[j])
      /\ \/ progress'[j] = progress[j]
         \/ (\E k \in Worker : AtWork(k, j)) /\ Lower(rows[j]) <= progress'[j]
      /\ \A w \in Wake : Spawned(w, j)' =>
           \/ Spawned(w, j) /\ tasks'[w].closed = tasks[w].closed
           \/ (\E k \in Worker : AtWork(k, j)) /\ Lower(rows[j]) <= tasks'[w].closed
  BY <1>1 DEF WritesFair
<1> QED BY <1>1, <1>2, <1>3, <1>4, FairKept

LEMMA OldAsIs ==
    /\ \A j \in DOMAIN rows : Old(j, rows[j])
    /\ \A k \in Worker : worker[k].stage # "idle" => Old(worker[k].job, worker[k].copy)
    /\ \A v \in Wake : wakes[v].stage \in Holding => Old(wakes[v].target, wakes[v].copy)
    /\ \A v \in Wake : \A c \in wakes[v].listed : Old(c.job, c.row)
<1>1. \A j, r : Named(j, r) => Old(j, r)
  BY DEF Old, Same
<1> QED BY <1>1 DEF Named

\* Nothing is closed, and no row is inserted or amended.
LEMMA HeardStep ==
    ASSUME HeardInv, Base', AtKept, HoldersKept, WritesFair, closings' = closings,
           \A j \in DOMAIN rows : Old(j, rows'[j]),
           \A k \in Worker : worker'[k].stage = "close" =>
             \/ worker[k].stage = "close" /\ worker'[k].closed = worker[k].closed
             \/ Lower(worker[k].copy) <= worker'[k].closed
    PROVE  HeardInv'
<1>1. FairInv'
  BY FairStep DEF HeardInv
<1>2. ASSUME NEW k \in Worker, worker'[k].stage # "idle" PROVE Old(worker'[k].job, worker'[k].copy)
  <2>1. PICK j \in DOMAIN rows : j = worker[k].job /\ j = worker'[k].job
    BY <1>2, MineKnown DEF HoldersKept, HeardInv
  <2>2. CASE worker'[k].copy = worker[k].copy
    BY <1>2, <2>1, <2>2, OldAsIs DEF HoldersKept
  <2>3. CASE Same(worker'[k].copy, rows[j])
    BY <2>1, <2>3 DEF Old, Named
  <2> QED BY <1>2, <2>1, <2>2, <2>3 DEF HoldersKept
<1>3. /\ \A v \in Wake : wakes'[v].stage \in Holding => Old(wakes'[v].target, wakes'[v].copy)
      /\ \A v \in Wake : \A c \in wakes'[v].listed : Old(c.job, c.row)
  BY OldAsIs DEF HoldersKept
<1>4. \A k \in Worker : worker'[k].stage = "close" =>
             \/ /\ worker[k].stage = "close" /\ worker'[k].copy = worker[k].copy
                /\ worker'[k].closed = worker[k].closed
             \/ /\ worker[k].stage # "idle" /\ worker'[k].copy = worker[k].copy
                /\ Lower(worker[k].copy) <= worker'[k].closed
  BY DEF HoldersKept
<1>5. DOMAIN rows' = DOMAIN rows
  BY DEF WritesFair
<1>6. BoundaryInv'
  BY <1>2, <1>3, <1>4, <1>5, BoundaryStep DEF HeardInv
<1> QED BY <1>1, <1>6 DEF HeardInv

\* The handlers and the wakes are left alone.
LEMMA HoldersAlone ==
    ASSUME UNCHANGED << worker, wakes >>
    PROVE  HoldersKept /\ AtKept
BY DEF HoldersKept, AtKept, Placed, Holding

\* Tasks that settle stay where they are.
LEMMA WritesAlone ==
    ASSUME Base, UNCHANGED << progress, raced >>, DOMAIN rows' = DOMAIN rows,
           \A j \in DOMAIN rows : Same(rows'[j], rows[j]),
           \A w \in Wake : /\ tasks'[w].of = tasks[w].of /\ tasks'[w].closed = tasks[w].closed
                           /\ tasks'[w].state = "none" <=> tasks[w].state = "none"
    PROVE  WritesFair /\ \A j \in DOMAIN rows : Old(j, rows'[j])
<1>1. WritesFair
  BY DEF WritesFair, Spawned
<1>2. \A j \in DOMAIN rows : Old(j, rows'[j])
  BY DEF Old, Named
<1> QED BY <1>1, <1>2

LEMMA HeardElsewhere ==
    ASSUME HeardInv, Base',
           \/ Tick \/ UNCHANGED vars \/ \E w \in Wake : TaskSettles(w)
           \/ \E s \in Segment : Speak(s) \/ Talk(s) \/ Hearing(s)
           \/ \E j \in DOMAIN rows : ResolveWaiting(j) \/ Sweep(j)
    PROVE  HeardInv'
<1>0. Base
  BY DEF HeardInv
<1>1. UNCHANGED << progress, raced, closings, worker, wakes >>
  BY DEF Tick, vars, TaskSettles, Speak, Talk, Hearing, Flush, Validate, Transcribe, DropOrphan,
         unchangedByAudio, ResolveWaiting, Sweep
<1>2. DOMAIN rows' = DOMAIN rows /\ \A j \in DOMAIN rows : Same(rows'[j], rows[j])
  <2>1. ASSUME UNCHANGED rows PROVE DOMAIN rows' = DOMAIN rows /\ \A j \in DOMAIN rows : Same(rows'[j], rows[j])
    BY <2>1 DEF Same
  <2>2. CASE \E j \in DOMAIN rows : ResolveWaiting(j) \/ Sweep(j)
    <3>1. PICK j \in DOMAIN rows : ResolveWaiting(j) \/ Sweep(j)
      BY <2>2
    <3>2. PICK r \in Row : /\ rows' = [ rows EXCEPT ![j] = r ]
                           /\ r.first = rows[j].first /\ r.latest = rows[j].latest
      BY <1>0, <3>1, SettleShape
    <3>3. DOMAIN rows' = DOMAIN rows /\ rows'[j] = r /\ \A i \in DOMAIN rows : i # j => rows'[i] = rows[i]
      BY <1>0, <3>2, RowWritten DEF Base
    <3> QED BY <3>2, <3>3 DEF Same
  <2> QED BY <2>1, <2>2 DEF Tick, vars, TaskSettles, Speak, Talk, Hearing, Flush, Validate,
                            Transcribe, DropOrphan, unchangedByAudio
<1>3. ASSUME NEW w \in Wake
      PROVE  /\ tasks'[w].of = tasks[w].of /\ tasks'[w].closed = tasks[w].closed
             /\ tasks'[w].state = "none" <=> tasks[w].state = "none"
  <2>1. CASE \E v \in Wake : TaskSettles(v)
    <3>1. PICK v \in Wake : TaskSettles(v)
      BY <2>1
    <3>2. PICK S \in SUBSET Wake : S = { v }
      OBVIOUS
    <3>3. tasks' = [ u \in Wake |-> IF u \in S THEN [ tasks[u] EXCEPT !.state = "settled" ] ELSE tasks[u] ]
      BY <1>0, <3>1, <3>2, Untouched DEF TaskSettles
    <3>4. \A u \in S : tasks[u].state = "open"
      BY <3>1, <3>2 DEF TaskSettles
    <3> QED BY <1>0, <3>3, <3>4, TasksSettle
  <2>2. CASE UNCHANGED tasks
    BY <2>2
  <2> QED BY <2>1, <2>2 DEF Tick, vars, Speak, Talk, Hearing, Flush, Validate, Transcribe,
                            DropOrphan, unchangedByAudio, ResolveWaiting, Sweep
<1>4. WritesFair /\ \A j \in DOMAIN rows : Old(j, rows'[j])
  BY <1>0, <1>1, <1>2, <1>3, WritesAlone
<1>5. HoldersKept /\ AtKept
  BY <1>1, HoldersAlone
<1> QED BY <1>1, <1>4, <1>5, HeardStep

LEMMA HeardCrash ==
    ASSUME HeardInv, Base', Crash
    PROVE  HeardInv'
<1>0. Base
  BY DEF HeardInv
<1>1. UNCHANGED << now, rows, progress, tasks, closings, raced, crowded, slipped >> /\ \A k \in Worker : worker'[k].stage = "idle"
  BY <1>0, IdlingKnown DEF Crash
<1>2. \A w \in Wake : /\ wakes'[w].at = wakes[w].at
                      /\ Placed(w) <=> wakes'[w].stage = "done"
                      /\ wakes'[w].stage \in { "unheard", "done", "lost" }
                      /\ wakes'[w].listed \subseteq wakes[w].listed
  BY <1>0, CrashWakes
<1>3. HoldersKept /\ AtKept
  BY <1>1, <1>2 DEF HoldersKept, AtKept, Placed, Holding, Rewriting
<1>4. WritesFair /\ \A j \in DOMAIN rows : Old(j, rows'[j])
  BY <1>0, <1>1, WritesAlone DEF Same
<1> QED BY <1>1, <1>3, <1>4, HeardStep

LEMMA HeardHear ==
    ASSUME HeardInv, Base', NEW w \in Wake, Hear(w)
    PROVE  HeardInv'
<1>0. Base
  BY DEF HeardInv
<1>1. UNCHANGED << rows, progress, tasks, closings, worker, raced >> /\ wakes[w].stage = "unheard"
  BY DEF Hear
<1>2. PICK g : g = wakes[w]
  OBVIOUS
<1>3. PICK f : f = [ g EXCEPT !.stage = "heard", !.at = now ]
  OBVIOUS
<1>4. wakes' = [ wakes EXCEPT ![w] = f ]
  BY <1>0, <1>2, <1>3 DEF Hear, Base, TypeOK
<1>5. g \in Schedules({ 0 } \cup DOMAIN rows)
  BY <1>0, <1>2 DEF Base, TypeOK
<1>6. f.stage = "heard" /\ f.listed = g.listed
  BY <1>3, <1>5 DEF Schedules
<1>7. wakes'[w] = f /\ \A v \in Wake : v # w => wakes'[v] = wakes[v]
  BY <1>0, <1>4 DEF Base, TypeOK
<1>8. HoldersKept /\ AtKept
  BY <1>1, <1>2, <1>6, <1>7 DEF HoldersKept, AtKept, Placed, Holding, Rewriting
<1>9. WritesFair /\ \A j \in DOMAIN rows : Old(j, rows'[j])
  BY <1>0, <1>1, WritesAlone DEF Same
<1> QED BY <1>1, <1>8, <1>9, HeardStep

\* What a handler knows of an activation that was not rewritten under it.
LEMMA MineFair ==
    ASSUME HeardInv, NEW k \in Worker, worker[k].stage # "idle"
    PROVE  /\ worker[k].job \in DOMAIN rows /\ Named(worker[k].job, Mine(k)) /\ AtWork(k, worker[k].job)
           /\ worker[k].job \notin raced =>
                /\ Same(Mine(k), rows[worker[k].job])
                /\ Lower(Mine(k)) = Lower(rows[worker[k].job])
                /\ worker[k].stage \in Bounded => Lower(rows[worker[k].job]) <= worker[k].closed
                /\ progress[worker[k].job] # Never =>
                     Lower(rows[worker[k].job]) <= progress[worker[k].job]
<1>1. PICK j \in DOMAIN rows : j = worker[k].job
  BY MineKnown DEF HeardInv
<1>2. Named(j, Mine(k)) /\ AtWork(k, j)
  BY <1>1 DEF Named, Mine, AtWork
<1>3. ASSUME j \notin raced PROVE FairRow(j)
  BY <1>3 DEF HeardInv, FairInv
<1>4. ASSUME j \notin raced PROVE Same(Mine(k), rows[j]) /\ Lower(Mine(k)) = Lower(rows[j])
  <2>1. Same(Mine(k), rows[j])
    BY <1>2, <1>3, <1>4 DEF FairRow, Mine
  <2> QED BY <2>1, LowerOfSame
<1>5. ASSUME j \notin raced
      PROVE  /\ worker[k].stage \in Bounded => Lower(rows[j]) <= worker[k].closed
             /\ progress[j] # Never => Lower(rows[j]) <= progress[j]
  BY <1>2, <1>3, <1>5 DEF FairRow
<1> QED BY <1>1, <1>2, <1>4, <1>5

\* A handler moves; its boundary, when it sets one, is fair.
LEMMA HoldersMove ==
    ASSUME HeardInv, NEW k \in Worker, worker[k].stage # "idle",
           NEW st \in Stages \ { "idle" }, NEW c \in Moment, c <= now, st \in Bounded => c # Never,
           NEW P \in SUBSET Notes, Moves(k, st, c, P), UNCHANGED wakes,
           st \in Bounded =>
             \/ worker[k].stage \in Bounded /\ c = worker[k].closed
             \/ worker[k].job \notin raced => Lower(rows[worker[k].job]) <= c
    PROVE  /\ HoldersKept /\ AtKept
           /\ worker'[k].stage = st /\ worker'[k].closed = c
           /\ worker'[k].job = worker[k].job /\ worker'[k].copy = worker[k].copy
           /\ \A i \in Worker : i # k => worker'[i] = worker[i]
<1>1. /\ worker'[k].stage = st /\ worker'[k].closed = c /\ worker'[k].copy = worker[k].copy
      /\ worker'[k].job = worker[k].job
      /\ \A i \in Worker : i # k => worker'[i] = worker[i]
  BY HandlerMoves DEF HeardInv
<1>2. HoldersKept
  BY <1>1 DEF HoldersKept, Holding
<1> QED BY <1>1, <1>2 DEF AtKept, Placed

\* A handler moves and writes nothing.
LEMMA HeardMove ==
    ASSUME HeardInv, Base', NEW k \in Worker, worker[k].stage # "idle",
           NEW st \in Stages \ { "idle" }, NEW c \in Moment, c <= now, st \in Bounded => c # Never,
           NEW P \in SUBSET Notes, Moves(k, st, c, P),
           st \in Bounded =>
             \/ worker[k].stage \in Bounded /\ c = worker[k].closed
             \/ worker[k].job \notin raced => Lower(rows[worker[k].job]) <= c,
           st = "close" => Lower(worker[k].copy) <= c,
           UNCHANGED << wakes, rows, progress, tasks, closings, raced >>
    PROVE  HeardInv'
<1>1. /\ HoldersKept /\ AtKept
      /\ worker'[k].stage = st /\ worker'[k].closed = c
      /\ \A i \in Worker : i # k => worker'[i] = worker[i]
  BY HoldersMove
<1>2. WritesFair /\ \A j \in DOMAIN rows : Old(j, rows'[j])
  BY WritesAlone DEF Same, HeardInv
<1> QED BY <1>1, <1>2, HeardStep

LEMMA HeardOpen ==
    ASSUME HeardInv, Base', NEW k \in Worker, Resume(k) \/ Rediscover(k) \/ EndWindow(k)
    PROVE  HeardInv'
<1>0. Base /\ worker[k].stage # "idle"
  BY DEF HeardInv, Resume, Rediscover, EndWindow, Started
<1>1. PICK P \in SUBSET Notes : P = worker[k].pending
  BY <1>0, Untouched DEF Handler, Notes
<1>2. UNCHANGED << wakes, rows, progress, tasks, closings, raced >>
  BY DEF Resume, Rediscover, EndWindow, unchangedByReading
<1>3. { "live", "record", "close" } \subseteq Stages \ { "idle" } /\ "live" # "close" /\ "record" # "close"
  BY DEF Stages
<1>4. CASE Resume(k)
  <2>1. worker[k].job \in DOMAIN rows
    BY <1>0, MineKnown
  <2>2. PICK c \in Moment : c = progress[worker[k].job] /\ c <= now /\ c # Never
    BY <1>0, <1>4, <2>1, Untouched, Fields DEF Resume, Base
  <2>3. Moves(k, "live", c, P)
    BY <1>1, <1>4, <2>2 DEF Resume, Moves
  <2>4. worker[k].job \notin raced => Lower(rows[worker[k].job]) <= c
    BY <1>0, <2>2, MineFair
  <2> QED BY <1>0, <1>2, <1>3, <2>2, <2>3, <2>4, HeardMove
<1>5. CASE Rediscover(k)
  <2>1. PICK i \in DOMAIN closings[Mine(k).latest] :
             /\ closings[Mine(k).latest][i] \in Time /\ closings[Mine(k).latest][i] <= now
             /\ Settling(k, "record", closings[Mine(k).latest][i])
    BY <1>0, <1>5, RediscoverFinds
  <2>2. PICK c \in Time : c = closings[Mine(k).latest][i] /\ c <= now /\ Settling(k, "record", c)
    BY <2>1
  <2>3. c \in Moment /\ c # Never
    BY TimeIsNat DEF Moment
  <2>4. Moves(k, "record", c, P)
    BY <1>1, <2>2 DEF Moves
  <2>5. Lower(Mine(k)) <= c
    BY <1>0, <2>2, MineFair DEF HeardInv, BoundaryInv, ClosedInTime
  <2>6. worker[k].job \notin raced => Lower(rows[worker[k].job]) <= c
    BY <1>0, <2>5, MineFair
  <2> QED BY <1>0, <1>2, <1>3, <2>2, <2>3, <2>4, <2>6, HeardMove
<1>6. CASE EndWindow(k)
  <2>1. PICK c \in Time : c <= now /\ Lower(Mine(k)) <= c /\ Settling(k, "close", c)
    BY <1>0, <1>6, BoundaryIsPast
  <2>2. c \in Moment /\ c # Never
    BY TimeIsNat DEF Moment
  <2>3. Moves(k, "close", c, P)
    BY <1>1, <2>1 DEF Moves
  <2>4. worker[k].job \notin raced => Lower(rows[worker[k].job]) <= c
    BY <1>0, <2>1, MineFair
  <2>5. Lower(worker[k].copy) <= c
    BY <2>1 DEF Mine
  <2> QED BY <1>0, <1>2, <1>3, <2>1, <2>2, <2>3, <2>4, <2>5, HeardMove
<1> QED BY <1>4, <1>5, <1>6

LEMMA HeardRead ==
    ASSUME HeardInv, Base', NEW k \in Worker, ReadLive(k) \/ ReadSlots(k) \/ ReadJobs(k) \/ NoRequest(k)
    PROVE  HeardInv'
<1>0. Base
  BY DEF HeardInv
<1>1. worker[k].stage \in { "live", "slots", "jobs", "dispatch" }
      /\ UNCHANGED << wakes, rows, progress, tasks, closings, raced >>
  BY DEF ReadLive, ReadSlots, ReadJobs, NoRequest, unchangedByReading
<1>2. worker[k].stage # "idle" /\ worker[k].stage \in Bounded
  BY <1>1 DEF Bounded, Active
<1>3. PICK c \in Moment : c = worker[k].closed /\ c <= now /\ c # Never
  BY <1>0, <1>2, Untouched DEF Handler
<1>4. CASE NoRequest(k)
  <2>1. Goto(k, "leave") /\ "leave" \in Stages \ { "idle" } /\ "leave" \notin Bounded
    BY <1>4 DEF NoRequest, Leave, Stages, Bounded, Active
  <2>2. PICK t \in Moment, P \in SUBSET Notes : Moves(k, "leave", t, P) /\ t <= now
    BY <1>0, <1>2, <2>1, GotoMoves
  <2> QED BY <1>1, <1>2, <2>1, <2>2, HeardMove
<1>5. CASE ReadLive(k) \/ ReadSlots(k) \/ ReadJobs(k)
  <2>1. PICK st \in { "slots", "jobs", "fail", "dispatch" }, found \in SUBSET Notes : See(k, st, found)
    <3>1. CASE ReadLive(k)
      BY <3>1, NotesSeen DEF ReadLive
    <3>2. CASE ReadSlots(k)
      <4>1. Pending(k, { "slot" }) \cup Failure(k, "slot_failed") \in SUBSET Notes
        BY NotesSeen
      <4> QED BY <3>2, <4>1 DEF ReadSlots
    <3>3. CASE ReadJobs(k)
      <4>1. {} \in SUBSET Notes
        OBVIOUS
      <4>2. See(k, "fail", {}) \/ See(k, "dispatch", {})
        BY <3>3 DEF ReadJobs
      <4> QED BY <4>1, <4>2
    <3> QED BY <1>5, <3>1, <3>2, <3>3
  <2>2. PICK P \in SUBSET Notes : See(k, st, P) /\ worker[k].pending \subseteq P
    BY <1>0, <2>1, SeesMore
  <2>3. Moves(k, st, c, P)
    BY <1>3, <2>2 DEF Moves
  <2>4. st \in Stages \ { "idle" } /\ st # "close"
    BY <2>1 DEF Stages
  <2> QED BY <1>1, <1>2, <1>3, <2>3, <2>4, HeardMove
<1> QED BY <1>4, <1>5

LEMMA HeardRecord ==
    ASSUME HeardInv, Base', NEW k \in Worker, Record(k)
    PROVE  HeardInv'
<1>0. Base
  BY DEF HeardInv
<1>1. worker[k].stage = "record" /\ Goto(k, "live")
      /\ UNCHANGED << wakes, rows, tasks, closings, raced >>
  BY DEF Record, unchangedByReading
<1>2. worker[k].stage # "idle" /\ worker[k].stage \in Bounded /\ "live" \in Stages \ { "idle" } /\ "live" # "close"
  BY <1>1 DEF Bounded, Active, Stages
<1>3. PICK c \in Moment, P \in SUBSET Notes :
        Moves(k, "live", c, P) /\ c <= now /\ c # Never /\ c = worker[k].closed
  BY <1>0, <1>1, <1>2, GotoMoves
<1>4. /\ HoldersKept /\ AtKept
      /\ worker'[k].stage = "live"
      /\ \A i \in Worker : i # k => worker'[i] = worker[i]
  BY <1>1, <1>2, <1>3, HoldersMove
<1>5. PICK n \in DOMAIN rows : n = worker[k].job
  BY <1>0, <1>2, MineKnown
<1>6. progress' = [ progress EXCEPT ![n] = c ]
  BY <1>3, <1>5 DEF Record
<1>7. progress'[n] = c /\ \A i \in DOMAIN rows : i # n => progress'[i] = progress[i]
  BY <1>0, <1>3, <1>6, ProgressSet
<1>8. n \notin raced => AtWork(k, n) /\ Lower(rows[n]) <= c
  BY <1>2, <1>3, <1>5, MineFair
<1>9. WritesFair
  BY <1>1, <1>7, <1>8 DEF WritesFair, Same, Spawned
<1> QED BY <1>1, <1>4, <1>9, OldAsIs, HeardStep

LEMMA HeardClose ==
    ASSUME HeardInv, Base', NEW k \in Worker, Close(k)
    PROVE  HeardInv'
<1>0. Base
  BY DEF HeardInv
<1>1. worker[k].stage = "close" /\ Goto(k, "record")
      /\ UNCHANGED << wakes, rows, tasks, progress, raced >>
  BY DEF Close, unchangedByReading
<1>2. worker[k].stage # "idle" /\ worker[k].stage \in Bounded /\ "record" \in Stages \ { "idle" }
  BY <1>1 DEF Bounded, Active, Stages
<1>3. PICK c \in Moment, P \in SUBSET Notes :
        Moves(k, "record", c, P) /\ c <= now /\ c # Never /\ c = worker[k].closed
  BY <1>0, <1>1, <1>2, GotoMoves
<1>4. /\ HoldersKept /\ AtKept
      /\ worker'[k].stage = "record" /\ worker'[k].job = worker[k].job /\ worker'[k].copy = worker[k].copy
      /\ \A i \in Worker : i # k => worker'[i] = worker[i]
  BY <1>1, <1>2, <1>3, HoldersMove
<1>5. WritesFair
  BY <1>0, <1>1, WritesAlone DEF Same
<1>6. FairInv'
  BY <1>4, <1>5, FairStep DEF HeardInv
<1>7. \A j, r : Named(j, r)' => Named(j, r)
  <2> SUFFICES ASSUME NEW j, NEW r, Named(j, r)' PROVE Named(j, r)
    OBVIOUS
  <2>1. \A i \in Worker : worker'[i].stage # "idle" =>
          worker[i].stage # "idle" /\ worker'[i].job = worker[i].job /\ worker'[i].copy = worker[i].copy
    BY <1>2, <1>4
  <2> QED BY <1>1, <2>1 DEF Named
<1>8. \A r : Lower(r)' = Lower(r)
  BY <1>1 DEF Lower, HardCap, At
<1>9. OneRow'
  BY <1>7 DEF HeardInv, BoundaryInv, OneRow
<1>10. ClosesInTime'
  <2> SUFFICES ASSUME NEW i \in Worker, worker'[i].stage = "close"
               PROVE  Lower(worker[i].copy)' <= worker'[i].closed
    BY DEF ClosesInTime
  <2>1. worker'[i] = worker[i]
    BY <1>4
  <2>2. Lower(worker[i].copy)' = Lower(worker[i].copy)
    BY <1>1, <2>1 DEF Lower, HardCap, At
  <2> QED BY <2>1, <2>2 DEF HeardInv, BoundaryInv, ClosesInTime
<1>11. ClosedInTime'
  <2> SUFFICES ASSUME NEW j, NEW r, Named(j, r)', NEW i \in DOMAIN closings'[r.latest]
               PROVE  Lower(r)' <= closings'[r.latest][i]
    BY DEF ClosedInTime
  <2>1. Named(j, r) /\ r \in Row /\ Lower(r)' = Lower(r) /\ r.latest \in Wake
    BY <1>0, <1>7, <1>8, NamedIsKnown DEF Row
  <2>2. CASE i \in DOMAIN closings[r.latest] /\ closings'[r.latest][i] = closings[r.latest][i]
    BY <2>1, <2>2 DEF HeardInv, BoundaryInv, ClosedInTime
  <2>3. CASE r.latest = Mine(k).latest /\ closings'[r.latest][i] = worker[k].closed
    <3>1. Named(worker[k].job, Mine(k))
      BY <1>2, MineFair
    <3>2. r.first = Mine(k).first
      BY <2>1, <2>3, <3>1 DEF HeardInv, BoundaryInv, OneRow
    <3>3. Lower(r) = Lower(Mine(k))
      BY <2>3, <3>2 DEF Lower, HardCap
    <3>4. Lower(Mine(k)) <= worker[k].closed
      BY <1>1 DEF HeardInv, BoundaryInv, ClosesInTime, Mine
    <3> QED BY <2>1, <2>3, <3>3, <3>4
  <2> QED BY <1>0, <2>1, <2>2, <2>3, ClosingAppended
<1> QED BY <1>6, <1>9, <1>10, <1>11 DEF HeardInv, BoundaryInv

\* A handler leaves.
LEMMA HoldersLeave ==
    ASSUME HeardInv, NEW k \in Worker, worker[k].stage # "idle", Leave(k), UNCHANGED wakes
    PROVE  /\ HoldersKept /\ AtKept
           /\ worker'[k].stage = "leave" /\ \A i \in Worker : i # k => worker'[i] = worker[i]
<1>1. "leave" \in Stages \ { "idle" } /\ "leave" \notin Bounded /\ Base
  BY DEF Stages, Bounded, Active, HeardInv
<1>2. PICK t \in Moment, P \in SUBSET Notes : Moves(k, "leave", t, P) /\ t <= now
  BY <1>1, GotoMoves DEF Leave
<1> QED BY <1>1, <1>2, HoldersMove

\* A handler writes its copy back.
LEMMA CopyWritten ==
    ASSUME HeardInv, NEW k \in Worker, worker[k].stage # "idle", NEW r \in Row,
           rows' = [ rows EXCEPT ![worker[k].job] = r ],
           r.first = Mine(k).first, r.latest = Mine(k).latest
    PROVE  /\ DOMAIN rows' = DOMAIN rows /\ \A j \in DOMAIN rows : Old(j, rows'[j])
           /\ \A j \in DOMAIN rows : j \notin raced => Same(rows'[j], rows[j])
<1>1. PICK n \in DOMAIN rows : n = worker[k].job
  BY MineKnown DEF HeardInv
<1>2. DOMAIN rows' = DOMAIN rows /\ rows'[n] = r /\ \A i \in DOMAIN rows : i # n => rows'[i] = rows[i]
  BY <1>1, RowWritten DEF HeardInv, Base
<1>3. Same(r, Mine(k)) /\ Named(n, Mine(k))
  BY <1>1, MineFair DEF Same
<1>4. n \notin raced => Same(r, rows[n])
  BY <1>1, <1>3, MineFair DEF Same
<1>5. \A j \in DOMAIN rows : Old(j, rows'[j])
  BY <1>2, <1>3, OldAsIs DEF Old
<1> QED BY <1>2, <1>4, <1>5 DEF Same

LEMMA HeardWait ==
    ASSUME HeardInv, Base', NEW k \in Worker, WaitForDue(k) \/ WaitForSpeaker(k) \/ WaitForTranscription(k)
    PROVE  HeardInv'
<1>0. Base
  BY DEF HeardInv
<1>1. /\ worker[k].stage # "idle" /\ Leave(k)
      /\ UNCHANGED << progress, tasks, closings, wakes, raced >>
  BY <1>0, WaitShape
<1>2. PICK r \in Row : /\ rows' = [ rows EXCEPT ![worker[k].job] = r ]
                       /\ r.first = Mine(k).first /\ r.latest = Mine(k).latest
  BY <1>0, WaitShape
<1>3. /\ HoldersKept /\ AtKept
      /\ worker'[k].stage = "leave" /\ \A i \in Worker : i # k => worker'[i] = worker[i]
  BY <1>1, HoldersLeave
<1>4. /\ DOMAIN rows' = DOMAIN rows /\ \A j \in DOMAIN rows : Old(j, rows'[j])
      /\ \A j \in DOMAIN rows : j \notin raced => Same(rows'[j], rows[j])
  BY <1>1, <1>2, CopyWritten
<1>5. WritesFair
  BY <1>1, <1>4 DEF WritesFair, Spawned
<1> QED BY <1>1, <1>3, <1>4, <1>5, HeardStep

LEMMA HeardDispatch ==
    ASSUME HeardInv, Base', NEW k \in Worker, Dispatch(k)
    PROVE  HeardInv'
<1>0. Base
  BY DEF HeardInv
<1>1. /\ worker[k].stage = "dispatch" /\ Leave(k)
      /\ UNCHANGED << progress, closings, wakes, raced >>
  BY <1>0, DispatchShape
<1>2. worker[k].stage # "idle" /\ worker[k].stage \in Bounded
  BY <1>1 DEF Bounded, Active
<1>3. PICK r \in Row : /\ rows' = [ rows EXCEPT ![worker[k].job] = r ]
                       /\ r.first = Mine(k).first /\ r.latest = Mine(k).latest
  BY <1>0, DispatchShape
<1>4. /\ HoldersKept /\ AtKept
      /\ worker'[k].stage = "leave" /\ \A i \in Worker : i # k => worker'[i] = worker[i]
  BY <1>1, <1>2, HoldersLeave
<1>5. /\ DOMAIN rows' = DOMAIN rows /\ \A j \in DOMAIN rows : Old(j, rows'[j])
      /\ \A j \in DOMAIN rows : j \notin raced => Same(rows'[j], rows[j])
  BY <1>2, <1>3, CopyWritten
<1>6. PICK w \in Wake : w = Mine(k).latest
  BY <1>0, <1>2, MineKnown
<1>7. /\ tasks'[w].of = worker[k].job /\ tasks'[w].closed = worker[k].closed
      /\ \A v \in Wake : v # w => tasks'[v] = tasks[v]
  BY <1>0, <1>6, DispatchShape
<1>8. ASSUME NEW j \in DOMAIN rows, j \notin raced, NEW v \in Wake, Spawned(v, j)'
      PROVE  \/ Spawned(v, j) /\ tasks'[v].closed = tasks[v].closed
             \/ (\E i \in Worker : AtWork(i, j)) /\ Lower(rows[j]) <= tasks'[v].closed
  <2>1. CASE v = w
    <3>1. j = worker[k].job
      BY <1>7, <1>8, <2>1 DEF Spawned
    <3>2. AtWork(k, j) /\ Lower(rows[j]) <= worker[k].closed
      BY <1>2, <1>8, <3>1, MineFair
    <3> QED BY <1>7, <2>1, <3>2
  <2>2. CASE v # w
    BY <1>7, <1>8, <2>2 DEF Spawned
  <2> QED BY <2>1, <2>2
<1>9. WritesFair
  BY <1>1, <1>5, <1>8 DEF WritesFair
<1>10. closings' = closings
  BY <1>1
<1> QED BY <1>4, <1>5, <1>9, <1>10, HeardStep

LEMMA HeardReread ==
    ASSUME HeardInv, Base', NEW k \in Worker, Reread(k)
    PROVE  HeardInv'
<1>0. Base
  BY DEF HeardInv
<1>1. UNCHANGED << rows, progress, tasks, closings, wakes, raced >> /\ worker[k].stage # "idle"
  BY <1>0, RereadShape
<1>2. PICK h \in Handler({ 0 } \cup DOMAIN rows) :
        /\ worker' = [ worker EXCEPT ![k] = h ]
        /\ h.stage = "finish" /\ h.job = worker[k].job
        /\ h.copy.first = rows[worker[k].job].first /\ h.copy.latest = rows[worker[k].job].latest
  BY <1>0, RereadShape
<1>3. worker'[k] = h /\ \A i \in Worker : i # k => worker'[i] = worker[i]
  BY <1>0, <1>2, Untouched
<1>4. Same(h.copy, rows[worker[k].job]) /\ "finish" \notin Bounded
  BY <1>2 DEF Same, Bounded, Active
<1>5. HoldersKept /\ AtKept
  BY <1>1, <1>2, <1>3, <1>4 DEF HoldersKept, AtKept, Placed, Holding
<1>6. WritesFair /\ \A j \in DOMAIN rows : Old(j, rows'[j])
  BY <1>0, <1>1, WritesAlone DEF Same
<1>7. \A i \in Worker : worker'[i].stage = "close" =>
        worker[i].stage = "close" /\ worker'[i].closed = worker[i].closed
  BY <1>2, <1>3
<1> QED BY <1>1, <1>5, <1>6, <1>7, HeardStep

LEMMA HeardFinish ==
    ASSUME HeardInv, Base', NEW k \in Worker, Finish(k)
    PROVE  HeardInv'
<1>0. Base
  BY DEF HeardInv
<1>1. worker[k].stage = "finish" /\ UNCHANGED << progress, tasks, closings, wakes, raced >>
  BY DEF Finish
<1>2. PICK r \in Row : r = Mine(k)
  BY <1>0, <1>1, MineKnown
<1>3. rows' = [ rows EXCEPT ![worker[k].job] = r ]
  BY <1>2 DEF Finish
<1>4. worker'[k].stage = "idle" /\ \A i \in Worker : i # k => worker'[i] = worker[i]
  BY <1>0, IdlingKnown, Untouched DEF Finish
<1>5. /\ DOMAIN rows' = DOMAIN rows /\ \A j \in DOMAIN rows : Old(j, rows'[j])
      /\ \A j \in DOMAIN rows : j \notin raced => Same(rows'[j], rows[j])
  BY <1>1, <1>2, <1>3, CopyWritten
<1>6. WritesFair
  BY <1>1, <1>5 DEF WritesFair, Spawned
<1>7. HoldersKept /\ AtKept
  BY <1>1, <1>4 DEF HoldersKept, AtKept, Placed, Holding
<1> QED BY <1>1, <1>4, <1>5, <1>6, <1>7, HeardStep

LEMMA HeardHandle ==
    ASSUME HeardInv, Base', NEW k \in Worker, Handle(k)
    PROVE  HeardInv'
BY HeardOpen, HeardRead, HeardRecord, HeardClose, HeardWait, HeardDispatch, HeardReread, HeardFinish DEF Handle, Open

LEMMA HeardClaim ==
    ASSUME HeardInv, Base', NEW k \in Worker, NEW n \in DOMAIN rows, Claim(k, n)
    PROVE  HeardInv'
<1>0. Base
  BY DEF HeardInv
<1>1. PICK r, h : Claims(k, n, r, h)
  BY <1>0, ClaimShape
<1>2. r \in Row /\ Same(r, rows[n]) /\ h.stage = "start" /\ h.job = n /\ h.copy = r
  BY <1>1 DEF Claims, Same
<1>3. /\ DOMAIN rows' = DOMAIN rows
      /\ rows'[n] = r /\ \A i \in DOMAIN rows : i # n => rows'[i] = rows[i]
  BY <1>0, <1>1, RowWritten DEF Base, Claims
<1>4. worker'[k] = h /\ \A i \in Worker : i # k => worker'[i] = worker[i]
  BY <1>0, <1>1, Untouched DEF Claims
<1>5. /\ UNCHANGED << progress, tasks, closings, wakes >> /\ worker[k].stage = "idle"
      /\ raced \subseteq raced'
      /\ n \notin raced' => \A v \in Wake : ~Rewrites(v, n)
  BY DEF Claim, Rewriters, Rewrites, Rewriting
<1>6. AtKept
  BY <1>5 DEF AtKept, Placed
<1>7. \A j \in DOMAIN rows : Old(j, rows'[j]) /\ Same(rows'[j], rows[j])
  BY <1>2, <1>3, OldAsIs DEF Old, Same
<1>8. \A i \in Worker : worker'[i].stage # "idle" => Old(worker'[i].job, worker'[i].copy)
  <2> TAKE i \in Worker
  <2>1. Old(n, r)
    BY <1>3, <1>7
  <2> QED BY <1>2, <1>4, <2>1, OldAsIs
<1>9. \A i \in Worker : worker'[i].stage = "close" =>
             \/ /\ worker[i].stage = "close" /\ worker'[i].copy = worker[i].copy
                /\ worker'[i].closed = worker[i].closed
             \/ /\ worker[i].stage # "idle" /\ worker'[i].copy = worker[i].copy
                /\ Lower(worker[i].copy) <= worker'[i].closed
  BY <1>2, <1>4
<1>10. /\ \A v \in Wake : wakes'[v].stage \in Holding => Old(wakes'[v].target, wakes'[v].copy)
       /\ \A v \in Wake : \A c \in wakes'[v].listed : Old(c.job, c.row)
  BY <1>5, OldAsIs
<1>11. BoundaryInv'
  BY <1>3, <1>5, <1>6, <1>7, <1>8, <1>9, <1>10, BoundaryStep DEF HeardInv
<1>12. ASSUME NEW j \in DOMAIN rows, j \notin raced' PROVE FairRow(j)'
  <2>1. FairRow(j)
    BY <1>5, <1>12 DEF HeardInv, FairInv
  <2>2. CASE j # n
    <3>1. \A i \in Worker : AtWork(i, j)' =>
             /\ AtWork(i, j) /\ worker'[i].copy = worker[i].copy
             /\ worker'[i].stage \in Bounded =>
                  \/ worker[i].stage \in Bounded /\ worker'[i].closed = worker[i].closed
                  \/ Lower(rows[j]) <= worker'[i].closed
      BY <1>2, <1>4, <2>2 DEF AtWork
    <3>2. /\ j \in DOMAIN rows' /\ Same(rows'[j], rows[j]) /\ progress'[j] = progress[j]
          /\ \A v \in Wake : Rewrites(v, j)' =>
               Rewrites(v, j) /\ wakes'[v].copy = wakes[v].copy /\ wakes'[v].stage = wakes[v].stage
          /\ \A w \in Wake : Spawned(w, j)' => Spawned(w, j) /\ tasks'[w].closed = tasks[w].closed
      BY <1>3, <1>5, <1>7 DEF Rewrites, Spawned
    <3> QED BY <1>0, <1>6, <2>1, <3>1, <3>2, FairKept
  <2>3. CASE j = n
    <3>1. PICK q \in Row : q = rows[n] /\ Known(q)
      BY <1>0, Fields, Untouched DEF Base
    <3>2. Lower(q)' = Lower(q)
      BY <1>6, <3>1, LowerKept
    <3>3. Lower(r)' = Lower(q)'
      BY <1>2, <3>1 DEF Same, Lower, HardCap
    <3>4. Lower(rows[j])' = Lower(q)
      BY <1>3, <2>3, <3>2, <3>3 DEF Lower, HardCap, At
    <3>5. \A v \in Wake : ~Rewrites(v, j)'
      BY <1>5, <1>12, <2>3 DEF Rewrites
    <3>6. ASSUME NEW i \in Worker, AtWork(i, j)'
          PROVE  /\ Same(worker'[i].copy, r)
                 /\ worker'[i].stage \in Bounded => Lower(q) <= worker'[i].closed
      <4>1. CASE i = k
        BY <1>2, <1>4, <4>1 DEF Same, Bounded
      <4>2. CASE i # k
        <5>1. AtWork(i, j) /\ worker'[i] = worker[i]
          BY <1>4, <3>6, <4>2 DEF AtWork
        <5>2. Same(worker[i].copy, q) /\ (worker[i].stage \in Bounded => Lower(q) <= worker[i].closed)
          BY <2>1, <2>3, <3>1, <5>1 DEF FairRow
        <5> QED BY <1>2, <3>1, <5>1, <5>2 DEF Same
      <4> QED BY <4>1, <4>2
    <3>7. /\ progress'[j] # Never => Lower(q) <= progress'[j]
          /\ \A w \in Wake : Spawned(w, j)' => Lower(q) <= tasks'[w].closed
      BY <1>5, <2>1, <2>3, <3>1 DEF FairRow, Spawned
    <3>8. rows'[j] = r
      BY <1>3, <2>3
    <3> QED BY <3>4, <3>5, <3>6, <3>7, <3>8 DEF FairRow
  <2> QED BY <2>2, <2>3
<1>13. FairInv'
  BY <1>3, <1>12 DEF FairInv
<1> QED BY <1>11, <1>13 DEF HeardInv

\* Wake w is the only one that moves, to a record like f.
WakeMoves(w, f) ==
    /\ wakes' = [ wakes EXCEPT ![w] = f ] /\ f.at = wakes[w].at
    /\ f \in Schedules({ 0 } \cup DOMAIN rows)
    /\ ~Placed(w) /\ UNCHANGED << closings, worker >> /\ raced \subseteq raced'

LEMMA WakeMoved ==
    ASSUME Base, NEW w \in Wake, NEW f, WakeMoves(w, f)
    PROVE  /\ wakes'[w] = f /\ \A v \in Wake : v # w => wakes'[v] = wakes[v]
           /\ AtKept
           /\ \A k \in Worker : worker'[k].stage # "idle" => Old(worker'[k].job, worker'[k].copy)
           /\ \A v \in Wake : v # w /\ wakes'[v].stage \in Holding => Old(wakes'[v].target, wakes'[v].copy)
           /\ \A v \in Wake : v # w => \A c \in wakes'[v].listed : Old(c.job, c.row)
           /\ \A k, j : AtWork(k, j)' <=> AtWork(k, j)
<1>1. wakes'[w] = f /\ \A v \in Wake : v # w => wakes'[v] = wakes[v]
  BY DEF WakeMoves, Base, TypeOK
<1>2. AtKept
  BY <1>1 DEF AtKept, WakeMoves, Placed
<1>3. worker' = worker
  BY DEF WakeMoves
<1> QED BY <1>1, <1>2, <1>3, OldAsIs DEF AtWork

\* What such a move leaves of an activation that is not its target, or that it
\* no longer rewrites.
LEMMA WakeMoveFair ==
    ASSUME HeardInv, Base', NEW w \in Wake, NEW f, WakeMoves(w, f),
           NEW j \in DOMAIN rows, j \notin raced, j \in DOMAIN rows',
           ~(f.stage \in Rewriting /\ f.target = j),
           Same(rows'[j], rows[j]), progress'[j] = progress[j],
           \A v \in Wake : Spawned(v, j)' => Spawned(v, j) /\ tasks'[v].closed = tasks[v].closed
    PROVE  FairRow(j)'
<1>1. /\ wakes'[w] = f /\ \A v \in Wake : v # w => wakes'[v] = wakes[v]
      /\ AtKept /\ worker' = worker
      /\ \A k, i : AtWork(k, i)' <=> AtWork(k, i)
  BY WakeMoved DEF HeardInv, WakeMoves
<1>2. \A v \in Wake : Rewrites(v, j)' =>
        Rewrites(v, j) /\ wakes'[v].copy = wakes[v].copy /\ wakes'[v].stage = wakes[v].stage
  BY <1>1 DEF Rewrites
<1>3. FairRow(j)
  BY DEF HeardInv, FairInv
<1>4. \A k \in Worker : AtWork(k, j)' =>
             /\ AtWork(k, j) /\ worker'[k].copy = worker[k].copy
             /\ worker'[k].stage \in Bounded =>
                  \/ worker[k].stage \in Bounded /\ worker'[k].closed = worker[k].closed
                  \/ Lower(rows[j]) <= worker'[k].closed
  BY <1>1
<1> QED BY <1>1, <1>2, <1>3, <1>4, FairKept DEF HeardInv

LEMMA HeardInsert ==
    ASSUME HeardInv, Base', NEW w \in Wake, ~Placed(w), NEW r \in Row, r.latest = w, Insert(r),
           wakes' = Scheduled(w), UNCHANGED << tasks, closings, worker, raced >>
    PROVE  HeardInv'
<1>0. Base /\ TypeOK
  BY DEF HeardInv, Base
<1>1. PICK f \in Schedules({ 0 } \cup DOMAIN rows) :
        /\ wakes' = [ wakes EXCEPT ![w] = f ]
        /\ f.stage = "done" /\ f.at = wakes[w].at /\ f.listed = wakes[w].listed
  BY <1>0, DoneWake
<1>2. WakeMoves(w, f) /\ "done" \notin Holding /\ "done" \notin Rewriting
  BY <1>1 DEF WakeMoves, Holding, Rewriting
<1>3. /\ wakes'[w] = f /\ \A v \in Wake : v # w => wakes'[v] = wakes[v]
      /\ AtKept /\ worker' = worker
      /\ \A k \in Worker : worker'[k].stage # "idle" => Old(worker'[k].job, worker'[k].copy)
      /\ \A v \in Wake : v # w /\ wakes'[v].stage \in Holding => Old(wakes'[v].target, wakes'[v].copy)
      /\ \A v \in Wake : v # w => \A c \in wakes'[v].listed : Old(c.job, c.row)
      /\ \A k, j : AtWork(k, j)' <=> AtWork(k, j)
  BY <1>0, <1>2, WakeMoved
<1>4. PICK n : n = Len(rows')
  OBVIOUS
<1>5. /\ rows'[n] = r /\ DOMAIN rows' = DOMAIN rows \cup { n } /\ n \notin DOMAIN rows /\ n # 0
      /\ \A i \in DOMAIN rows : rows'[i] = rows[i] /\ progress'[i] = progress[i]
      /\ progress'[n] = Never
  <2>1. Len(rows) \in Nat /\ Len(rows') = Len(rows) + 1
    BY <1>0, Fields, RowInserted
  <2> QED BY <1>0, <1>4, <2>1, RowInserted
<1>6. \A j \in DOMAIN rows' : Old(j, rows'[j]) \/ Fresh(j, rows'[j], w, r.first, n)
  BY <1>5, OldAsIs DEF Fresh
<1>7. /\ \A v \in Wake : wakes'[v].stage \in Holding => Old(wakes'[v].target, wakes'[v].copy)
      /\ \A v \in Wake : \A c \in wakes'[v].listed : Old(c.job, c.row)
  BY <1>1, <1>2, <1>3, OldAsIs
<1>8. closings' = closings /\ \A k \in Worker : worker'[k].stage = "close" =>
             \/ /\ worker[k].stage = "close" /\ worker'[k].copy = worker[k].copy
                /\ worker'[k].closed = worker[k].closed
             \/ /\ worker[k].stage # "idle" /\ worker'[k].copy = worker[k].copy
                /\ Lower(worker[k].copy) <= worker'[k].closed
  BY <1>3
<1>9. BoundaryInv'
  BY <1>0, <1>3, <1>6, <1>7, <1>8, BoundaryStep DEF HeardInv
<1>10. ASSUME NEW j \in DOMAIN rows', j \notin raced' PROVE FairRow(j)'
  <2>1. CASE j \in DOMAIN rows
    <3>1. /\ ~(f.stage \in Rewriting /\ f.target = j)
          /\ Same(rows'[j], rows[j]) /\ progress'[j] = progress[j] /\ j \notin raced
          /\ \A v \in Wake : Spawned(v, j)' => Spawned(v, j) /\ tasks'[v].closed = tasks[v].closed
      BY <1>1, <1>2, <1>5, <1>10, <2>1 DEF Same, Spawned
    <3> QED BY <1>2, <2>1, <3>1, WakeMoveFair
  <2>2. CASE j = n
    <3>1. \A k \in Worker : ~AtWork(k, j)'
      BY <1>0, <1>3, <1>5, <2>2, Fields DEF AtWork
    <3>2. \A v \in Wake : ~Rewrites(v, j)'
      <4> TAKE v \in Wake
      <4>1. CASE v = w
        BY <1>1, <1>2, <1>3, <4>1 DEF Rewrites
      <4>2. CASE v # w
        BY <1>0, <1>3, <1>5, <2>2, <4>2, Fields DEF Rewrites
      <4> QED BY <4>1, <4>2
    <3>3. \A v \in Wake : ~Spawned(v, j)'
      BY <1>0, <1>5, <2>2, Untouched DEF Spawned
    <3> QED BY <1>5, <2>2, <3>1, <3>2, <3>3 DEF FairRow
  <2> QED BY <1>5, <2>1, <2>2
<1>11. FairInv'
  BY <1>10 DEF FairInv
<1> QED BY <1>9, <1>11 DEF HeardInv

LEMMA HeardCreate ==
    ASSUME HeardInv, Base', NEW w \in Wake, Create(w)
    PROVE  HeardInv'
<1>0. TypeOK
  BY DEF HeardInv, Base
<1> DEFINE n == [ NoRow EXCEPT !.first = w, !.latest = w, !.heard = { w } ]
<1>1. n \in Row /\ n.latest = w
  BY NoRowType DEF Row
<1> HIDE DEF n
<1>2. PICK r : r = Queued(n, w)
  OBVIOUS
<1>3. r \in Row /\ r.latest = w
  BY <1>0, <1>1, <1>2, RowOfWake
<1>4. Insert(r) /\ ~Placed(w) /\ wakes' = Scheduled(w) /\ UNCHANGED << tasks, closings, worker, raced >>
  BY <1>2 DEF Create, n, Placed
<1> QED BY <1>3, <1>4, HeardInsert

LEMMA HeardReplace ==
    ASSUME HeardInv, Base', NEW w \in Wake, Replace(w)
    PROVE  HeardInv'
<1>0. TypeOK
  BY DEF HeardInv, Base
<1>1. PICK c \in Row : c = wakes[w].copy
  BY <1>0, Fields
<1>2. PICK r : r = Queued(Amended(c, w), w)
  OBVIOUS
<1>3. r \in Row /\ r.latest = w
  BY <1>0, <1>1, <1>2, RowOfWake
<1>4. Insert(r) /\ ~Placed(w) /\ wakes' = Scheduled(w) /\ UNCHANGED << tasks, closings, worker, raced >>
  BY <1>1, <1>2 DEF Replace, Placed
<1> QED BY <1>3, <1>4, HeardInsert

\* Nothing is inserted: the boundaries stay when the records do.
LEMMA BoundaryMove ==
    ASSUME HeardInv, Base', NEW w \in Wake, NEW f, WakeMoves(w, f), NEW x, NEW n,
           \A j \in DOMAIN rows' : Old(j, rows'[j]) \/ Fresh(j, rows'[j], w, x, n),
           f.stage \in Holding => Old(f.target, f.copy), \A c \in f.listed : Old(c.job, c.row)
    PROVE  BoundaryInv'
<1>0. Base
  BY DEF HeardInv
<1>1. /\ wakes'[w] = f
      /\ AtKept /\ worker' = worker
      /\ \A k \in Worker : worker'[k].stage # "idle" => Old(worker'[k].job, worker'[k].copy)
      /\ \A v \in Wake : v # w /\ wakes'[v].stage \in Holding => Old(wakes'[v].target, wakes'[v].copy)
      /\ \A v \in Wake : v # w => \A c \in wakes'[v].listed : Old(c.job, c.row)
  BY <1>0, WakeMoved DEF WakeMoves
<1>2. /\ \A v \in Wake : wakes'[v].stage \in Holding => Old(wakes'[v].target, wakes'[v].copy)
      /\ \A v \in Wake : \A c \in wakes'[v].listed : Old(c.job, c.row)
  BY <1>1
<1>3. closings' = closings /\ \A k \in Worker : worker'[k].stage = "close" =>
             \/ /\ worker[k].stage = "close" /\ worker'[k].copy = worker[k].copy
                /\ worker'[k].closed = worker[k].closed
             \/ /\ worker[k].stage # "idle" /\ worker'[k].copy = worker[k].copy
                /\ Lower(worker[k].copy) <= worker'[k].closed
  BY <1>1 DEF WakeMoves
<1> QED BY <1>0, <1>1, <1>2, <1>3, BoundaryStep DEF HeardInv

\* A wake goes on with its row, and nothing it reads changes.
LEMMA HeardProceed ==
    ASSUME HeardInv, Base', NEW w \in Wake, wakes[w].stage \in Rewriting,
           NEW st \in { "clear", "cancel", "root" }, NEW f, Proceeds(w, st, f),
           st = "clear" => ~Tasked(wakes[w].target),
           UNCHANGED << rows, progress, closings, worker, raced >>,
           \A v \in Wake : /\ tasks'[v].of = tasks[v].of /\ tasks'[v].closed = tasks[v].closed
                           /\ tasks'[v].state = "none" <=> tasks[v].state = "none"
    PROVE  HeardInv'
<1>0. Base /\ TypeOK /\ wakes[w].stage \in Holding
  BY DEF HeardInv, Base, Holding
<1>1. PICK c \in Row : c = wakes[w].copy
  BY <1>0, Fields
<1>2. PICK n \in DOMAIN rows : n = wakes[w].target
  BY <1>0, HeldCopy
<1>3. /\ f \in Schedules({ 0 } \cup DOMAIN rows) /\ wakes' = [ wakes EXCEPT ![w] = f ]
      /\ f.stage = st /\ f.at = wakes[w].at /\ f.target = n /\ f.copy = c
      /\ f.listed = wakes[w].listed /\ st \in Holding
  BY <1>1, <1>2 DEF Proceeds, Holding, Rewriting
<1>4. WakeMoves(w, f)
  BY <1>0, <1>3, HeldCopy DEF WakeMoves
<1>5. /\ wakes'[w] = f /\ \A v \in Wake : v # w => wakes'[v] = wakes[v]
      /\ AtKept /\ \A k, j : AtWork(k, j)' <=> AtWork(k, j)
  BY <1>0, <1>4, WakeMoved
<1>6. BoundaryInv'
  <2>1. /\ \A j \in DOMAIN rows' : Old(j, rows'[j])
        /\ Old(f.target, f.copy) /\ \A d \in f.listed : Old(d.job, d.row)
    BY <1>0, <1>1, <1>2, <1>3, OldAsIs
  <2> QED BY <1>4, <2>1, BoundaryMove
<1>7. ASSUME NEW j \in DOMAIN rows', j \notin raced' PROVE FairRow(j)'
  <2>1. j \in DOMAIN rows /\ j \notin raced /\ FairRow(j)
    BY <1>7 DEF HeardInv, FairInv
  <2>2. \A v \in Wake : Spawned(v, j)' <=> Spawned(v, j)
    BY DEF Spawned
  <2>3. CASE j = n
    <3>1. Rewrites(w, n)
      BY <1>2 DEF Rewrites
    <3>2. /\ Same(c, rows[n])
          /\ \A u \in Wake : Rewrites(u, n) => u = w
          /\ \A k \in Worker : ~AtWork(k, n)
      BY <1>1, <2>1, <2>3, <3>1 DEF FairRow
    <3>3. \A k \in Worker : ~AtWork(k, n)'
      BY <1>5, <3>2
    <3>4. \A v \in Wake : Rewrites(v, n)' => v = w
      BY <1>5, <3>2 DEF Rewrites
    <3>5. Same(wakes'[w].copy, rows'[n]) /\ wakes'[w].stage = st
      BY <1>3, <1>5, <3>2
    <3>6. st = "clear" => \A v \in Wake : ~Spawned(v, n)'
      BY <1>2, <2>2, <2>3 DEF Tasked, Spawned
    <3>7. PICK r \in Row : r = rows[n] /\ Known(r)
      BY <1>0, Fields, Untouched
    <3>8. Lower(r)' = Lower(r)
      BY <1>5, <3>7, LowerKept
    <3>9. PICK m : m = Lower(r)
      OBVIOUS
    <3>10. Lower(rows[n])' = m
      <4>1. PICK q : q = rows'[n]
        OBVIOUS
      <4>2. q = r
        BY <3>7, <4>1
      <4>3. Lower(q)' = m
        BY <3>8, <3>9, <4>2
      <4> QED BY <4>1, <4>3 DEF Lower, HardCap, At
    <3>11. progress'[n] # Never => m <= progress'[n]
      BY <2>1, <2>3, <3>7, <3>9 DEF FairRow
    <3>12. \A v \in Wake : Spawned(v, n)' => m <= tasks'[v].closed
      BY <2>1, <2>2, <2>3, <3>7, <3>9 DEF FairRow
    <3> QED BY <2>3, <3>3, <3>4, <3>5, <3>6, <3>10, <3>11, <3>12 DEF FairRow
  <2>4. CASE j # n
    <3>1. /\ ~(f.stage \in Rewriting /\ f.target = j)
          /\ Same(rows'[j], rows[j]) /\ progress'[j] = progress[j]
          /\ \A v \in Wake : Spawned(v, j)' => Spawned(v, j) /\ tasks'[v].closed = tasks[v].closed
      BY <1>3, <2>1, <2>2, <2>4 DEF Same
    <3> QED BY <1>4, <2>1, <3>1, WakeMoveFair
  <2> QED BY <2>3, <2>4
<1>8. FairInv'
  BY <1>7 DEF FairInv
<1> QED BY <1>6, <1>8 DEF HeardInv

LEMMA HeardInspect ==
    ASSUME HeardInv, Base', NEW w \in Wake, Inspect(w)
    PROVE  HeardInv'
<1>1. wakes[w].stage = "chosen" /\ wakes[w].stage \in Rewriting
      /\ UNCHANGED << rows, progress, tasks, closings, worker, raced >>
  BY DEF Inspect, Rewriting
<1>2. PICK st \in { "clear", "cancel" } :
        wakes' = [ wakes EXCEPT ![w].stage = st ] /\ (st = "clear" => ~Tasked(wakes[w].target))
  BY DEF Inspect
<1>3. PICK f : Proceeds(w, st, f)
  BY <1>2, ProceedShape DEF Holding, Rewriting, HeardInv
<1>4. st \in { "clear", "cancel", "root" }
  OBVIOUS
<1>5. \A v \in Wake : /\ tasks'[v].of = tasks[v].of /\ tasks'[v].closed = tasks[v].closed
                      /\ tasks'[v].state = "none" <=> tasks[v].state = "none"
  BY <1>1
<1> QED BY <1>1, <1>2, <1>3, <1>4, <1>5, HeardProceed

LEMMA HeardCancelTree ==
    ASSUME HeardInv, Base', NEW w \in Wake, CancelTree(w)
    PROVE  HeardInv'
<1>1. wakes[w].stage = "cancel" /\ wakes[w].stage \in Rewriting
      /\ UNCHANGED << rows, progress, closings, worker, raced >>
  BY DEF CancelTree, Rewriting
<1>2. PICK f : Proceeds(w, "root", f)
  BY ProceedShape DEF CancelTree, Holding, Rewriting, HeardInv
<1>3. \A v \in Wake : /\ tasks'[v].of = tasks[v].of /\ tasks'[v].closed = tasks[v].closed
                      /\ tasks'[v].state = "none" <=> tasks[v].state = "none"
  BY TreeSettles DEF HeardInv
<1> QED BY <1>1, <1>2, <1>3, HeardProceed

LEMMA HeardCancelRoot ==
    ASSUME HeardInv, Base', NEW w \in Wake, CancelRoot(w)
    PROVE  HeardInv'
<1>0. /\ Base /\ TypeOK /\ wakes[w].stage = "root" /\ "root" \in Holding /\ "replace" \in Holding
      /\ "replace" \notin Rewriting
  BY DEF HeardInv, Base, CancelRoot, Holding, Rewriting
<1>1. PICK c \in Row : c = wakes[w].copy
  BY <1>0, Fields
<1>2. PICK n \in DOMAIN rows : n = wakes[w].target
  BY <1>0, HeldCopy
<1>3. PICK r : r = [ c EXCEPT !.state = IF @ = "running" THEN "cancel_requested" ELSE "settled" ]
  OBVIOUS
<1>4. r \in Row /\ r.first = c.first /\ r.latest = c.latest
  BY <1>3 DEF Row
<1>5. rows' = [ rows EXCEPT ![n] = r ] /\ UNCHANGED << progress, tasks, closings, worker, raced >>
  BY <1>1, <1>2, <1>3 DEF CancelRoot
<1>6. PICK f : Proceeds(w, "replace", f)
  BY <1>0, ProceedShape DEF CancelRoot
<1>7. /\ f \in Schedules({ 0 } \cup DOMAIN rows) /\ wakes' = [ wakes EXCEPT ![w] = f ]
      /\ f.stage = "replace" /\ f.at = wakes[w].at /\ f.target = n /\ f.copy = c
      /\ f.listed = wakes[w].listed
  BY <1>1, <1>2, <1>6 DEF Proceeds
<1>9. WakeMoves(w, f) /\ f.stage \notin Rewriting
  BY <1>0, <1>5, <1>7, HeldCopy DEF WakeMoves
<1>10. DOMAIN rows' = DOMAIN rows /\ rows'[n] = r /\ \A i \in DOMAIN rows : i # n => rows'[i] = rows[i]
  BY <1>0, <1>4, <1>5, RowWritten
<1>11. Old(n, c) /\ Rewrites(w, n)
  BY <1>0, <1>1, <1>2, OldAsIs DEF Rewriting, Rewrites
<1>12. \A j \in DOMAIN rows' : Old(j, rows'[j])
  BY <1>4, <1>10, <1>11, OldAsIs DEF Old, Same
<1>13. Old(f.target, f.copy) /\ \A d \in f.listed : Old(d.job, d.row)
  BY <1>7, <1>11, OldAsIs
<1>14. BoundaryInv'
  BY <1>9, <1>12, <1>13, BoundaryMove
<1>18. ASSUME NEW j \in DOMAIN rows', j \notin raced' PROVE FairRow(j)'
  <2>1. j \in DOMAIN rows /\ j \notin raced /\ FairRow(j)
    BY <1>5, <1>10, <1>18 DEF HeardInv, FairInv
  <2>2. Same(rows'[j], rows[j])
    <3>1. CASE j = n
      <4>1. Same(c, rows[n])
        BY <1>1, <1>11, <2>1, <3>1 DEF FairRow
      <4> QED BY <1>4, <1>10, <3>1, <4>1 DEF Same
    <3>2. CASE j # n
      BY <1>10, <2>1, <3>2 DEF Same
    <3> QED BY <3>1, <3>2
  <2>3. /\ progress'[j] = progress[j]
        /\ \A v \in Wake : Spawned(v, j)' => Spawned(v, j) /\ tasks'[v].closed = tasks[v].closed
    BY <1>5 DEF Spawned
  <2> QED BY <1>9, <2>1, <2>2, <2>3, WakeMoveFair
<1>19. FairInv'
  BY <1>18 DEF FairInv
<1> QED BY <1>14, <1>19 DEF HeardInv

LEMMA HeardClear ==
    ASSUME HeardInv, Base', NEW w \in Wake, Clear(w)
    PROVE  HeardInv'
<1>0. Base /\ TypeOK
  BY DEF HeardInv, Base
<1>1. PICK c \in Row : c = wakes[w].copy
  BY <1>0, Fields
<1>2. PICK n \in DOMAIN rows : n = wakes[w].target
  BY <1>0, HeldCopy DEF Clear, Holding, Rewriting
<1>3. UNCHANGED << rows, tasks, closings, worker, raced >> /\ wakes[w].stage = "clear"
  BY DEF Clear
<1>4. "amend" \in Holding
  BY DEF Holding, Rewriting
<1>6. PICK f : Proceeds(w, "amend", f)
  BY <1>0, <1>4, ProceedShape DEF Clear
<1>5. /\ f \in Schedules({ 0 } \cup DOMAIN rows) /\ f.stage = "amend" /\ f.at = wakes[w].at
      /\ f.target = n /\ f.copy = c /\ f.listed = wakes[w].listed
      /\ wakes' = [ wakes EXCEPT ![w] = f ]
  BY <1>1, <1>2, <1>6 DEF Proceeds
<1>7. WakeMoves(w, f)
  BY <1>3, <1>5, <1>6 DEF WakeMoves, Placed
<1>8. /\ wakes'[w] = f /\ \A v \in Wake : v # w => wakes'[v] = wakes[v]
      /\ AtKept /\ \A k, j : AtWork(k, j)' <=> AtWork(k, j)
  BY <1>0, <1>7, WakeMoved
<1>9. progress'[n] = Never /\ \A i \in DOMAIN rows : i # n => progress'[i] = progress[i]
  <2>1. Never \in Moment /\ Never <= now
    BY <1>0, Fields, TimeIsNat DEF Never
  <2>2. progress' = [ progress EXCEPT ![n] = Never ]
    BY <1>2 DEF Clear
  <2> QED BY <1>0, <2>1, <2>2, ProgressSet
<1>10. Named(n, c) /\ Rewrites(w, n)
  BY <1>1, <1>2, <1>3 DEF Named, Holding, Rewriting, Rewrites
<1>11. BoundaryInv'
  <2>1. \A j \in DOMAIN rows' : Old(j, rows'[j])
    BY <1>3, OldAsIs
  <2>2. Old(f.target, f.copy)
    BY <1>5, <1>10 DEF Old, Same
  <2>3. \A d \in f.listed : Old(d.job, d.row)
    BY <1>5, OldAsIs
  <2> QED BY <1>7, <2>1, <2>2, <2>3, BoundaryMove
<1>12. ASSUME NEW j \in DOMAIN rows', j \notin raced' PROVE FairRow(j)'
  <2>1. j \in DOMAIN rows /\ j \notin raced /\ FairRow(j)
    BY <1>3, <1>12 DEF HeardInv, FairInv
  <2>2. CASE j = n
    <3>1. /\ Same(c, rows[n])
          /\ \A v \in Wake : ~Spawned(v, n)
          /\ \A u \in Wake : Rewrites(u, n) => u = w
          /\ \A k \in Worker : ~AtWork(k, n)
      BY <1>1, <1>3, <1>10, <2>1, <2>2 DEF FairRow
    <3>2. \A k \in Worker : ~AtWork(k, n)'
      BY <1>8, <3>1
    <3>3. \A v \in Wake : ~Spawned(v, n)'
      BY <1>3, <3>1 DEF Spawned
    <3>4. \A v \in Wake : Rewrites(v, n)' => v = w
      BY <1>8, <3>1 DEF Rewrites
    <3>5. Same(wakes'[w].copy, rows'[n])
      BY <1>3, <1>5, <1>8, <3>1
    <3> QED BY <1>9, <2>2, <3>2, <3>3, <3>4, <3>5 DEF FairRow
  <2>3. CASE j # n
    <3>1. /\ ~(f.stage \in Rewriting /\ f.target = j)
          /\ Same(rows'[j], rows[j]) /\ progress'[j] = progress[j]
          /\ \A v \in Wake : Spawned(v, j)' => Spawned(v, j) /\ tasks'[v].closed = tasks[v].closed
      BY <1>3, <1>5, <1>9, <2>1, <2>3 DEF Same, Spawned
    <3> QED BY <1>3, <1>7, <2>1, <3>1, WakeMoveFair
  <2> QED BY <2>2, <2>3
<1>13. FairInv'
  BY <1>12 DEF FairInv
<1> QED BY <1>11, <1>13 DEF HeardInv

LEMMA HeardAmend ==
    ASSUME HeardInv, Base', NEW w \in Wake, Amend(w)
    PROVE  HeardInv'
<1>0. Base /\ TypeOK
  BY DEF HeardInv, Base
<1>1. PICK c \in Row : c = wakes[w].copy
  BY <1>0, Fields
<1>2. PICK n \in DOMAIN rows : n = wakes[w].target
  BY <1>0, HeldCopy DEF Amend, Holding, Rewriting
<1>3. PICK r : r = Queued(Amended(c, w), w)
  OBVIOUS
<1>4. r \in Row /\ r.latest = w
  BY <1>0, <1>3, RowOfWake
<1>5. rows' = [ rows EXCEPT ![n] = r ] /\ wakes' = Scheduled(w) /\ wakes[w].stage = "amend"
      /\ UNCHANGED << progress, tasks, closings, worker, raced >>
  BY <1>1, <1>2, <1>3 DEF Amend
<1>6. PICK f \in Schedules({ 0 } \cup DOMAIN rows) :
        /\ wakes' = [ wakes EXCEPT ![w] = f ]
        /\ f.stage = "done" /\ f.at = wakes[w].at /\ f.listed = wakes[w].listed
  BY <1>0, <1>5, DoneWake
<1>7. ~Placed(w) /\ WakeMoves(w, f) /\ f.stage \notin Holding /\ f.stage \notin Rewriting
  BY <1>5, <1>6 DEF WakeMoves, Placed, Holding, Rewriting
<1>8. /\ wakes'[w] = f /\ \A v \in Wake : v # w => wakes'[v] = wakes[v]
      /\ \A k, j : AtWork(k, j)' <=> AtWork(k, j)
  BY <1>0, <1>7, WakeMoved
<1>9. DOMAIN rows' = DOMAIN rows /\ rows'[n] = r /\ \A i \in DOMAIN rows : i # n => rows'[i] = rows[i]
  BY <1>0, <1>4, <1>5, RowWritten
<1>10. /\ \A j \in DOMAIN rows' : Old(j, rows'[j]) \/ Fresh(j, rows'[j], w, r.first, n)
       /\ \A d \in f.listed : Old(d.job, d.row)
  BY <1>4, <1>6, <1>7, <1>9, OldAsIs DEF Fresh
<1>11. BoundaryInv'
  BY <1>7, <1>10, BoundaryMove
<1>12. ASSUME NEW j \in DOMAIN rows', j \notin raced' PROVE FairRow(j)'
  <2>1. j \in DOMAIN rows /\ j \notin raced /\ FairRow(j)
    BY <1>5, <1>9, <1>12 DEF HeardInv, FairInv
  <2>2. CASE j = n
    <3>1. /\ \A v \in Wake : ~Spawned(v, n)
          /\ \A u \in Wake : Rewrites(u, n) => u = w
          /\ \A k \in Worker : ~AtWork(k, n)
          /\ progress[n] = Never
      <4>1. Rewrites(w, n)
        BY <1>2, <1>5 DEF Rewriting, Rewrites
      <4> QED BY <1>5, <2>1, <2>2, <4>1 DEF FairRow
    <3>2. \A k \in Worker : ~AtWork(k, n)'
      BY <1>8, <3>1
    <3>3. \A v \in Wake : ~Spawned(v, n)'
      BY <1>5, <3>1 DEF Spawned
    <3>4. \A v \in Wake : ~Rewrites(v, n)'
      BY <1>7, <1>8, <3>1 DEF Rewrites
    <3> QED BY <1>5, <2>2, <3>1, <3>2, <3>3, <3>4 DEF FairRow
  <2>3. CASE j # n
    <3>1. /\ ~(f.stage \in Rewriting /\ f.target = j)
          /\ Same(rows'[j], rows[j]) /\ progress'[j] = progress[j]
          /\ \A v \in Wake : Spawned(v, j)' => Spawned(v, j) /\ tasks'[v].closed = tasks[v].closed
      BY <1>5, <1>7, <1>9, <2>1, <2>3 DEF Same, Spawned
    <3> QED BY <1>7, <1>9, <2>1, <3>1, WakeMoveFair
  <2> QED BY <2>2, <2>3
<1>13. FairInv'
  BY <1>12 DEF FairInv
<1> QED BY <1>11, <1>13 DEF HeardInv

\* A wake that moves and has no row to rewrite yet.
LEMMA HeardApart ==
    ASSUME HeardInv, Base', NEW w \in Wake, NEW f, WakeMoves(w, f), f.stage \notin Holding,
           \A c \in f.listed : Old(c.job, c.row),
           UNCHANGED << rows, progress, tasks, raced >>
    PROVE  HeardInv'
<1>1. BoundaryInv'
  <2>1. \A j \in DOMAIN rows' : Old(j, rows'[j])
    BY OldAsIs
  <2> QED BY <2>1, BoundaryMove
<1>2. ASSUME NEW j \in DOMAIN rows', j \notin raced' PROVE FairRow(j)'
  <2>1. /\ ~(f.stage \in Rewriting /\ f.target = j)
        /\ Same(rows'[j], rows[j]) /\ progress'[j] = progress[j]
        /\ \A v \in Wake : Spawned(v, j)' => Spawned(v, j) /\ tasks'[v].closed = tasks[v].closed
    BY DEF Same, Spawned, Holding
  <2> QED BY <1>2, <2>1, WakeMoveFair
<1>3. FairInv'
  BY <1>2 DEF FairInv
<1> QED BY <1>1, <1>3 DEF HeardInv

LEMMA HeardLook ==
    ASSUME HeardInv, Base', NEW w \in Wake, Look(w)
    PROVE  HeardInv'
<1>0. Base /\ TypeOK
  BY DEF HeardInv, Base
<1>1. PICK L : L = Listed(w)
  OBVIOUS
<1>2. /\ L \in SUBSET [ job : { 0 } \cup DOMAIN rows, row : Row ]
      /\ \A c \in L : c.job \in DOMAIN rows /\ c.row = rows[c.job]
  BY <1>0, <1>1, ListedRows
<1>3. PICK g \in Schedules({ 0 } \cup DOMAIN rows) : g = wakes[w]
  BY <1>0 DEF TypeOK
<1>4. PICK f : f = [ g EXCEPT !.stage = "listed", !.listed = L ]
  OBVIOUS
<1>5. f \in Schedules({ 0 } \cup DOMAIN rows) /\ f.stage = "listed" /\ f.at = g.at /\ f.listed = L
  BY <1>2, <1>3, <1>4 DEF Schedules
<1>6. wakes' = [ wakes EXCEPT ![w] = f ] /\ wakes[w].stage = "heard"
      /\ UNCHANGED << rows, progress, tasks, closings, worker, raced >>
  BY <1>0, <1>1, <1>3, <1>4 DEF TypeOK, Look
<1>7. WakeMoves(w, f) /\ f.stage \notin Holding
  BY <1>3, <1>5, <1>6 DEF WakeMoves, Placed, Holding, Rewriting
<1>8. \A c \in f.listed : Old(c.job, c.row)
  BY <1>2, <1>5, OldAsIs
<1> QED BY <1>6, <1>7, <1>8, HeardApart

LEMMA HeardChoose ==
    ASSUME HeardInv, Base', NEW w \in Wake, Choose(w)
    PROVE  HeardInv'
<1>0. Base /\ TypeOK
  BY DEF HeardInv, Base
<1>1. UNCHANGED << rows, progress, tasks, closings, worker >> /\ wakes[w].stage = "listed"
  BY DEF Choose
<1>2. PICK f : wakes' = [ wakes EXCEPT ![w] = f ] /\ (ChoosesNone(w, f) \/ ChoosesRow(w, f))
  BY <1>0, ChooseShape
<1>3. CASE ChoosesNone(w, f)
  <2>1. WakeMoves(w, f) /\ f.stage \notin Holding /\ f.listed = {} /\ raced' = raced
    BY <1>1, <1>2, <1>3 DEF WakeMoves, ChoosesNone, Placed, Holding, Rewriting
  <2> QED BY <1>1, <2>1, HeardApart
<1>4. CASE ChoosesRow(w, f)
  <2>1. PICK d \in wakes[w].listed :
         /\ f.stage = "chosen" /\ f.target = d.job /\ f.copy = d.row
         /\ d.row \in Row /\ d.job \in DOMAIN rows /\ Known(d.row)
         /\ raced' = IF Handlers(d.job) = {} /\ Rewriters(d.job) = {} /\ rows[d.job] = d.row
                     THEN raced ELSE raced \cup { d.job }
    BY <1>4 DEF ChoosesRow
  <2>2. PICK n \in DOMAIN rows : n = d.job
    BY <2>1
  <2>3. WakeMoves(w, f) /\ raced \subseteq raced'
    BY <1>1, <1>2, <1>4, <2>1 DEF WakeMoves, ChoosesRow, Placed
  <2>4. /\ wakes'[w] = f /\ \A v \in Wake : v # w => wakes'[v] = wakes[v]
        /\ AtKept /\ \A k, j : AtWork(k, j)' <=> AtWork(k, j)
    BY <1>0, <2>3, WakeMoved
  <2>5. BoundaryInv'
    <3>1. \A j \in DOMAIN rows' : Old(j, rows'[j])
      BY <1>1, OldAsIs
    <3>2. Old(f.target, f.copy) /\ f.listed = {}
      BY <1>4, <2>1, OldAsIs DEF ChoosesRow
    <3> QED BY <2>3, <3>1, <3>2, BoundaryMove
  <2>6. ASSUME NEW j \in DOMAIN rows', j \notin raced' PROVE FairRow(j)'
    <3>1. j \in DOMAIN rows /\ j \notin raced /\ FairRow(j)
      BY <1>1, <2>3, <2>6 DEF HeardInv, FairInv
    <3>2. \A v \in Wake : Spawned(v, j)' <=> Spawned(v, j)
      BY <1>1 DEF Spawned
    <3>3. CASE j = n
      <4>1. Handlers(n) = {} /\ Rewriters(n) = {} /\ rows[n] = d.row
        BY <2>1, <2>2, <2>6, <3>3
      <4>2. \A k \in Worker : ~AtWork(k, n)'
        BY <2>4, <4>1 DEF Handlers, AtWork
      <4>3. \A v \in Wake : Rewrites(v, n)' => v = w
        BY <2>4, <4>1 DEF Rewrites, Rewriters, Rewriting
      <4>4. Same(wakes'[w].copy, rows'[n]) /\ wakes'[w].stage = "chosen"
        BY <1>1, <2>1, <2>4, <4>1 DEF Same
      <4>5. PICK r \in Row : r = rows[n] /\ Known(r)
        BY <1>0, Fields, Untouched
      <4>6. Lower(r)' = Lower(r)
        BY <2>4, <4>5, LowerKept
      <4>7. PICK m : m = Lower(r)
        OBVIOUS
      <4>8. Lower(rows[n])' = m
        <5>1. PICK q : q = rows'[n]
          OBVIOUS
        <5>2. q = r
          BY <1>1, <4>5, <5>1
        <5>3. Lower(q)' = m
          BY <4>6, <4>7, <5>2
        <5> QED BY <5>1, <5>3 DEF Lower, HardCap, At
      <4>9. progress'[n] # Never => m <= progress'[n]
        BY <1>1, <3>1, <3>3, <4>5, <4>7 DEF FairRow
      <4>10. \A v \in Wake : Spawned(v, n)' => m <= tasks'[v].closed
        BY <1>1, <3>1, <3>2, <3>3, <4>5, <4>7 DEF FairRow
      <4> QED BY <3>3, <4>2, <4>3, <4>4, <4>8, <4>9, <4>10 DEF FairRow
    <3>4. CASE j # n
      <4>1. /\ ~(f.stage \in Rewriting /\ f.target = j)
            /\ Same(rows'[j], rows[j]) /\ progress'[j] = progress[j]
            /\ \A v \in Wake : Spawned(v, j)' => Spawned(v, j) /\ tasks'[v].closed = tasks[v].closed
        BY <1>1, <2>1, <2>2, <3>2, <3>4 DEF Same
      <4> QED BY <1>1, <2>3, <3>1, <4>1, WakeMoveFair
    <3> QED BY <3>3, <3>4
  <2>7. FairInv'
    BY <2>6 DEF FairInv
  <2> QED BY <2>5, <2>7 DEF HeardInv
<1> QED BY <1>2, <1>3, <1>4

LEMMA HeardNext ==
    ASSUME HeardInv, Base', [Next]_vars
    PROVE  HeardInv'
BY HeardElsewhere, HeardCrash, HeardHear, HeardLook, HeardChoose, HeardInspect, HeardCreate, HeardClear,
   HeardAmend, HeardCancelTree, HeardCancelRoot, HeardReplace, HeardHandle, HeardClaim DEF Next, Work, Runtime, Schedule

LEMMA HeardInit == Init => HeardInv
<1> SUFFICES ASSUME Init PROVE HeardInv
  OBVIOUS
<1>1. Base
  BY InitBase
<1>2. \A k \in Worker : worker[k].stage = "idle"
  BY <1>1, IdlingKnown DEF Init
<1>3. /\ rows = << >> /\ DOMAIN rows = {}
      /\ \A w \in Wake : wakes[w].stage = "unheard" /\ wakes[w].listed = {}
  BY DEF Init, Unheard
<1>4. \A j, r : ~Named(j, r)
  BY <1>2, <1>3 DEF Named, Holding, Rewriting
<1> QED BY <1>1, <1>2, <1>3, <1>4 DEF HeardInv, BoundaryInv, OneRow, ClosesInTime, ClosedInTime, FairInv

LEMMA HeardHolds == Spec => []HeardInv
<1>1. HeardInv /\ [Next]_vars => HeardInv'
  BY NextBase, HeardNext DEF HeardInv
<1> QED BY <1>1, HeardInit, PTL DEF Spec

\* The later bound is the earlier one's too.
LEMMA EarlierIsMonotone ==
    ASSUME NEW a \in Int, NEW b \in Int, NEW c \in Int, NEW d \in Int, a <= b, Earlier(b, c) <= d
    PROVE  Earlier(a, c) <= d
BY DEF Earlier

\* What is dispatched was not closed before any wake that the activation had heard
\* up to its latest was given its time, whatever the number of wakes and workers:
\* amendments, replacements, retries and crashes included.
THEOREM LaterWakesAreHeardOut == Spec => []LaterWakeIsHeardOut
<1>1. HeardInv => LaterWakeIsHeardOut
  <2> SUFFICES ASSUME HeardInv, NEW w \in Wake, tasks[w].state # "none", tasks[w].of \notin raced,
                      NEW v \in rows[tasks[w].of].heard, At(v) <= At(rows[tasks[w].of].latest)
               PROVE  tasks[w].closed >= Earlier(At(v) + MinPost, HardCap(rows[tasks[w].of]))
    BY DEF LaterWakeIsHeardOut
  <2>1. PICK j \in DOMAIN rows : j = tasks[w].of
    BY DEF HeardInv, Base, References
  <2>2. FairRow(j) /\ Spawned(w, j)
    BY <2>1 DEF HeardInv, FairInv, Spawned
  <2>3. PICK r \in Row : r = rows[j]
    BY Fields DEF HeardInv, Base
  <2>4. Lower(r) <= tasks[w].closed
    BY <2>2, <2>3 DEF FairRow
  <2>5. v \in Wake /\ r.latest \in Wake /\ r.first \in Wake /\ At(v) <= At(r.latest)
    BY <2>1, <2>3 DEF Row
  <2>6. At(v) \in Int /\ At(r.latest) \in Int /\ At(r.first) \in Int /\ tasks[w].closed \in Int
    BY <2>5, Fields DEF At, HeardInv, Base
  <2>7. MinPost \in Int /\ MaxWindow \in Int
    BY WakeAssumption
  <2>8. HardCap(r) \in Int /\ At(v) + MinPost \in Int /\ At(r.latest) + MinPost \in Int
        /\ At(v) + MinPost <= At(r.latest) + MinPost
    BY <2>5, <2>6, <2>7 DEF HardCap
  <2>9. PICK e \in Int : e = HardCap(r)
    BY <2>8
  <2>10. Earlier(At(r.latest) + MinPost, e) <= tasks[w].closed
    BY <2>4, <2>9 DEF Lower
  <2>11. PICK a \in Int : a = At(v) + MinPost
    BY <2>8
  <2>12. PICK b \in Int : b = At(r.latest) + MinPost
    BY <2>8
  <2>13. Earlier(a, e) <= tasks[w].closed
    BY <2>6, <2>8, <2>10, <2>11, <2>12, EarlierIsMonotone
  <2>14. PICK x : x = Earlier(a, e)
    OBVIOUS
  <2>15. x \in Int
    BY <2>14 DEF Earlier
  <2> QED BY <2>1, <2>3, <2>6, <2>9, <2>11, <2>13, <2>14, <2>15
<1> QED BY <1>1, HeardHolds, PTL

---------------------------------------------------------------------------
(* A window is closed once: a handler that may close one is the only one that *)
(* works on its wake, and nothing brings its row to another handler.          *)

QueuedFor(j, w) == j \in DOMAIN rows /\ rows[j].state = "queued" /\ rows[j].latest = w
WorksFor(k, w) == worker[k].stage \in Active /\ worker[k].copy.latest = w

\* A handler that is about to write the row back as queued.
Requeues(k, w) ==
    worker[k].stage = "finish" /\ worker[k].copy.state = "queued" /\ worker[k].copy.latest = w

Awaited(w) == (\E j \in DOMAIN rows : QueuedFor(j, w)) \/ (\E k \in Worker : Requeues(k, w))

Undivided(w) ==
    /\ \A k, i \in Worker : WorksFor(k, w) /\ WorksFor(i, w) => k = i
    /\ Awaited(w) => \A k \in Worker : ~WorksFor(k, w)
    /\ \A k \in Worker : worker[k].stage = "close" /\ worker[k].copy.latest = w => closings[w] = << >>
    /\ Len(closings[w]) <= 1

OnceInv == HeardInv /\ \A w \in Wake : w \notin crowded => Undivided(w)

\* Nobody begins to work or wait for wake w.
Quiet(w) ==
    /\ Awaited(w)' => Awaited(w)
    /\ \A k \in Worker : WorksFor(k, w)' => WorksFor(k, w)
    /\ \A k \in Worker : worker'[k].stage = "close" /\ worker'[k].copy.latest = w =>
         closings[w] = << >>

LEMMA OnceQuiet ==
    ASSUME NEW w \in Wake, Undivided(w), Quiet(w), closings'[w] = closings[w]
    PROVE  Undivided(w)'
<1>1. \A k, i \in Worker : WorksFor(k, w)' /\ WorksFor(i, w)' => k = i
  BY DEF Quiet, Undivided
<1>2. Awaited(w)' => \A k \in Worker : ~WorksFor(k, w)'
  BY DEF Quiet, Undivided
<1>3. /\ \A k \in Worker : worker'[k].stage = "close" /\ worker'[k].copy.latest = w => closings'[w] = << >>
      /\ Len(closings'[w]) <= 1
  BY DEF Quiet, Undivided
<1> QED BY <1>1, <1>2, <1>3 DEF Undivided

\* Nobody is at work on wake w any more, or was before.
LEMMA OnceNobody ==
    ASSUME NEW w \in Wake, Undivided(w), \A k \in Worker : ~WorksFor(k, w)', closings'[w] = closings[w]
    PROVE  Undivided(w)'
<1>1. \A k \in Worker : ~(worker'[k].stage = "close" /\ worker'[k].copy.latest = w)
  BY DEF WorksFor, Active
<1>2. Len(closings'[w]) <= 1
  BY DEF Undivided
<1> QED BY <1>1, <1>2 DEF Undivided

\* A row is written for a wake that is nobody's yet.
LEMMA OnceFresh ==
    ASSUME Base, NEW v \in Wake, ~Placed(v), UNCHANGED << closings, worker >>,
           NEW n \in DOMAIN rows', rows'[n].latest = v,
           \A j \in DOMAIN rows' : j # n => j \in DOMAIN rows /\ rows'[j] = rows[j],
           NEW w \in Wake, Undivided(w)
    PROVE  Undivided(w)'
<1>1. CASE w = v
  <2>1. \A k \in Worker : ~WorksFor(k, w)'
    BY <1>1, NobodysYet DEF WorksFor, Active
  <2> QED BY <2>1, OnceNobody
<1>2. CASE w # v
  <2>1. ASSUME Awaited(w)' PROVE Awaited(w)
    <3>1. CASE \E j \in DOMAIN rows' : QueuedFor(j, w)'
      BY <1>2, <3>1 DEF QueuedFor, Awaited
    <3>2. CASE \E k \in Worker : Requeues(k, w)'
      BY <3>2 DEF Requeues, Awaited
    <3> QED BY <2>1, <3>1, <3>2 DEF Awaited
  <2>2. Quiet(w)
    BY <2>1 DEF Quiet, WorksFor, Undivided
  <2> QED BY <2>2, OnceQuiet
<1> QED BY <1>1, <1>2

LEMMA OnceInsert ==
    ASSUME Base, NEW v \in Wake, ~Placed(v), NEW r \in Row, r.latest = v, Insert(r),
           UNCHANGED << closings, worker >>, NEW w \in Wake, Undivided(w)
    PROVE  Undivided(w)'
<1>1. PICK n : n = Len(rows')
  OBVIOUS
<1>2. rows'[n] = r /\ DOMAIN rows' = DOMAIN rows \cup { n } /\ \A i \in DOMAIN rows : rows'[i] = rows[i]
  BY <1>1, RowInserted DEF Base
<1>3. n \in DOMAIN rows' /\ rows'[n].latest = v
      /\ \A j \in DOMAIN rows' : j # n => j \in DOMAIN rows /\ rows'[j] = rows[j]
  BY <1>2
<1> QED BY <1>3, OnceFresh

\* A row that is not for w, or was queued already, is written.
LEMMA OnceWritten ==
    ASSUME Base, NEW w \in Wake, Undivided(w), NEW j \in DOMAIN rows, NEW r \in Row,
           rows' = [ rows EXCEPT ![j] = r ], r.state = "queued" /\ r.latest = w => Awaited(w),
           closings'[w] = closings[w],
           \A k \in Worker : worker'[k] = worker[k] \/ worker'[k].stage \in { "idle", "leave" }
    PROVE  Undivided(w)'
<1>1. DOMAIN rows' = DOMAIN rows /\ rows'[j] = r /\ \A i \in DOMAIN rows : i # j => rows'[i] = rows[i]
  BY RowWritten DEF Base
<1>2. \A i \in DOMAIN rows' : QueuedFor(i, w)' => Awaited(w)
  BY <1>1 DEF QueuedFor, Awaited
<1>3. \A k \in Worker : Requeues(k, w)' => Awaited(w)
  BY DEF Requeues, Awaited
<1>4. \A k \in Worker : WorksFor(k, w)' => WorksFor(k, w)
  BY DEF WorksFor, Active
<1>5. \A k \in Worker : worker'[k].stage = "close" /\ worker'[k].copy.latest = w => closings[w] = << >>
  BY DEF Undivided
<1>6. Quiet(w)
  BY <1>2, <1>3, <1>4, <1>5 DEF Quiet, Awaited
<1> QED BY <1>6, OnceQuiet

LEMMA OnceSchedule ==
    ASSUME Base, NEW v \in Wake, Schedule(v), NEW w \in Wake, Undivided(w)
    PROVE  Undivided(w)'
<1>0. TypeOK
  BY DEF Base
<1>1. CASE Look(v) \/ Choose(v) \/ Inspect(v) \/ Clear(v) \/ CancelTree(v)
  <2>1. ASSUME Choose(v) PROVE UNCHANGED << rows, closings, worker >>
    BY <2>1, Zenon DEF Choose
  <2>2. ASSUME CancelTree(v) PROVE UNCHANGED << rows, closings, worker >>
    BY <2>2 DEF CancelTree
  <2>3. UNCHANGED << rows, closings, worker >>
    BY <1>1, <2>1, <2>2 DEF Look, Inspect, Clear
  <2>4. Quiet(w)
    BY <2>3 DEF Quiet, Awaited, QueuedFor, Requeues, WorksFor, Undivided
  <2> QED BY <2>3, <2>4, OnceQuiet
<1>2. CASE Create(v)
  <2> DEFINE n == [ NoRow EXCEPT !.first = v, !.latest = v, !.heard = { v } ]
  <2>1. n \in Row /\ n.first = v /\ n.latest = v
    BY NoRowType DEF Row
  <2> HIDE DEF n
  <2>2. Queued(n, v) \in Row /\ Queued(n, v).latest = v
    BY <1>0, <2>1, RowOfWake
  <2>3. PICK r : r = Queued(n, v)
    OBVIOUS
  <2>4. Insert(r) /\ ~Placed(v) /\ UNCHANGED << closings, worker >>
    BY <1>2, <2>3 DEF Create, n, Placed
  <2> QED BY <2>2, <2>3, <2>4, OnceInsert
<1>3. ASSUME NEW r, r = Queued(Amended(wakes[v].copy, v), v) PROVE r \in Row /\ r.latest = v
  <2>1. PICK c \in Row : c = wakes[v].copy
    BY <1>0, Fields
  <2> QED BY <1>0, <1>3, <2>1, RowOfWake
<1>4. PICK a : a = Queued(Amended(wakes[v].copy, v), v)
  OBVIOUS
<1>5. CASE Replace(v)
  <2>1. Insert(a) /\ ~Placed(v) /\ UNCHANGED << closings, worker >>
    BY <1>4, <1>5 DEF Replace, Placed
  <2> QED BY <1>3, <1>4, <2>1, OnceInsert
<1>6. CASE Amend(v)
  <2>1. PICK j \in DOMAIN rows : j = wakes[v].target
    BY <1>6, HeldCopy DEF Amend, Holding, Rewriting
  <2>2. rows' = [ rows EXCEPT ![j] = a ] /\ ~Placed(v) /\ UNCHANGED << closings, worker >>
    BY <1>4, <1>6, <2>1 DEF Amend, Placed
  <2>3. DOMAIN rows' = DOMAIN rows /\ rows'[j] = a /\ \A i \in DOMAIN rows : i # j => rows'[i] = rows[i]
    BY <1>0, <1>3, <1>4, <2>2, RowWritten
  <2> QED BY <1>3, <1>4, <2>2, <2>3, OnceFresh
<1>7. CASE CancelRoot(v)
  <2>1. PICK c \in Row : c = wakes[v].copy
    BY <1>0, Fields
  <2>2. PICK r : r = [ c EXCEPT !.state = IF @ = "running" THEN "cancel_requested" ELSE "settled" ]
    OBVIOUS
  <2>3. r \in Row /\ r.state # "queued"
    BY <2>1, <2>2 DEF Row
  <2>4. PICK j \in DOMAIN rows : j = wakes[v].target
    BY <1>7, HeldCopy DEF CancelRoot, Holding, Rewriting
  <2>5. rows' = [ rows EXCEPT ![j] = r ] /\ UNCHANGED << closings, worker >>
    BY <1>7, <2>1, <2>2, <2>4 DEF CancelRoot
  <2> QED BY <2>3, <2>5, OnceWritten
<1> QED BY <1>1, <1>2, <1>5, <1>6, <1>7 DEF Schedule

\* Worker k goes on, and what it works for stays.
LEMMA OnceMoves ==
    ASSUME NEW w \in Wake, Undivided(w), NEW k \in Worker, worker[k].stage \in Active,
           worker'[k].copy = worker[k].copy,
           worker'[k].stage # "finish",
           worker'[k].stage = "close" => closings[worker[k].copy.latest] = << >>,
           \A i \in Worker : i # k => worker'[i] = worker[i],
           UNCHANGED << rows, closings >>
    PROVE  Undivided(w)'
<1>1. \A i \in Worker : WorksFor(i, w)' => WorksFor(i, w)
  BY DEF WorksFor
<1>2. \A i \in Worker : Requeues(i, w)' => Requeues(i, w)
  BY DEF Requeues
<1>3. \A i \in Worker : worker'[i].stage = "close" /\ worker'[i].copy.latest = w => closings[w] = << >>
  BY DEF Undivided
<1>4. Quiet(w)
  BY <1>1, <1>2, <1>3 DEF Quiet, Awaited, QueuedFor
<1> QED BY <1>4, OnceQuiet

\* A move of an active handler.
LEMMA MoveOnce ==
    ASSUME Base, NEW w \in Wake, Undivided(w), NEW k \in Worker, worker[k].stage \in Active,
           NEW st \in Stages \ { "idle", "start", "finish" }, NEW c \in Moment, c <= now,
           st \in Bounded => c # Never,
           NEW P \in SUBSET Notes, Moves(k, st, c, P),
           st = "close" => closings[worker[k].copy.latest] = << >>,
           UNCHANGED << rows, closings >>
    PROVE  Undivided(w)'
<1>1. worker[k].stage # "idle" /\ st \in Stages \ { "idle" }
  BY DEF Active
<1>2. worker'[k].stage = st /\ worker'[k].copy = worker[k].copy
      /\ \A i \in Worker : i # k => worker'[i] = worker[i]
  BY <1>1, HandlerMoves
<1> QED BY <1>2, OnceMoves

LEMMA OnceOpen ==
    ASSUME Base, NEW w \in Wake, Undivided(w), NEW k \in Worker,
           Resume(k) \/ Rediscover(k) \/ EndWindow(k) \/ Record(k) \/ NoRequest(k)
    PROVE  Undivided(w)'
<1>1. PICK P \in SUBSET Notes : P = worker[k].pending
  BY Untouched DEF Handler, Notes
<1>2. { "live", "record", "close", "leave" } \subseteq Stages \ { "idle", "start", "finish" }
      /\ "start" \in Active /\ "record" \in Bounded /\ "dispatch" \in Bounded
      /\ Bounded \subseteq Active /\ "idle" \notin Bounded
  BY DEF Stages, Active, Bounded
<1>3. CASE Resume(k)
  <2>1. worker[k].stage = "start" /\ worker[k].job \in DOMAIN rows
    BY <1>3, MineKnown DEF Resume
  <2>2. PICK c \in Moment : c = progress[worker[k].job] /\ c <= now /\ c # Never
    BY <1>3, <2>1, Untouched, Fields DEF Resume, Base
  <2>3. Moves(k, "live", c, P) /\ UNCHANGED << rows, closings >>
    BY <1>1, <1>3, <2>2 DEF Resume, Moves, unchangedByReading
  <2> QED BY <1>2, <2>1, <2>2, <2>3, MoveOnce
<1>4. CASE Rediscover(k)
  <2>1. PICK c \in Time : c <= now /\ Settling(k, "record", c)
    BY <1>4, RediscoverFinds
  <2>2. c \in Moment /\ c # Never
    BY TimeIsNat DEF Moment
  <2>3. Moves(k, "record", c, P) /\ UNCHANGED << rows, closings >> /\ worker[k].stage = "start"
    BY <1>1, <1>4, <2>1 DEF Rediscover, Started, Moves, unchangedByReading
  <2> QED BY <1>2, <2>1, <2>2, <2>3, MoveOnce
<1>5. CASE EndWindow(k)
  <2>1. PICK c \in Time : c <= now /\ Settling(k, "close", c)
    BY <1>5, BoundaryIsPast
  <2>2. c \in Moment /\ c # Never
    BY TimeIsNat DEF Moment
  <2>3. Moves(k, "close", c, P) /\ UNCHANGED << rows, closings >> /\ worker[k].stage = "start"
        /\ closings[worker[k].copy.latest] = << >>
    BY <1>1, <1>5, <2>1 DEF EndWindow, Started, Unclosed, Mine, Moves, unchangedByReading
  <2> QED BY <1>2, <2>1, <2>2, <2>3, MoveOnce
<1>6. ASSUME NEW st \in { "live", "leave" }, Goto(k, st), worker[k].stage \in Bounded,
             UNCHANGED << rows, closings >>
      PROVE  Undivided(w)'
  <2>1. worker[k].stage # "idle" /\ worker[k].stage \in Active
    BY <1>2, <1>6
  <2>2. PICK c \in Moment, Q \in SUBSET Notes : Moves(k, st, c, Q) /\ c <= now /\ c # Never
    BY <1>6, <2>1, GotoMoves
  <2> QED BY <1>2, <1>6, <2>1, <2>2, MoveOnce
<1>7. CASE Record(k)
  BY <1>2, <1>6, <1>7 DEF Record, unchangedByReading
<1>8. CASE NoRequest(k)
  BY <1>2, <1>6, <1>8 DEF NoRequest, Leave, unchangedByReading
<1> QED BY <1>3, <1>4, <1>5, <1>7, <1>8

LEMMA OnceClose ==
    ASSUME Base, NEW w \in Wake, Undivided(w), NEW k \in Worker, Close(k)
    PROVE  Undivided(w)'
<1>0. worker[k].stage = "close" /\ Goto(k, "record") /\ rows' = rows
  BY DEF Close, unchangedByReading
<1>1. PICK c \in Moment, P \in SUBSET Notes : Moves(k, "record", c, P) /\ c <= now /\ c # Never
  BY <1>0, GotoMoves DEF Bounded, Active
<1>2. "record" \in Stages \ { "idle" } /\ worker[k].stage # "idle" /\ "close" \in Active
  BY <1>0 DEF Stages, Active
<1>3. worker'[k].stage = "record" /\ worker'[k].copy = worker[k].copy
      /\ \A i \in Worker : i # k => worker'[i] = worker[i]
  BY <1>0, <1>1, <1>2, HandlerMoves
<1>4. PICK v \in Wake : v = Mine(k).latest
  BY <1>0, <1>2, MineKnown
<1>5. closings[v] = << >> => Len(closings'[v]) = 1
  BY <1>0, <1>4, ClosingAppended
<1>6. \A u \in Wake : u # v => closings'[u] = closings[u]
  BY <1>0, <1>4, ClosingAppended
<1>7. \A i \in Worker : WorksFor(i, w)' => WorksFor(i, w)
  BY <1>0, <1>2, <1>3 DEF WorksFor
<1>8. Awaited(w)' => Awaited(w)
  BY <1>0, <1>3 DEF Awaited, QueuedFor, Requeues
<1>9. CASE w = v
  <2>1. WorksFor(k, w)
    BY <1>0, <1>2, <1>4, <1>9 DEF WorksFor, Mine
  <2>2. closings[w] = << >>
    BY <1>0, <1>4, <1>9 DEF Undivided, Mine
  <2>3. Len(closings'[w]) = 1
    BY <1>5, <1>9, <2>2
  <2>4. Len(closings'[w]) <= 1
    <3>1. PICK n : n = Len(closings'[w])
      OBVIOUS
    <3>2. n <= 1
      BY <2>3, <3>1
    <3> QED BY <3>1, <3>2, Zenon
  <2>5. \A i \in Worker : ~(worker'[i].stage = "close" /\ worker'[i].copy.latest = w)
    <3> SUFFICES ASSUME NEW i \in Worker, worker'[i].stage = "close", worker'[i].copy.latest = w
                 PROVE  FALSE
      OBVIOUS
    <3>1. i # k /\ worker'[i] = worker[i]
      BY <1>3
    <3>2. WorksFor(i, w)
      BY <1>2, <3>1 DEF WorksFor
    <3> QED BY <2>1, <3>1, <3>2 DEF Undivided
  <2>6. /\ \A i, n \in Worker : WorksFor(i, w)' /\ WorksFor(n, w)' => i = n
        /\ Awaited(w)' => \A i \in Worker : ~WorksFor(i, w)'
    BY <1>7, <1>8 DEF Undivided
  <2> QED BY <2>4, <2>5, <2>6 DEF Undivided
<1>10. CASE w # v
  <2>1. \A i \in Worker : worker'[i].stage = "close" /\ worker'[i].copy.latest = w => closings[w] = << >>
    BY <1>3 DEF Undivided
  <2>2. Quiet(w)
    BY <1>7, <1>8, <2>1 DEF Quiet
  <2> QED BY <1>6, <1>10, <2>2, OnceQuiet
<1> QED BY <1>9, <1>10

LEMMA OnceRead ==
    ASSUME Base, NEW w \in Wake, Undivided(w), NEW k \in Worker, ReadLive(k) \/ ReadSlots(k) \/ ReadJobs(k)
    PROVE  Undivided(w)'
<1>1. worker[k].stage \in { "live", "slots", "jobs" } /\ UNCHANGED << rows, closings >>
  BY DEF ReadLive, ReadSlots, ReadJobs, unchangedByReading
<1>2. \E st \in { "slots", "jobs", "fail", "dispatch" } : \E found : See(k, st, found)
  BY DEF ReadLive, ReadSlots, ReadJobs
<1>3. PICK st \in { "slots", "jobs", "fail", "dispatch" } : \E found : See(k, st, found)
  BY <1>2
<1>4. PICK found : See(k, st, found)
  BY <1>3
<1>5. worker'[k].copy = worker[k].copy /\ worker'[k].stage = st
      /\ \A i \in Worker : i # k => worker'[i] = worker[i]
  <2>1. PICK g \in Handler({ 0 } \cup DOMAIN rows) : g = worker[k]
    BY Untouched
  <2>2. PICK Q : Q = g.pending \cup found
    OBVIOUS
  <2>3. PICK h : h = [ g EXCEPT !.stage = st, !.pending = Q ]
    OBVIOUS
  <2>4. worker' = [ worker EXCEPT ![k] = h ]
    BY <1>4, <2>1, <2>2, <2>3, Untouched DEF See
  <2>5. h.copy = g.copy /\ h.stage = st
    BY <2>3 DEF Handler
  <2> QED BY <2>1, <2>4, <2>5, Untouched
<1>6. worker[k].stage \in Active /\ worker'[k].stage # "finish" /\ worker'[k].stage # "close"
  BY <1>1, <1>5 DEF Active
<1> QED BY <1>1, <1>5, <1>6, OnceMoves

\* A handler writes its copy back and leaves.
LEMMA OnceLeaves ==
    ASSUME Base, NEW w \in Wake, Undivided(w), NEW k \in Worker,
           WaitForDue(k) \/ WaitForSpeaker(k) \/ WaitForTranscription(k) \/ Dispatch(k)
    PROVE  Undivided(w)'
<1>1. worker[k].stage \in Active /\ worker[k].stage # "idle" /\ Leave(k) /\ closings' = closings
  BY WaitShape, DispatchShape DEF Active
<1>2. PICK r \in Row : rows' = [ rows EXCEPT ![worker[k].job] = r ] /\ r.latest = Mine(k).latest
  BY WaitShape, DispatchShape
<1>3. worker'[k].stage = "leave" /\ "leave" \notin Active
      /\ \A i \in Worker : i # k => worker'[i] = worker[i]
  BY <1>1, LeaveShape
<1>4. CASE w = Mine(k).latest
  <2>1. WorksFor(k, w)
    BY <1>1, <1>4 DEF WorksFor, Mine
  <2>2. \A i \in Worker : ~WorksFor(i, w)'
    BY <1>3, <2>1 DEF Undivided, WorksFor
  <2> QED BY <1>1, <2>2, OnceNobody
<1>5. CASE w # Mine(k).latest
  <2>1. PICK j \in DOMAIN rows : j = worker[k].job
    BY <1>1, MineKnown
  <2>2. \A i \in Worker : worker'[i] = worker[i] \/ worker'[i].stage \in { "idle", "leave" }
    BY <1>3
  <2> QED BY <1>1, <1>2, <1>5, <2>1, <2>2, OnceWritten
<1> QED BY <1>4, <1>5

\* complete_dispatched_job reads the row: what it writes back as queued, is queued.
LEMMA OnceReread ==
    ASSUME Base, NEW w \in Wake, Undivided(w), NEW k \in Worker, Reread(k)
    PROVE  Undivided(w)'
<1>1. UNCHANGED << rows, closings >> /\ worker[k].job \in DOMAIN rows
  BY RereadShape
<1>2. PICK h \in Handler({ 0 } \cup DOMAIN rows) :
        /\ worker' = [ worker EXCEPT ![k] = h ] /\ h.stage = "finish"
        /\ h.copy.latest = rows[worker[k].job].latest
        /\ h.copy.state = "queued" => rows[worker[k].job].state = "queued"
  BY RereadShape
<1>3. worker'[k] = h /\ \A i \in Worker : i # k => worker'[i] = worker[i]
  BY <1>2, Untouched
<1>4. \A i \in Worker : Requeues(i, w)' => Awaited(w)
  BY <1>1, <1>2, <1>3 DEF Requeues, Awaited, QueuedFor
<1>5. \A i \in Worker : WorksFor(i, w)' => WorksFor(i, w)
  BY <1>2, <1>3 DEF WorksFor, Active
<1>6. \A i \in Worker : worker'[i].stage = "close" /\ worker'[i].copy.latest = w => closings[w] = << >>
  BY <1>2, <1>3 DEF Undivided
<1>7. Quiet(w)
  BY <1>1, <1>4, <1>5, <1>6 DEF Quiet, Awaited, QueuedFor
<1> QED BY <1>1, <1>7, OnceQuiet

\* It writes what it read.
LEMMA OnceFinish ==
    ASSUME Base, NEW w \in Wake, Undivided(w), NEW k \in Worker, Finish(k)
    PROVE  Undivided(w)'
<1>1. worker[k].stage = "finish" /\ closings' = closings
  BY DEF Finish
<1>2. PICK r \in Row : r = Mine(k)
  BY <1>1, MineKnown
<1>3. PICK j \in DOMAIN rows : j = worker[k].job
  BY <1>1, MineKnown
<1>4. rows' = [ rows EXCEPT ![j] = r ]
  BY <1>2, <1>3 DEF Finish
<1>5. worker'[k].stage = "idle" /\ \A i \in Worker : i # k => worker'[i] = worker[i]
  BY IdlingKnown, Untouched DEF Finish
<1>6. r.state = "queued" /\ r.latest = w => Awaited(w)
  BY <1>1, <1>2 DEF Awaited, Requeues, Mine
<1>7. \A i \in Worker : worker'[i] = worker[i] \/ worker'[i].stage \in { "idle", "leave" }
  BY <1>5
<1> QED BY <1>1, <1>4, <1>6, <1>7, OnceWritten

\* The row that is claimed leaves the queue, nobody else is at work on its wake, and
\* nobody requeues it unless the wake is crowded.
LEMMA OnceClaim ==
    ASSUME HeardInv, NEW w \in Wake, w \notin crowded', Undivided(w),
           NEW k \in Worker, NEW j \in DOMAIN rows, Claim(k, j)
    PROVE  Undivided(w)'
<1>0. Base /\ closings' = closings /\ worker[k].stage = "idle" /\ rows[j].state = "queued"
  BY DEF HeardInv, Claim
<1>1. PICK r, h : Claims(k, j, r, h)
  BY <1>0, ClaimShape
<1>2. /\ DOMAIN rows' = DOMAIN rows
      /\ rows'[j] = r /\ \A i \in DOMAIN rows : i # j => rows'[i] = rows[i]
  BY <1>0, <1>1, RowWritten DEF Base, Claims
<1>3. worker'[k] = h /\ \A i \in Worker : i # k => worker'[i] = worker[i]
  BY <1>0, <1>1, Untouched DEF Claims
<1>4. CASE w = rows[j].latest
  <2>1. Awaited(w)
    BY <1>0, <1>4 DEF Awaited, QueuedFor
  <2>2. \A i \in Worker : WorksFor(i, w)' => i = k
    BY <1>3, <2>1 DEF Undivided, WorksFor
  <2>3. \A i \in DOMAIN rows' : ~QueuedFor(i, w)'
    <3> SUFFICES ASSUME NEW i \in DOMAIN rows, QueuedFor(i, w)' PROVE FALSE
      BY <1>2
    <3>1. i # j
      BY <1>1, <1>2 DEF QueuedFor, Claims
    <3>2. rows[i].latest = rows[j].latest /\ Named(i, rows[i]) /\ Named(j, rows[j])
      BY <1>2, <1>4, <3>1 DEF QueuedFor, Named
    <3> QED BY <3>1, <3>2 DEF HeardInv, BoundaryInv, OneRow
  <2>4. \A i \in Worker : ~Requeues(i, w)'
    <3> SUFFICES ASSUME NEW i \in Worker, Requeues(i, w)' PROVE FALSE
      OBVIOUS
    <3>1. i # k
      BY <1>1, <1>3 DEF Requeues, Claims
    <3>2. worker[i].stage = "finish" /\ worker[i].copy.latest = w
      BY <1>3, <3>1 DEF Requeues
    <3>3. Named(worker[i].job, worker[i].copy) /\ Named(j, rows[j])
      BY <3>2 DEF Named
    <3>4. worker[i].job = j
      BY <1>4, <3>2, <3>3 DEF HeardInv, BoundaryInv, OneRow
    <3>5. i \in Handlers(j)
      BY <3>2, <3>4 DEF Handlers
    <3>6. crowded' = crowded \cup { w }
      BY <1>4, <3>2, <3>5 DEF Claim
    <3> QED BY <3>6
  <2>5. ~Awaited(w)'
    BY <2>3, <2>4 DEF Awaited
  <2>6. \A i \in Worker : ~(worker'[i].stage = "close" /\ worker'[i].copy.latest = w)
    BY <1>1, <1>3, <2>2 DEF WorksFor, Active, Claims
  <2>7. Len(closings'[w]) <= 1
    BY <1>0 DEF Undivided
  <2> QED BY <2>2, <2>5, <2>6, <2>7 DEF Undivided
<1>5. CASE w # rows[j].latest
  <2>1. \A i \in DOMAIN rows' : QueuedFor(i, w)' => QueuedFor(i, w)
    BY <1>1, <1>2, <1>5 DEF QueuedFor, Claims
  <2>2. \A i \in Worker : /\ Requeues(i, w)' => Requeues(i, w)
                          /\ WorksFor(i, w)' => WorksFor(i, w)
    BY <1>1, <1>3, <1>5 DEF Requeues, WorksFor, Claims
  <2>3. \A i \in Worker : worker'[i].stage = "close" /\ worker'[i].copy.latest = w => closings[w] = << >>
    BY <1>1, <1>3 DEF Undivided, Claims
  <2>4. Quiet(w)
    BY <1>2, <2>1, <2>2, <2>3 DEF Quiet, Awaited
  <2> QED BY <1>0, <2>4, OnceQuiet
<1> QED BY <1>4, <1>5

LEMMA OnceSettles ==
    ASSUME Base, NEW w \in Wake, Undivided(w), NEW j \in DOMAIN rows, ResolveWaiting(j) \/ Sweep(j)
    PROVE  Undivided(w)'
<1>1. PICK r \in Row : rows' = [ rows EXCEPT ![j] = r ] /\ r.state = "settled"
  BY SettleShape
<1>2. UNCHANGED << closings, worker >>
  BY SettleShape
<1> QED BY <1>1, <1>2, OnceWritten

LEMMA OnceNext ==
    ASSUME HeardInv, [Next]_vars, NEW w \in Wake, w \notin crowded', Undivided(w)
    PROVE  Undivided(w)'
<1>0. Base
  BY DEF HeardInv
<1>1. ASSUME UNCHANGED << rows, closings, worker >> PROVE Undivided(w)'
  <2>1. Quiet(w)
    BY <1>1 DEF Quiet, Awaited, QueuedFor, Requeues, WorksFor, Undivided
  <2> QED BY <1>1, <2>1, OnceQuiet
<1>2. CASE Tick \/ UNCHANGED vars \/ (\E v \in Wake : Hear(v) \/ TaskSettles(v))
  BY <1>1, <1>2 DEF Tick, vars, Hear, TaskSettles
<1>3. CASE \E s \in Segment : Speak(s) \/ Talk(s) \/ Hearing(s)
  BY <1>1, <1>3 DEF Speak, Talk, Hearing, Flush, Validate, Transcribe, DropOrphan, unchangedByAudio
<1>4. CASE Crash
  <2>1. closings' = closings /\ \A k \in Worker : worker'[k].stage = "idle"
    BY <1>0, <1>4, IdlingKnown, Zenon DEF Crash
  <2>2. \A k \in Worker : ~WorksFor(k, w)'
    BY <2>1 DEF WorksFor, Active
  <2> QED BY <2>1, <2>2, OnceNobody
<1>5. CASE \E v \in Wake : Schedule(v)
  BY <1>0, <1>5, OnceSchedule
<1>6. CASE \E k \in Worker : Handle(k)
  BY <1>0, <1>6, OnceOpen, OnceClose, OnceRead, OnceLeaves, OnceReread, OnceFinish DEF Handle, Open
<1>7. CASE \E j \in DOMAIN rows : Runtime(j)
  BY <1>0, <1>7, OnceSettles, OnceClaim DEF Runtime
<1> QED BY <1>2, <1>3, <1>4, <1>5, <1>6, <1>7 DEF Next, Work

\* A wake that is crowded stays so.
LEMMA CrowdedGrows ==
    ASSUME [Next]_vars
    PROVE  crowded \subseteq crowded'
<1>1. ASSUME NEW w \in Wake, Schedule(w) PROVE crowded' = crowded
  <2>1. ASSUME Choose(w) PROVE crowded' = crowded
    BY <2>1, Zenon DEF Choose
  <2>2. ASSUME CancelTree(w) PROVE crowded' = crowded
    BY <2>2 DEF CancelTree
  <2> QED BY <1>1, <2>1, <2>2 DEF Schedule, Look, Inspect, Create, Clear, Amend, CancelRoot, Replace
<1>2. ASSUME NEW k \in Worker, Handle(k) PROVE crowded' = crowded
  <2>1. ASSUME Open(k) PROVE crowded' = crowded
    BY <2>1 DEF Open, Resume, Rediscover, WaitForDue, WaitForSpeaker, EndWindow, Close, Record, Defer,
                unchangedByReading
  <2>2. ASSUME Reread(k) PROVE crowded' = crowded
    BY <2>2 DEF Reread, unchangedByReading
  <2> QED BY <1>2, <2>1, <2>2 DEF Handle, ReadLive, ReadSlots, ReadJobs, WaitForTranscription, Defer,
                                  Dispatch, NoRequest, Finish, unchangedByReading
<1>3. ASSUME NEW j \in DOMAIN rows, Runtime(j) PROVE crowded \subseteq crowded'
  BY <1>3 DEF Runtime, ResolveWaiting, Sweep, Claim
<1>4. CASE \E s \in Segment : Speak(s) \/ Talk(s) \/ Hearing(s)
  BY <1>4 DEF Speak, Talk, Hearing, Flush, Validate, Transcribe, DropOrphan, unchangedByAudio
<1>5. ASSUME Crash PROVE crowded' = crowded
  BY <1>5, Zenon DEF Crash
<1>6. CASE Tick \/ UNCHANGED vars \/ (\E w \in Wake : Hear(w) \/ TaskSettles(w))
  BY <1>6 DEF Tick, vars, Hear, TaskSettles
<1> QED BY <1>1, <1>2, <1>3, <1>4, <1>5, <1>6 DEF Next, Work

LEMMA OnceInit == Init => OnceInv
<1> SUFFICES ASSUME Init PROVE OnceInv
  OBVIOUS
<1>1. HeardInv /\ Base
  BY InitBase, HeardInit
<1>2. \A k \in Worker : worker[k].stage = "idle"
  BY <1>1, IdlingKnown DEF Init
<1>3. \A w \in Wake : closings[w] = << >> /\ Len(closings[w]) = 0
  BY DEF Init
<1>4. \A w \in Wake : Len(closings[w]) <= 1 /\ \A k \in Worker : ~WorksFor(k, w)
  BY <1>2, <1>3 DEF WorksFor, Active
<1> QED BY <1>1, <1>2, <1>4 DEF OnceInv, Undivided

LEMMA OnceHolds == Spec => []OnceInv
<1>1. OnceInv /\ [Next]_vars => OnceInv'
  <2> SUFFICES ASSUME OnceInv, [Next]_vars PROVE OnceInv'
    OBVIOUS
  <2>1. HeardInv'
    BY NextBase, HeardNext DEF OnceInv, HeardInv
  <2>2. \A w \in Wake : w \notin crowded' => Undivided(w)'
    BY CrowdedGrows, OnceNext DEF OnceInv
  <2> QED BY <2>1, <2>2 DEF OnceInv
<1> QED BY <1>1, OnceInit, PTL DEF Spec

\* No window is closed twice, whatever the number of wakes and workers and however
\* often handlers are retried, rows are rewritten under them, or the process stops:
\* but for a wake whose row was claimed between the read and the write of
\* complete_dispatched_job for a handler that had deferred it.
THEOREM WindowsCloseOnce == Spec => []ClosedOnce
<1>1. OnceInv => ClosedOnce
  BY DEF OnceInv, Undivided, ClosedOnce
<1> QED BY <1>1, OnceHolds, PTL

---------------------------------------------------------------------------
(* Nothing of the request is left on its way when its task is dispatched. *)

\* What the scheduling of a wake leaves alone.
LEMMA ScheduleAlone ==
    ASSUME NEW w \in Wake, Schedule(w)
    PROVE  UNCHANGED << speech, worker, slipped >> /\ (CancelTree(w) \/ UNCHANGED tasks)
<1>1. CASE Choose(w)
  BY <1>1, Zenon DEF Choose
<1>2. CASE CancelTree(w)
  BY <1>2, Zenon DEF CancelTree
<1>3. CASE ~Choose(w) /\ ~CancelTree(w)
  BY <1>3 DEF Schedule, Look, Inspect, Create, Clear, Amend, CancelRoot, Replace
<1> QED BY <1>1, <1>2, <1>3

\* A wake that is scheduled keeps its time, whatever happens.
LEMMA AtStays ==
    ASSUME Base, [Next]_vars
    PROVE  AtKept
<1>0. wakes \in [ Wake -> Schedules({ 0 } \cup DOMAIN rows) ]
  BY DEF Base, TypeOK
<1>1. ASSUME NEW w \in Wake, wakes[w].stage # "done", \A v \in Wake : v # w => wakes'[v] = wakes[v]
      PROVE  AtKept
  BY <1>1 DEF AtKept, Placed
<1>2. ASSUME UNCHANGED wakes PROVE AtKept
  BY <1>2 DEF AtKept, Placed
<1>3. ASSUME NEW w \in Wake, Hear(w) \/ Schedule(w) PROVE AtKept
  <2>1. CASE Choose(w)
    <3>1. wakes[w].stage # "done"
      BY <2>1, Zenon DEF Choose
    <3>2. \A v \in Wake : v # w => wakes'[v] = wakes[v]
      BY <1>0, <2>1, ChooseShape
    <3> QED BY <1>1, <3>1, <3>2
  <2>2. CASE CancelTree(w)
    <3>1. wakes[w].stage # "done"
      BY <2>2, Zenon DEF CancelTree
    <3>2. wakes' = [ wakes EXCEPT ![w].stage = "root" ]
      BY <2>2, Zenon DEF CancelTree
    <3> QED BY <1>0, <1>1, <3>1, <3>2
  <2>3. CASE ~Choose(w) /\ ~CancelTree(w)
    <3>1. wakes[w].stage # "done"
      BY <1>3, <2>3 DEF Hear, Schedule, Look, Inspect, Create, Clear, Amend, CancelRoot, Replace
    <3>2. \A v \in Wake : v # w => wakes'[v] = wakes[v]
      BY <1>0, <1>3, <2>3 DEF Hear, Schedule, Look, Inspect, Create, Clear, Amend, CancelRoot, Replace, Scheduled
    <3> QED BY <1>1, <3>1, <3>2
  <2> QED BY <2>1, <2>2, <2>3
<1>4. CASE Crash
  BY <1>4, CrashWakes DEF AtKept, Placed
<1>5. ASSUME NEW k \in Worker, Handle(k) PROVE AtKept
  <2>1. ASSUME Reread(k) PROVE UNCHANGED wakes
    BY <1>0, <2>1, Zenon DEF Reread, unchangedByReading
  <2>2. CASE ~Reread(k)
    BY <1>2, <1>5, <2>2 DEF Handle, Open, Resume, Rediscover, WaitForDue, WaitForSpeaker, EndWindow, Close, Record,
       ReadLive, ReadSlots, WaitForTranscription, ReadJobs, Dispatch, NoRequest, Finish, Defer, unchangedByReading
  <2> QED BY <1>2, <2>1, <2>2
<1>6. ASSUME NEW j \in DOMAIN rows, Runtime(j) PROVE AtKept
  BY <1>2, <1>6 DEF Runtime, ResolveWaiting, Sweep, Claim
<1>7. ASSUME NEW s \in Segment, Speak(s) \/ Talk(s) \/ Hearing(s) PROVE AtKept
  BY <1>2, <1>7 DEF Speak, Talk, Hearing, Flush, Validate, Transcribe, DropOrphan, unchangedByAudio
<1>8. CASE Tick \/ UNCHANGED vars \/ \E w \in Wake : TaskSettles(w)
  BY <1>2, <1>8 DEF Tick, vars, TaskSettles
<1> QED BY <1>3, <1>4, <1>5, <1>6, <1>7, <1>8 DEF Next, Work

Reading == { "slots", "jobs", "dispatch" }
Settled == { "silent", "published", "blank", "dropped" }

\* The speaker of activation c said some of stretch s in its window, closed at t.
Concerns(c, t, s) == VoiceOf[s] = Voice(c) /\ Within(s, At(c.latest), t)

\* Where a stretch of the request is not any more once a handler has read so far.
Whole(k) ==
    \A s \in Segment : Concerns(worker[k].copy, worker[k].closed, s) =>
      /\ worker[k].stage = "slots" /\ "requester" \notin worker[k].pending =>
           speech[s].stage \notin { "live", "orphan" }
      /\ worker[k].stage = "jobs" /\ "requester" \notin worker[k].pending /\ "failed" \notin worker[k].pending =>
           speech[s].stage \notin { "live", "orphan", "slot", "slot_failed" } \/ s \in slipped
      /\ worker[k].stage = "dispatch" => speech[s].stage \in Settled \/ s \in slipped

WholeInv == Base /\ \A k \in Worker : Whole(k)

\* Speech is left alone, and so is a handler that reads.
LEMMA WholeKept ==
    ASSUME WholeInv, AtKept, UNCHANGED speech, slipped \subseteq slipped', NEW k \in Worker,
           worker'[k].stage \in Reading => worker'[k] = worker[k]
    PROVE  Whole(k)'
<1>1. CASE worker'[k].stage \notin Reading
  BY <1>1 DEF Whole, Reading
<1>2. CASE worker'[k].stage \in Reading
  <2>1. worker'[k] = worker[k] /\ worker[k].stage # "idle"
    BY <1>2 DEF Reading
  <2>2. PICK c \in Row : c = worker[k].copy /\ Known(c) /\ c.latest \in Wake
    BY <2>1, MineKnown DEF WholeInv, Mine
  <2>3. At(c.latest)' = At(c.latest)
    BY <2>2 DEF AtKept, Known, At
  <2>4. PICK t : t = worker[k].closed
    OBVIOUS
  <2>5. \A s \in Segment : Concerns(c, t, s)' => Concerns(c, t, s)
    BY <2>3 DEF Concerns, Within, Overlaps, Voice
  <2>6. Whole(k)
    BY DEF WholeInv
  <2>7. PICK h : h = worker[k]
    OBVIOUS
  <2>8. ASSUME NEW s \in Segment, Concerns(c, t, s)'
        PROVE  /\ h.stage = "slots" /\ "requester" \notin h.pending =>
                    speech'[s].stage \notin { "live", "orphan" }
               /\ h.stage = "jobs" /\ "requester" \notin h.pending /\ "failed" \notin h.pending =>
                    speech'[s].stage \notin { "live", "orphan", "slot", "slot_failed" } \/ s \in slipped'
               /\ h.stage = "dispatch" => speech'[s].stage \in Settled \/ s \in slipped'
    BY <2>2, <2>4, <2>5, <2>6, <2>7, <2>8 DEF Whole
  <2>9. \A s \in Segment : Concerns(worker[k].copy, worker[k].closed, s)' <=> Concerns(c, t, s)'
    BY <2>1, <2>2, <2>4 DEF Concerns, Within, Overlaps, Voice, At
  <2> QED BY <2>1, <2>7, <2>8, <2>9 DEF Whole
<1> QED BY <1>1, <1>2

\* The audio of stretch s goes on its way, and the handlers stay.
LEMMA WholeAudio ==
    ASSUME WholeInv, NEW s \in Segment, Speak(s) \/ Talk(s) \/ Hearing(s), NEW k \in Worker
    PROVE  Whole(k)'
<1>1. UNCHANGED << now, wakes, worker >>
  BY DEF Speak, Talk, Hearing, Flush, Validate, Transcribe, DropOrphan, unchangedByAudio
<1>2. CASE worker[k].stage \notin Reading
  BY <1>1, <1>2 DEF Whole, Reading
<1>3. CASE worker[k].stage \in Reading
  <2>1. worker[k].stage \in Bounded /\ worker[k].stage # "idle"
    BY <1>3 DEF Reading, Bounded, Active
  <2>2. PICK c \in Row : c = worker[k].copy /\ Known(c) /\ c.latest \in Wake
    BY <2>1, MineKnown DEF WholeInv, Mine
  <2>3. PICK t \in Time : t = worker[k].closed /\ t <= now
    BY <2>1, MineKnown DEF WholeInv
  <2>4. PICK g \in Stretch : g = speech[s]
    BY Fields DEF WholeInv, Base
  <2>5. now \in Int /\ t \in Int /\ At(c.latest) \in Int /\ g.start \in Int /\ g.end \in Int
    BY <2>2, <2>4, Fields, TimeIsNat DEF At, WholeInv, Base
  <2>6. PICK f : f = speech'[s]
    OBVIOUS
  <2>7. \A u \in Segment : u # s => speech'[u] = speech[u]
    BY DEF Speak, Talk, Hearing, Flush, Validate, Transcribe, DropOrphan, WholeInv, Base, TypeOK
  <2>8. \/ Speak(s) /\ f.start = now
        \/ Talk(s) /\ f.stage = "live" /\ g.stage = "live" /\ f.start = g.start /\ f.end = now /\ g.end = now - 1
        \/ Hearing(s) /\ f.start = g.start /\ f.end = g.end
    <3>1. speech \in [ Segment -> Stretch ]
      BY DEF WholeInv, Base, TypeOK
    <3>2. CASE Speak(s)
      BY <2>6, <3>1, <3>2 DEF Speak
    <3>3. CASE Talk(s)
      <4>1. PICK h : h = [ g EXCEPT !.end = now ]
        OBVIOUS
      <4>2. speech' = [ speech EXCEPT ![s] = h ]
        BY <2>4, <3>3, <4>1 DEF Talk
      <4>3. h.start = g.start /\ h.end = now /\ h.stage = g.stage
        BY <4>1 DEF Stretch
      <4> QED BY <2>4, <2>6, <3>1, <3>3, <4>2, <4>3 DEF Talk
    <3>4. ASSUME NEW st, speech' = [ speech EXCEPT ![s].stage = st ]
          PROVE  f.start = g.start /\ f.end = g.end
      <4>1. PICK h : h = [ g EXCEPT !.stage = st ]
        OBVIOUS
      <4>2. speech' = [ speech EXCEPT ![s] = h ]
        BY <2>4, <3>4, <4>1
      <4>3. h.start = g.start /\ h.end = g.end
        BY <4>1 DEF Stretch
      <4> QED BY <2>6, <3>1, <4>2, <4>3
    <3>5. CASE Hearing(s)
      BY <3>4, <3>5 DEF Hearing, Flush, Validate, Transcribe, DropOrphan
    <3> QED BY <3>2, <3>3, <3>5
  <2>9. \A u \in Segment : Concerns(c, t, u)' =>
          Concerns(c, t, u) /\ ~(u = s /\ Speak(s))
    <3> SUFFICES ASSUME NEW u \in Segment, Concerns(c, t, u)'
                 PROVE  Concerns(c, t, u) /\ ~(u = s /\ Speak(s))
      OBVIOUS
    <3>1. At(c.latest)' = At(c.latest)
      BY <1>1 DEF At
    <3>2. CASE u # s
      BY <2>7, <3>1, <3>2 DEF Concerns, Within, Overlaps, Voice
    <3>3. CASE u = s
      <4>1. /\ VoiceOf[s] = Voice(c) /\ At(c.latest) < t
            /\ f.start <= t - 1 /\ f.end >= At(c.latest)
        BY <2>6, <3>1, <3>3 DEF Concerns, Within, Overlaps, Voice
      <4>2. f.start # now
        BY <2>3, <2>5, <4>1
      <4>3. f.start = g.start /\ g.end >= At(c.latest) /\ ~Speak(s)
        BY <2>3, <2>5, <2>8, <4>1, <4>2 DEF Speak, Talk, Hearing, Flush, Validate, Transcribe, DropOrphan
      <4> QED BY <2>4, <3>3, <4>1, <4>3 DEF Concerns, Within, Overlaps
    <3> QED BY <3>2, <3>3
  <2>10. Whole(k)
    BY DEF WholeInv
  <2>11. PICK h : h = worker[k]
    OBVIOUS
  <2>12. slipped \subseteq slipped'
    BY DEF Speak, Talk, Hearing, Flush, Validate, Transcribe, DropOrphan
  <2>13. ASSUME NEW u \in Segment, Concerns(c, t, u)'
         PROVE  /\ h.stage = "slots" /\ "requester" \notin h.pending =>
                     speech'[u].stage \notin { "live", "orphan" }
                /\ h.stage = "jobs" /\ "requester" \notin h.pending /\ "failed" \notin h.pending =>
                     speech'[u].stage \notin { "live", "orphan", "slot", "slot_failed" } \/ u \in slipped'
                /\ h.stage = "dispatch" => speech'[u].stage \in Settled \/ u \in slipped'
    <3>1. /\ h.stage = "slots" /\ "requester" \notin h.pending =>
               speech[u].stage \notin { "live", "orphan" }
          /\ h.stage = "jobs" /\ "requester" \notin h.pending /\ "failed" \notin h.pending =>
               speech[u].stage \notin { "live", "orphan", "slot", "slot_failed" } \/ u \in slipped
          /\ h.stage = "dispatch" => speech[u].stage \in Settled \/ u \in slipped
      BY <2>2, <2>3, <2>9, <2>10, <2>11, <2>13 DEF Whole
    <3>2. CASE u # s
      BY <2>7, <2>12, <3>1, <3>2
    <3>3. CASE u = s
      <4>1. ~Speak(s)
        BY <2>9, <2>13, <3>3
      <4>2. CASE Talk(s)
        BY <2>4, <2>6, <2>8, <2>12, <3>1, <3>3, <4>1, <4>2 DEF Talk, Settled
      <4>3. speech \in [ Segment -> Stretch ]
        BY DEF WholeInv, Base, TypeOK
      <4>4. CASE Flush(s)
        <5>1. speech[s].stage = "live" /\ speech'[s].stage = "audio"
          BY <4>3, <4>4 DEF Flush, Stretch
        <5> QED BY <2>12, <3>1, <3>3, <5>1 DEF Settled
      <4>5. CASE Validate(s)
        <5>1. speech[s].stage = "audio"
              /\ (speech'[s].stage = "audio_failed" \/ (speech'[s].stage = "slot" /\ (h.stage = "jobs" => s \in slipped')))
          BY <2>11, <4>3, <4>5 DEF Validate, Stretch
        <5> QED BY <2>12, <3>1, <3>3, <5>1 DEF Settled
      <4>6. CASE Transcribe(s)
        <5>1. speech[s].stage = "slot" /\ speech'[s].stage \in { "published", "blank", "slot_failed" }
          BY <4>3, <4>6 DEF Transcribe, Stretch
        <5> QED BY <2>12, <3>1, <3>3, <5>1 DEF Settled
      <4>7. CASE DropOrphan(s)
        <5>1. speech[s].stage = "orphan" /\ speech'[s].stage = "dropped"
          BY <4>3, <4>7 DEF DropOrphan, Stretch
        <5> QED BY <2>12, <3>1, <3>3, <5>1 DEF Settled
      <4> QED BY <4>1, <4>2, <4>4, <4>5, <4>6, <4>7 DEF Hearing
    <3> QED BY <3>2, <3>3
  <2>14. \A u \in Segment : Concerns(worker[k].copy, worker[k].closed, u)' <=> Concerns(c, t, u)'
    BY <1>1, <2>2, <2>3 DEF Concerns, Within, Overlaps, Voice, At
  <2> QED BY <1>1, <2>11, <2>13, <2>14 DEF Whole
<1> QED BY <1>2, <1>3

\* What concerns the request is seen by the read that finds it.
LEMMA RequestSeen ==
    ASSUME Base, NEW k \in Worker, worker[k].stage \in Bounded, NEW s \in Segment,
           Concerns(worker[k].copy, worker[k].closed, s)
    PROVE  /\ \A S : speech[s].stage \in S => "requester" \in Pending(k, S)
           /\ \A st : speech[s].stage = st => "failed" \in Failure(k, st)
<1>1. PICK t \in Int : t = worker[k].closed
  BY Fields DEF Base
<1>2. speech[s].start \in Int /\ speech[s].end \in Int
  BY Fields DEF Base
<1>3. speech[s].start <= t - 1 /\ speech[s].end >= At(worker[k].copy.latest)
      /\ VoiceOf[s] = Voice(worker[k].copy)
  BY <1>1 DEF Concerns, Within, Overlaps
<1>4. IsRequester(k, s) /\ speech[s].start <= worker[k].closed
  BY <1>1, <1>2, <1>3 DEF IsRequester, Mine, Overlaps
<1>5. ASSUME NEW S, speech[s].stage \in S PROVE "requester" \in Pending(k, S)
  BY <1>4, <1>5 DEF Pending, InWindow
<1>6. ASSUME NEW st, speech[s].stage = st PROVE "failed" \in Failure(k, st)
  BY <1>4, <1>6 DEF Failure, InWindow
<1> QED BY <1>5, <1>6

LEMMA WholeRead ==
    ASSUME WholeInv, NEW k \in Worker, ReadLive(k) \/ ReadSlots(k) \/ ReadJobs(k), NEW i \in Worker
    PROVE  Whole(i)'
<1>0. Base
  BY DEF WholeInv
<1>1. worker[k].stage \in { "live", "slots", "jobs" } /\ UNCHANGED << wakes, speech, slipped >>
  BY DEF ReadLive, ReadSlots, ReadJobs, unchangedByReading
<1>2. PICK st, found :
        /\ See(k, st, found) /\ st \in { "slots", "jobs", "fail", "dispatch" } /\ found \in SUBSET Notes
        /\ \/ ReadLive(k) /\ st = "slots" /\ found = Pending(k, { "live", "orphan" })
           \/ ReadSlots(k) /\ st = "jobs" /\ found = Pending(k, { "slot" }) \cup Failure(k, "slot_failed")
           \/ ReadJobs(k) /\ found = {} /\ (st = "fail" \/ (st = "dispatch" /\ ~Fails(k)))
  <2>1. CASE ReadLive(k)
    BY <2>1, NotesSeen DEF ReadLive
  <2>2. CASE ReadSlots(k)
    <3>1. Pending(k, { "slot" }) \cup Failure(k, "slot_failed") \in SUBSET Notes
      BY NotesSeen
    <3> QED BY <2>2, <3>1 DEF ReadSlots
  <2>3. CASE ReadJobs(k)
    <3>1. {} \in SUBSET Notes
      OBVIOUS
    <3>2. See(k, "fail", {}) \/ (See(k, "dispatch", {}) /\ ~Fails(k))
      BY <2>3 DEF ReadJobs
    <3> QED BY <2>3, <3>1, <3>2
  <2> QED BY <2>1, <2>2, <2>3
<1>3. PICK P \in SUBSET Notes :
        P = worker[k].pending \cup found /\ See(k, st, P) /\ worker[k].pending \subseteq P
  BY <1>0, <1>2, SeesMore
<1>4. PICK t \in Moment : t = worker[k].closed /\ t <= now /\ t # Never
  BY <1>0, <1>1, Untouched DEF Handler, Bounded, Active
<1>5. st \in Stages \ { "idle" } /\ worker[k].stage # "idle" /\ worker[k].stage \in Bounded
  BY <1>1, <1>2 DEF Stages, Bounded, Active
<1>6. Moves(k, st, t, P)
  BY <1>3, <1>4 DEF Moves
<1>7. /\ worker'[k].stage = st /\ worker'[k].closed = t /\ worker'[k].pending = P
      /\ worker'[k].copy = worker[k].copy
      /\ \A l \in Worker : l # k => worker'[l] = worker[l]
  BY <1>0, <1>4, <1>5, <1>6, HandlerMoves
<1>8. CASE i # k
  <2>1. AtKept
    BY <1>1 DEF AtKept, Placed
  <2> QED BY <1>1, <1>7, <1>8, <2>1, WholeKept
<1>9. CASE i = k
  <2> SUFFICES ASSUME NEW s \in Segment, Concerns(worker[k].copy, worker[k].closed, s)'
               PROVE  /\ st = "slots" /\ "requester" \notin P =>
                           speech[s].stage \notin { "live", "orphan" }
                      /\ st = "jobs" /\ "requester" \notin P /\ "failed" \notin P =>
                           speech[s].stage \notin { "live", "orphan", "slot", "slot_failed" } \/ s \in slipped
                      /\ st = "dispatch" => speech[s].stage \in Settled \/ s \in slipped
    BY <1>1, <1>7, <1>9 DEF Whole
  <2>1. Concerns(worker[k].copy, worker[k].closed, s)
    BY <1>1, <1>4, <1>7 DEF Concerns, Within, Overlaps, Voice, At
  <2>2. /\ \A S : speech[s].stage \in S => "requester" \in Pending(k, S)
        /\ \A x : speech[s].stage = x => "failed" \in Failure(k, x)
    BY <1>0, <1>5, <2>1, RequestSeen
  <2>3. /\ worker[k].stage = "slots" /\ "requester" \notin worker[k].pending =>
             speech[s].stage \notin { "live", "orphan" }
        /\ worker[k].stage = "jobs" /\ "requester" \notin worker[k].pending /\ "failed" \notin worker[k].pending =>
             speech[s].stage \notin { "live", "orphan", "slot", "slot_failed" } \/ s \in slipped
    BY <2>1 DEF WholeInv, Whole
  <2>4. CASE ReadLive(k) /\ st = "slots" /\ found = Pending(k, { "live", "orphan" })
    <3>1. speech[s].stage \in { "live", "orphan" } => "requester" \in found
      BY <2>2, <2>4
    <3> QED BY <1>3, <2>4, <3>1
  <2>5. CASE ReadSlots(k) /\ st = "jobs" /\ found = Pending(k, { "slot" }) \cup Failure(k, "slot_failed")
    <3>1. worker[k].stage = "slots"
      BY <2>5 DEF ReadSlots
    <3>2. speech[s].stage = "slot" => "requester" \in found
      BY <2>2, <2>5
    <3>3. speech[s].stage = "slot_failed" => "failed" \in found
      BY <2>2, <2>5
    <3> QED BY <1>3, <2>3, <2>5, <3>1, <3>2, <3>3
  <2>6. CASE ReadJobs(k) /\ st = "dispatch" /\ ~Fails(k)
    <3>1. worker[k].stage = "jobs" /\ ~Waits(k)
      BY <2>6 DEF ReadJobs
    <3>2. "failed" \notin Found(k) /\ "requester" \notin Found(k)
      BY <2>6, <3>1 DEF Fails, Waits
    <3>3. "failed" \notin worker[k].pending /\ "requester" \notin worker[k].pending
          /\ "requester" \notin Pending(k, { "audio" }) /\ "failed" \notin Failure(k, "audio_failed")
      BY <3>2 DEF Found
    <3>4. speech[s].stage # "audio" /\ speech[s].stage # "audio_failed"
      BY <2>2, <3>3
    <3>5. speech[s].stage \notin { "live", "orphan", "slot", "slot_failed" } \/ s \in slipped
      BY <2>3, <3>1, <3>3
    <3>6. speech[s].stage \in { "silent", "live", "orphan", "audio", "audio_failed", "slot", "slot_failed",
                                "published", "blank", "dropped" }
      BY <1>0, Fields DEF Base, Stretch
    <3> QED BY <2>6, <3>4, <3>5, <3>6 DEF Settled
  <2>7. CASE ReadJobs(k) /\ st = "fail"
    BY <2>7
  <2> QED BY <1>2, <2>4, <2>5, <2>6, <2>7
<1> QED BY <1>8, <1>9

\* The other steps of a handler are not reads, and those of the rest leave the
\* handlers at their stages.
LEMMA WholeNext ==
    ASSUME WholeInv, Base', [Next]_vars
    PROVE  WholeInv'
<1>0. Base /\ AtKept
  BY AtStays DEF WholeInv
<1> SUFFICES ASSUME NEW i \in Worker PROVE Whole(i)'
  BY DEF WholeInv
<1>1. ASSUME UNCHANGED << speech, slipped >>,
             worker'[i].stage \in Reading => worker'[i] = worker[i]
      PROVE  Whole(i)'
  BY <1>0, <1>1, WholeKept
<1>2. CASE Tick \/ UNCHANGED vars \/ \E w \in Wake : TaskSettles(w) \/ Hear(w) \/ Schedule(w)
  <2>1. ASSUME NEW w \in Wake, Schedule(w) PROVE UNCHANGED << speech, worker, slipped >>
    BY <2>1, ScheduleAlone
  <2> QED BY <1>1, <1>2, <2>1 DEF Tick, vars, TaskSettles, Hear
<1>3. CASE \E s \in Segment : Speak(s) \/ Talk(s) \/ Hearing(s)
  BY <1>3, WholeAudio
<1>4. CASE Crash
  <2>1. worker'[i].stage = "idle"
    BY <1>0, <1>4, IdlingKnown, Zenon DEF Crash
  <2> QED BY <2>1 DEF Whole
<1>5. ASSUME NEW k \in Worker, Handle(k) PROVE Whole(i)'
  <2>1. CASE ReadLive(k) \/ ReadSlots(k) \/ ReadJobs(k)
    BY <2>1, WholeRead
  <2>2. worker \in [ Worker -> Handler({ 0 } \cup DOMAIN rows) ]
    BY <1>0, Untouched
  <2>3. ASSUME NEW st, st \notin Reading, UNCHANGED << speech, slipped >>,
               Goto(k, st) \/ \E t : Settling(k, st, t)
        PROVE  Whole(i)'
    <3>1. worker'[i] = worker[i] \/ worker'[i].stage = st
      <4>1. CASE i # k
        BY <2>2, <2>3, <4>1 DEF Goto, Settling
      <4>2. CASE i = k
        <5>1. PICK g \in Handler({ 0 } \cup DOMAIN rows) : g = worker[k]
          BY <2>2
        <5>2. PICK h : worker' = [ worker EXCEPT ![k] = h ] /\ h.stage = st
          <6>1. CASE Goto(k, st)
            <7>1. PICK h : h = [ g EXCEPT !.stage = st ]
              OBVIOUS
            <7>2. h.stage = st
              BY <7>1 DEF Handler
            <7> QED BY <5>1, <6>1, <7>1, <7>2 DEF Goto
          <6>2. CASE \E t : Settling(k, st, t)
            <7>1. PICK t : Settling(k, st, t)
              BY <6>2
            <7>2. PICK h : h = [ g EXCEPT !.stage = st, !.closed = t ]
              OBVIOUS
            <7>3. h.stage = st
              BY <7>2 DEF Handler
            <7>4. worker' = [ worker EXCEPT ![k] = h ]
              BY <2>2, <5>1, <7>1, <7>2 DEF Settling
            <7> QED BY <7>3, <7>4
          <6> QED BY <2>3, <6>1, <6>2
        <5> QED BY <2>2, <4>2, <5>2
      <4> QED BY <4>1, <4>2
    <3> QED BY <1>1, <2>3, <3>1
  <2>4. "live" \notin Reading /\ "record" \notin Reading /\ "close" \notin Reading /\ "leave" \notin Reading
    BY DEF Reading
  <2>5. CASE Resume(k) \/ Rediscover(k) \/ EndWindow(k) \/ Close(k) \/ Record(k)
    BY <2>3, <2>4, <2>5 DEF Resume, Rediscover, EndWindow, Close, Record, unchangedByReading
  <2>6. CASE WaitForDue(k) \/ WaitForSpeaker(k) \/ WaitForTranscription(k) \/ Dispatch(k) \/ NoRequest(k)
    BY <2>3, <2>4, <2>6 DEF WaitForDue, WaitForSpeaker, WaitForTranscription, Defer, Leave, Dispatch,
                            NoRequest, unchangedByReading
  <2>7. CASE Finish(k)
    <3>1. worker'[k].stage = "idle" /\ \A l \in Worker : l # k => worker'[l] = worker[l]
      BY <1>0, <2>7, IdlingKnown, Untouched DEF Finish
    <3> QED BY <1>1, <2>7, <3>1 DEF Finish, Reading
  <2>8. CASE Reread(k)
    <3>1. UNCHANGED << speech, slipped >>
      BY <1>0, <2>8, RereadShape
    <3>2. PICK h : worker' = [ worker EXCEPT ![k] = h ] /\ h.stage = "finish"
      BY <1>0, <2>8, RereadShape
    <3>3. worker'[k].stage = "finish" /\ \A l \in Worker : l # k => worker'[l] = worker[l]
      BY <2>2, <3>2
    <3> QED BY <1>1, <3>1, <3>3 DEF Reading
  <2> QED BY <1>5, <2>1, <2>5, <2>6, <2>7, <2>8 DEF Handle, Open
<1>6. ASSUME NEW j \in DOMAIN rows, Runtime(j) PROVE Whole(i)'
  <2>1. CASE ResolveWaiting(j) \/ Sweep(j)
    BY <1>1, <2>1 DEF ResolveWaiting, Sweep
  <2>2. ASSUME NEW k \in Worker, Claim(k, j) PROVE Whole(i)'
    <3>1. PICK r, h : Claims(k, j, r, h)
      BY <1>0, <2>2, ClaimShape
    <3>2. worker'[k] = h /\ h.stage = "start" /\ \A l \in Worker : l # k => worker'[l] = worker[l]
      BY <1>0, <3>1, Untouched DEF Claims
    <3> QED BY <1>1, <2>2, <3>2 DEF Claim, Reading
  <2> QED BY <1>6, <2>1, <2>2 DEF Runtime
<1> QED BY <1>2, <1>3, <1>4, <1>5, <1>6 DEF Next, Work

LEMMA WholeHolds == Spec => []WholeInv
<1>1. Init => WholeInv
  <2> SUFFICES ASSUME Init PROVE WholeInv
    OBVIOUS
  <2>1. Base
    BY InitBase
  <2>2. \A k \in Worker : worker[k].stage = "idle"
    BY <2>1, IdlingKnown DEF Init
  <2> QED BY <2>1, <2>2 DEF WholeInv, Whole
<1>2. WholeInv /\ [Next]_vars => WholeInv'
  BY NextBase, WholeNext DEF WholeInv
<1> QED BY <1>1, <1>2, PTL DEF Spec

\* Only the handler of an activation opens a task, that of its latest wake.
LEMMA TaskOpened ==
    ASSUME Base, [Next]_vars, NEW w \in Wake, tasks[w].state = "none", tasks'[w].state = "open"
    PROVE  \E k \in Worker : Dispatch(k) /\ w = Mine(k).latest /\ tasks'[w].closed = worker[k].closed
<1>1. CASE UNCHANGED tasks
  BY <1>1
<1>0. Base
  OBVIOUS
<1>2. tasks \in [ Wake -> Task ]
  BY Untouched
<1>3. ASSUME NEW v \in Wake, TaskSettles(v) PROVE FALSE
  <2>1. CASE v = w
    BY <1>3, <2>1 DEF TaskSettles
  <2>2. CASE v # w
    BY <1>2, <1>3, <2>2 DEF TaskSettles
  <2> QED BY <2>1, <2>2
<1>4. ASSUME NEW v \in Wake, CancelTree(v) PROVE FALSE
  <2>1. PICK S \in SUBSET { u \in Wake : tasks[u].of = wakes[v].target /\ tasks[u].state = "open" } :
          tasks' = [ u \in Wake |-> IF u \in S THEN [ tasks[u] EXCEPT !.state = "settled" ] ELSE tasks[u] ]
    BY <1>4 DEF CancelTree
  <2>2. tasks'[w] = tasks[w]
    BY <2>1
  <2> QED BY <2>2
<1>5. ASSUME NEW k \in Worker, Dispatch(k)
      PROVE  w = Mine(k).latest /\ tasks'[w].closed = worker[k].closed
  BY <1>5, DispatchShape
<1>6. CASE \E k \in Worker : Handle(k)
  <2>1. PICK k \in Worker : Handle(k)
    BY <1>6
  <2>2. CASE Dispatch(k)
    BY <1>5, <2>2
  <2>4. ASSUME Reread(k) PROVE UNCHANGED tasks
    BY <1>0, <2>4, RereadShape
  <2>3. CASE ~Dispatch(k)
    <3>1. Reread(k) \/ UNCHANGED tasks
      BY <2>1, <2>3 DEF Handle, Open, Resume, Rediscover, WaitForDue, WaitForSpeaker, EndWindow, Close, Record,
         ReadLive, ReadSlots, WaitForTranscription, ReadJobs, NoRequest, Finish, Defer, unchangedByReading
    <3> QED BY <1>1, <2>4, <3>1
  <2> QED BY <2>2, <2>3
<1>7. CASE \E v \in Wake : Schedule(v)
  BY <1>1, <1>4, <1>7, ScheduleAlone
<1>9. ASSUME Crash PROVE UNCHANGED tasks
  BY <1>9, Zenon DEF Crash
<1>8. CASE \/ Tick \/ UNCHANGED vars \/ \E v \in Wake : Hear(v)
           \/ \E s \in Segment : Speak(s) \/ Talk(s) \/ Hearing(s)
           \/ \E j \in DOMAIN rows : Runtime(j)
  BY <1>1, <1>8 DEF Tick, vars, Hear, Speak, Talk, Hearing, Flush, Validate, Transcribe, DropOrphan,
                    unchangedByAudio, Runtime, ResolveWaiting, Sweep, Claim
<1> QED BY <1>1, <1>3, <1>6, <1>7, <1>8, <1>9 DEF Next, Work

\* An agent task is dispatched with the whole request, whatever the number of
\* stretches of speech, wakes and workers, and in whatever order audio is flushed
\* and transcribed while the handler reads: but for a segment that became a slot
\* between its read of the slots and its read of the jobs (slipped).
THEOREM RequestsAreWhole == Spec => RequestIsWhole
<1>1. WholeInv /\ [Next]_vars =>
        [ \A w \in Wake : tasks[w].state = "none" /\ tasks'[w].state = "open" =>
            \A s \in Segment :
              VoiceOf[s] = WakerOf[w] /\ Within(s, At(w), tasks'[w].closed) =>
                speech[s].stage \in { "silent", "published", "blank", "dropped" } \/ s \in slipped ]_vars
  <2> SUFFICES ASSUME WholeInv, [Next]_vars, NEW w \in Wake,
                      tasks[w].state = "none", tasks'[w].state = "open", NEW s \in Segment,
                      VoiceOf[s] = WakerOf[w], Within(s, At(w), tasks'[w].closed)
               PROVE  speech[s].stage \in { "silent", "published", "blank", "dropped" } \/ s \in slipped
    OBVIOUS
  <2>1. PICK k \in Worker : Dispatch(k) /\ w = Mine(k).latest /\ tasks'[w].closed = worker[k].closed
    BY TaskOpened DEF WholeInv
  <2>2. Concerns(worker[k].copy, worker[k].closed, s) /\ worker[k].stage = "dispatch"
    BY <2>1 DEF Concerns, Voice, Mine, Dispatch
  <2> QED BY <2>2 DEF WholeInv, Whole, Settled
<1> QED BY <1>1, WholeHolds, PTL DEF Spec, RequestIsWhole
=============================================================================
