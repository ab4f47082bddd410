---------------------------- MODULE StoreProofs ----------------------------
(***************************************************************************)
(* Proofs about three users of the timeline store that share no state:       *)
(* Automations, Confirmation and Migrations.                                *)
(*                                                                         *)
(* An automation keeps to its budget and never fires twice for one event,   *)
(* and one agent task has one active automation.  The argument for the      *)
(* budget: every copy of a record that a pass may still act on - the active *)
(* record itself and the copy the pass holds - covers what the automation   *)
(* fired.  It counts as many fires as there are jobs, made or still to be   *)
(* made, its cursor is not before the beginning of any event that fired,    *)
(* and what it keeps for a recheck has not fired.  Copies that do not cover *)
(* them are written back only as cancelled.                                 *)
(*                                                                         *)
(* A confirmation that asks for a decision has posted its card, whatever    *)
(* the workers remember of the row and of the card.                         *)
(*                                                                         *)
(* The runtime runs only over a store that the migrations have settled, and *)
(* a database is refused only for the known reasons.  The argument: every   *)
(* row carries what its version left.  Its blob is untouched and the one    *)
(* migration that can read it is still to come, or it is current and its    *)
(* payload is one of those that the old one may become.  The schema, in     *)
(* turn, holds what the applied migrations brought, and its time columns    *)
(* are required only where every event has its times.                       *)
(***************************************************************************)
EXTENDS Automations, Confirmation, Migrations, FiniteSetTheorems, SequenceTheorems, TLAPS

-----------------------------------------------------------------------------
(* The inductive invariants. *)

\* The fires of a that are saved and whose jobs do not exist yet.
Emitting(a) == IF pass.stage = "emit" /\ pass.of = a THEN pass.jobs ELSE {}

\* The events a has fired for, or is about to.
Done(a) == (firedFor[a] \cup Emitting(a)) \ { Clock }

\* A copy that a pass may act on knows what its automation fired.
Covers(a, r) ==
    /\ made[a] + Cardinality(Emitting(a)) <= r.fires
    /\ \A i \in Done(a) : log[i].start <= r.cursor
    /\ r.pending \cap Done(a) = {} /\ r.pending \ { Clock } \subseteq DOMAIN log
    /\ \A c, d \in r.pending : c = d

Ledger(a) ==
    /\ made[a] + Cardinality(Emitting(a)) <= SpecOf[a].max_fires
    /\ Done(a) \subseteq DOMAIN log /\ Clock \notin firedFor[a]
    /\ Active(records[a]) => Covers(a, records[a])
    /\ held[a] # Absent => Active(held[a]) /\ Covers(a, held[a]) /\ Emitting(a) = {}

\* Nobody has acted on what was not created yet.
Untouched(a) ==
    /\ records[a] = Absent /\ held[a] = Absent /\ cancels[a].stage # "read"
    /\ made[a] = 0 /\ firedFor[a] = {} /\ Emitting(a) = {}

\* What a pass judges is new to the copy it holds, and what it emits did not fire.
PassSound ==
    /\ pass.stage = "judge" =>
         /\ pass.of \in Automation /\ held[pass.of] # Absent
         /\ IsFiniteSet(pass.contexts)
         /\ \A c \in pass.contexts \ { Clock } :
              c \in DOMAIN log /\ log[c].start > held[pass.of].cursor
    /\ pass.stage = "emit" =>
         pass.of \in Automation /\ IsFiniteSet(pass.jobs) /\ pass.jobs \cap firedFor[pass.of] = {}

BudgetInv ==
    /\ TypeOK
    /\ repeated = {}
    /\ \A i \in DOMAIN log : log[i].start <= now
    /\ \A a \in Automation : Ledger(a)
    /\ \A a \in Automation : requests[a] # "answered" => Untouched(a)
    /\ PassSound

\* What a pass holds was active when it was listed, and only a cancellation can
\* have changed it since.
HeldIsListed ==
    \A a \in Automation :
      held[a] # Absent => Active(held[a]) /\ records[a].state \in { "active", "cancelled" }

SourceInv == OneActivePerSource /\ HeldIsListed

-----------------------------------------------------------------------------
(* The records the actions write. *)

\* The record before anything is created.
LEMMA AbsentType == Absent \in Record /\ ~Active(Absent)
<1>1. 0 \in Time
  BY AutomationAssumption DEF Time
<1> QED BY <1>1 DEF Absent, Record, Active, None

\* A record that is evaluated: its cursor is the clock and no recheck is pending.
LEMMA EvaluatedRecord ==
    ASSUME NEW r \in Record, now \in Time
    PROVE  /\ MarkEvaluated(r) \in Record
           /\ MarkEvaluated(r).state = r.state /\ MarkEvaluated(r).fires = r.fires
           /\ MarkEvaluated(r).cursor = now /\ MarkEvaluated(r).pending = {}
BY DEF MarkEvaluated, Record, Time, Context

\* A record of a given state.
LEMMA StateRecord ==
    ASSUME NEW r \in Record, NEW s \in { "active", "cancelled", "expired" }
    PROVE  [ r EXCEPT !.state = s ] \in Record /\ [ r EXCEPT !.state = s ].state = s
BY DEF Record

\* A record that fires n times is evaluated, and counts the fires.
LEMMA FiredRecord ==
    ASSUME NEW a \in Automation, NEW r \in Record, NEW n \in Nat, now \in Time
    PROVE  /\ MarkFired(a, r, n) \in Record
           /\ MarkFired(a, r, n).fires = r.fires + n
           /\ MarkFired(a, r, n).cursor = now /\ MarkFired(a, r, n).pending = {}
           /\ MarkFired(a, r, n).state \in { r.state, "expired" }
<1> DEFINE e == MarkEvaluated(r)
           state == IF r.fires + n >= SpecOf[a].max_fires THEN "expired" ELSE e.state
<1>1. e \in Record /\ e.state = r.state /\ e.fires = r.fires /\ e.cursor = now /\ e.pending = {}
  BY EvaluatedRecord
<1>2. MarkFired(a, r, n) = [ e EXCEPT !.fires = e.fires + n, !.state = state ]
  BY DEF MarkFired
<1>3. state \in { r.state, "expired" }
  BY <1>1
<1> HIDE DEF e, state
<1>4. r.fires \in Nat /\ r.state \in { None, "active", "cancelled", "expired" }
  BY DEF Record
<1>5. state \in { None, "active", "cancelled", "expired" }
  BY <1>3, <1>4
<1> DEFINE count == e.fires + n
<1>6. count \in Nat /\ count = r.fires + n
  BY <1>1, <1>4
<1> HIDE DEF count
<1>7. /\ [ e EXCEPT !.fires = count, !.state = state ] \in Record
      /\ [ e EXCEPT !.fires = count, !.state = state ].fires = count
      /\ [ e EXCEPT !.fires = count, !.state = state ].cursor = e.cursor
      /\ [ e EXCEPT !.fires = count, !.state = state ].pending = e.pending
      /\ [ e EXCEPT !.fires = count, !.state = state ].state = state
  BY <1>1, <1>5, <1>6 DEF Record
<1> QED BY <1>1, <1>2, <1>3, <1>6, <1>7 DEF count

\* A record whose condition is to be judged again.
LEMMA PendingRecord ==
    ASSUME NEW a \in Automation, NEW r \in Record, NEW c \in Context, now \in Time
    PROVE  /\ MarkPendingRecheck(a, r, c) \in Record
           /\ MarkPendingRecheck(a, r, c).state = r.state
           /\ MarkPendingRecheck(a, r, c).fires = r.fires
           /\ MarkPendingRecheck(a, r, c).cursor = now
           /\ MarkPendingRecheck(a, r, c).pending = { c }
<1> DEFINE due == now + SpecOf[a].delay
<1>1. due \in Nat
  BY AutomationAssumption DEF AutomationSpec, Time
<1>2. MarkPendingRecheck(a, r, c) = [ r EXCEPT !.cursor = now, !.pending = { c }, !.due = due ]
  BY DEF MarkPendingRecheck
<1> HIDE DEF due
<1>3. { c } \in SUBSET Context
  OBVIOUS
<1> QED BY <1>1, <1>2, <1>3 DEF Record

-----------------------------------------------------------------------------
(* Every step keeps the types. *)

PassType ==
    [ stage : { "rest", "next", "judge", "emit" }, of : Automation \cup { None },
      contexts : SUBSET Context, jobs : SUBSET Context ]

\* What a pass works on, stage by stage.
LEMMA PassRecords ==
    /\ Resting \in PassType /\ [ Resting EXCEPT !.stage = "next" ] \in PassType
    /\ \A a \in Automation, cs \in SUBSET Context :
         [ Resting EXCEPT !.stage = "judge", !.of = a, !.contexts = cs ] \in PassType
    /\ \A a \in Automation, js \in SUBSET Context :
         [ Resting EXCEPT !.stage = "emit", !.of = a, !.jobs = js ] \in PassType
<1>1. Resting \in PassType
  BY DEF Resting, None, PassType
<1> QED BY <1>1 DEF PassType

\* The contexts of a record are events of the log, or the clock.
LEMMA ContextsType ==
    ASSUME TypeOK, NEW a \in Automation, NEW r \in Record
    PROVE  /\ Contexts(a, r) \in SUBSET Context /\ IsFiniteSet(Contexts(a, r))
           /\ \A c \in Contexts(a, r) \ { Clock } : c \in DOMAIN log /\ log[c].start > r.cursor
<1>1. CASE SpecOf[a].listens = {}
  <2>1. Contexts(a, r) \subseteq { Clock }
    BY <1>1 DEF Contexts
  <2>2. IsFiniteSet({ Clock })
    BY FS_Singleton
  <2> QED BY <2>1, <2>2, FS_Subset DEF Context, Clock
<1>2. CASE SpecOf[a].listens # {}
  <2>1. Contexts(a, r) \subseteq DOMAIN log /\ \A c \in Contexts(a, r) : log[c].start > r.cursor
    BY <1>2 DEF Contexts
  <2>2. DOMAIN log = 1 .. Len(log) /\ Len(log) \in Nat
    BY LenProperties DEF TypeOK
  <2>3. IsFiniteSet(1 .. Len(log))
    BY <2>2, FS_Interval
  <2> QED BY <2>1, <2>2, <2>3, FS_Subset DEF Context
<1> QED BY <1>1, <1>2

\* What a pass saves keeps the types.
LEMMA SaveType ==
    ASSUME TypeOK, NEW a \in Automation, NEW r \in Record, Save(a, r),
           pass' \in PassType, owed' \in [ Automation -> SUBSET Context ]
    PROVE  TypeOK'
BY AbsentType DEF Save, Dropped, TypeOK, PassType, unchangedByPass

\* A fire keeps the types.
LEMMA FireType ==
    ASSUME TypeOK, NEW a \in Automation, NEW fired \in SUBSET Context, IsFiniteSet(fired),
           Fire(a, fired), NEW answered, Answer(a, answered)
    PROVE  TypeOK'
<1> DEFINE r == IF fired = {} THEN MarkEvaluated(held[a])
                ELSE MarkFired(a, held[a], Cardinality(fired))
<1>1. Cardinality(fired) \in Nat
  BY FS_CardinalityType
<1>2. held[a] \in Record /\ now \in Time
  BY DEF TypeOK
<1>3. r \in Record
  BY <1>1, <1>2, EvaluatedRecord, FiredRecord
<1>4. Save(a, r) /\ pass' \in PassType
  BY PassRecords DEF Fire
<1>5. owed' \in [ Automation -> SUBSET Context ]
  BY DEF Answer, TypeOK
<1> QED
  <2> HIDE DEF r
  <2> QED BY <1>3, <1>4, <1>5, SaveType

\* The log grows by an event.
LEMMA LogType ==
    ASSUME TypeOK, NEW kind \in Kind \cup { Fired }, NEW start \in Time
    PROVE  LET longer == Append(log, [ kind |-> kind, start |-> start ])
           IN  /\ longer \in Seq([ kind : Kind \cup { Fired }, start : Time ])
               /\ DOMAIN log \subseteq DOMAIN longer /\ Len(log) + 1 \in Context
               /\ \A i \in DOMAIN log : longer[i] = log[i]
               /\ \A i \in DOMAIN longer \ DOMAIN log : longer[i].start = start
<1> DEFINE Entries == [ kind : Kind \cup { Fired }, start : Time ]
           event  == [ kind |-> kind, start |-> start ]
           longer == Append(log, event)
<1>1. log \in Seq(Entries) /\ event \in Entries /\ event.start = start
  BY DEF TypeOK
<1> HIDE DEF Entries, event
<1>2. /\ longer \in Seq(Entries) /\ Len(longer) = Len(log) + 1
      /\ \A i \in 1 .. Len(log) : longer[i] = log[i]
      /\ longer[Len(log) + 1] = event
  BY <1>1, AppendProperties
<1>3. DOMAIN log = 1 .. Len(log) /\ Len(log) \in Nat
  BY <1>1, LenProperties
<1>4. DOMAIN longer = 1 .. Len(log) + 1
  BY <1>2, <1>3, LenProperties
<1>5. /\ DOMAIN log \subseteq DOMAIN longer /\ Len(log) + 1 \in Context
      /\ \A i \in DOMAIN longer \ DOMAIN log : i = Len(log) + 1
  BY <1>3, <1>4 DEF Context
<1>6. \A i \in DOMAIN longer \ DOMAIN log : longer[i].start = start
  BY <1>1, <1>2, <1>5
<1>7. \A i \in DOMAIN log : longer[i] = log[i]
  BY <1>2, <1>3
<1> QED BY <1>2, <1>5, <1>6, <1>7 DEF Entries, event

\* The initial states have the types.
LEMMA InitType == Init => TypeOK
<1> SUFFICES ASSUME Init PROVE TypeOK
  OBVIOUS
<1>1. 0 \in Time /\ 0 \in 0 .. MaxEvents /\ 0 \in 0 .. MaxCrashes
  BY AutomationAssumption DEF Time
<1>2. log \in Seq([ kind : Kind \cup { Fired }, start : Time ])
  BY EmptySeq DEF Init
<1>3. pass \in PassType
  BY PassRecords DEF Init
<1> QED BY <1>1, <1>2, <1>3, AbsentType DEF Init, TypeOK, PassType

\* Every step keeps the types: the guards that keep a count or a set finite are
\* those of the budget's invariant.
LEMMA StepType ==
    ASSUME BudgetInv, Next PROVE TypeOK'
<1> USE DEF Context
<1>0. TypeOK /\ pass \in PassType
  BY DEF BudgetInv, TypeOK, PassType
<1>1. CASE Tick
  BY <1>0, <1>1, AutomationAssumption DEF Tick, TypeOK, Time
<1>2. ASSUME NEW kind \in Kind, NEW start \in Time, AppendEvent(kind, start) PROVE TypeOK'
  <2>1. log' \in Seq([ kind : Kind \cup { Fired }, start : Time ]) /\ Len(log) + 1 \in Context
    BY <1>0, <1>2, LogType DEF AppendEvent
  <2>2. outside' \in 0 .. MaxEvents
    BY <1>0, <1>2, AutomationAssumption DEF AppendEvent, TypeOK
  <2>3. owed' \in [ Automation -> SUBSET Context ]
    BY <1>0, <1>2, <2>1 DEF AppendEvent, TypeOK
  <2> QED BY <1>0, <1>2, <2>1, <2>2, <2>3 DEF AppendEvent, TypeOK
<1>3. ASSUME NEW a \in Automation, FindByKey(a) PROVE TypeOK'
  BY <1>0, <1>3 DEF FindByKey, TypeOK, unchangedByRequest
<1>4. ASSUME NEW a \in Automation, Insert(a) PROVE TypeOK'
  <2>1. [ Absent EXCEPT !.state = "active", !.cursor = now ] \in Record
    BY <1>0, AbsentType DEF TypeOK, Record
  <2> QED BY <1>0, <1>4, <2>1 DEF Insert, TypeOK, unchangedByRequest
<1>5. ASSUME NEW a \in Automation, BeginCancel(a) PROVE TypeOK'
  BY <1>0, <1>5 DEF BeginCancel, TypeOK, unchangedByRequest
<1>6. ASSUME NEW a \in Automation, Cancel(a) PROVE TypeOK'
  <2>1. [ cancels[a].copy EXCEPT !.state = "cancelled" ] \in Record
    BY <1>0, StateRecord DEF TypeOK
  <2> QED BY <1>0, <1>6, <2>1, AbsentType DEF Cancel, TypeOK, unchangedByRequest
<1>7. CASE Begin
  <2>1. held' \in [ Automation -> Record ]
    BY <1>0, <1>7, AbsentType DEF Begin, TypeOK
  <2> QED BY <1>0, <1>7, <2>1, PassRecords DEF Begin, TypeOK, PassType, unchangedByPass
<1>8. CASE End
  BY <1>0, <1>8, PassRecords DEF End, TypeOK, PassType, unchangedByPass
<1>9. ASSUME NEW a \in Automation, Expire(a) PROVE TypeOK'
  <2> DEFINE r == [ MarkEvaluated(held[a]) EXCEPT !.state = "expired" ]
  <2>1. r \in Record
    BY <1>0, EvaluatedRecord, StateRecord DEF TypeOK
  <2>2. Save(a, r) /\ pass' \in PassType /\ owed' \in [ Automation -> SUBSET Context ]
    BY <1>0, <1>9 DEF Expire, TypeOK
  <2> HIDE DEF r
  <2> QED BY <1>0, <2>1, <2>2, SaveType
<1>10. ASSUME NEW a \in Automation, LeaveAlone(a) PROVE TypeOK'
  BY <1>0, <1>10, AbsentType DEF LeaveAlone, Dropped, TypeOK, unchangedByPass
<1>11. ASSUME NEW a \in Automation, Recheck(a) PROVE TypeOK'
  <2>1. held[a] \in Record /\ Covers(a, held[a])
    BY <1>0, <1>11 DEF Recheck, Evaluated, InHand, BudgetInv, Ledger, TypeOK
  <2>2. PICK fired \in SUBSET held[a].pending :
          Fire(a, fired) /\ Answer(a, held[a].pending \ fired)
    BY <1>11 DEF Recheck, Matching
  <2>3. held[a].pending \in SUBSET Context /\ IsFiniteSet(fired)
    <3>1. held[a].pending \in SUBSET Context
      BY <2>1 DEF Record
    <3>2. PICK c : fired \subseteq { c }
      BY <2>1 DEF Covers
    <3> QED BY <3>1, <3>2, FS_Singleton, FS_Subset
  <2> QED BY <1>0, <2>2, <2>3, FireType
<1>12. ASSUME NEW a \in Automation, Load(a) PROVE TypeOK'
  <2>1. Contexts(a, held[a]) \in SUBSET Context
    BY <1>0, ContextsType DEF TypeOK
  <2>2. pass' \in PassType
    BY <1>12, <2>1, PassRecords DEF Load
  <2> QED BY <1>0, <1>12, <2>2 DEF Load, TypeOK, PassType, unchangedByPass
<1>13. ASSUME NEW a \in Automation, Judge(a) PROVE TypeOK'
  <2>1. PICK fired \in SUBSET pass.contexts : Fire(a, fired) /\ Answer(a, pass.contexts \ fired)
    BY <1>13 DEF Judge, Matching
  <2>2. pass.contexts \in SUBSET Context /\ IsFiniteSet(fired)
    BY <1>0, <1>13, <2>1, FS_Subset DEF Judge, BudgetInv, PassSound, PassType
  <2> QED BY <1>0, <2>1, <2>2, FireType
<1>14. ASSUME NEW a \in Automation, Postpone(a) PROVE TypeOK'
  <2>1. pass' \in PassType /\ owed' \in [ Automation -> SUBSET Context ]
    <3>1. pass' = [ Resting EXCEPT !.stage = "next" ]
      BY <1>14 DEF Postpone
    <3>2. pass' \in PassType
      BY <3>1, PassRecords
    <3>3. PICK answered : Answer(a, answered)
      BY <1>14 DEF Postpone
    <3>4. owed' \in [ Automation -> SUBSET Context ]
      BY <1>0, <3>3 DEF Answer, TypeOK
    <3> QED BY <3>2, <3>4
  <2>2. held[a] \in Record /\ now \in Time /\ pass.contexts \in SUBSET Context
    BY <1>0 DEF TypeOK, PassType
  <2>3. PICK r \in Record : Save(a, r)
    BY <1>14, <2>2, EvaluatedRecord, PendingRecord DEF Postpone
  <2> QED BY <1>0, <2>1, <2>3, SaveType
<1>15. ASSUME NEW c \in pass.jobs, Emit(c) PROVE TypeOK'
  <2>1. pass.of \in Automation /\ c \in Context
    BY <1>0, <1>15 DEF Emit, BudgetInv, PassSound, PassType
  <2>2. log' \in Seq([ kind : Kind \cup { Fired }, start : Time ])
    BY <1>0, <1>15, LogType DEF Emit, TypeOK
  <2>3. pass' \in PassType
    <3>1. [ pass EXCEPT !.jobs = @ \ { c } ] \in PassType
      BY <1>0 DEF PassType
    <3> QED BY <1>15, <3>1, PassRecords DEF Emit
  <2>4. made' \in [ Automation -> Nat ]
    <3>1. made' = [ made EXCEPT ![pass.of] = @ + 1 ] /\ made \in [ Automation -> Nat ]
      BY <1>0, <1>15 DEF Emit, TypeOK
    <3> QED BY <2>1, <3>1
  <2>5. /\ firedFor' \in [ Automation -> SUBSET Context ]
        /\ owed' \in [ Automation -> SUBSET Context ] /\ repeated' \subseteq Automation
    BY <1>0, <1>15, <2>1 DEF Emit, Answer, TypeOK
  <2> QED BY <1>0, <1>15, <2>2, <2>3, <2>4, <2>5 DEF Emit, Answer, TypeOK, PassType, unchangedByPass
<1>16. CASE BreakOff
  <2>1. crashes' \in 0 .. MaxCrashes
    BY <1>0, <1>16, AutomationAssumption DEF BreakOff, TypeOK
  <2> QED BY <1>0, <1>16, <2>1, AbsentType, PassRecords DEF BreakOff, TypeOK, PassType, unchangedByPass
<1> QED BY <1>1, <1>2, <1>3, <1>4, <1>5, <1>6, <1>7, <1>8, <1>9, <1>10, <1>11, <1>12, <1>13,
           <1>14, <1>15, <1>16 DEF Next, Evaluate

-----------------------------------------------------------------------------
(* Every step keeps the budget. *)

LogGrows == DOMAIN log \subseteq DOMAIN log' /\ \A i \in DOMAIN log : log'[i] = log[i]

\* An automation keeps its ledger when nothing is added to what it fired, and its
\* copies stay, are dropped or are no longer active.
LEMMA KeepsLedger ==
    ASSUME NEW a \in Automation, Ledger(a), TypeOK, TypeOK', IsFiniteSet(Emitting(a)), LogGrows,
           made'[a] = made[a], firedFor'[a] = firedFor[a],
           Emitting(a)' \in { Emitting(a), {} },
           records'[a] = records[a] \/ ~Active(records'[a]),
           held'[a] \in { held[a], Absent }
    PROVE  Ledger(a)'
<1>1. /\ Cardinality(Emitting(a)) \in Nat /\ Cardinality({}) = 0
      /\ Cardinality(Emitting(a))' = Cardinality(Emitting(a)')
  BY FS_CardinalityType, FS_EmptySet
<1>2. Cardinality(Emitting(a)') <= Cardinality(Emitting(a)) /\ Cardinality(Emitting(a)') \in Nat
  BY <1>1
<1> DEFINE n == Cardinality(Emitting(a))
           n2 == Cardinality(Emitting(a)')
<1> HIDE DEF n, n2
<1>3. n \in Nat /\ n2 \in Nat /\ n2 <= n
  BY <1>1, <1>2 DEF n, n2
<1>4. Done(a)' \subseteq Done(a) /\ Done(a) \subseteq DOMAIN log
  BY DEF Done, Ledger
<1>5. made[a] \in Nat /\ SpecOf[a].max_fires \in Nat
  BY AutomationAssumption DEF TypeOK, AutomationSpec
<1>6. ASSUME NEW r \in Record, Covers(a, r) PROVE Covers(a, r)'
  <2>1. made[a] + n <= r.fires /\ r.fires \in Nat
    BY <1>6 DEF Covers, n, Record
  <2>2. made'[a] + n2 <= r.fires
    BY <2>1, <1>3, <1>5
  <2>3. \A i \in Done(a)' : log'[i].start <= r.cursor
    BY <1>4, <1>6 DEF Covers, LogGrows
  <2>4. r.pending \cap Done(a)' = {} /\ r.pending \ { Clock } \subseteq DOMAIN log'
    BY <1>4, <1>6 DEF Covers, LogGrows
  <2> QED BY <1>6, <2>2, <2>3, <2>4 DEF Covers, n2
<1>7. made'[a] + n2 <= SpecOf[a].max_fires
  BY <1>3, <1>5 DEF Ledger, n
<1>8. Done(a)' \subseteq DOMAIN log' /\ Clock \notin firedFor'[a]
  BY <1>4 DEF Ledger, LogGrows
<1>9. Active(records'[a]) => Covers(a, records[a])' /\ records'[a] = records[a]
  BY <1>6 DEF Ledger, TypeOK
<1>10. held'[a] # Absent => held'[a] = held[a] /\ Active(held[a]) /\ Covers(a, held[a])' /\ Emitting(a)' = {}
  BY <1>6 DEF Ledger, TypeOK
<1>11. Active(records'[a]) => Covers(a, records[a])'
  BY <1>9
<1> QED BY <1>7, <1>8, <1>9, <1>10 DEF Ledger, n2, Covers

\* A step that fires nothing and creates nothing keeps the invariant.
LEMMA KeepsBudget ==
    ASSUME BudgetInv, TypeOK', LogGrows, made' = made, firedFor' = firedFor, repeated' = repeated,
           \A i \in DOMAIN log' : log'[i].start <= now',
           \A a \in Automation : Emitting(a)' \in { Emitting(a), {} },
           \A a \in Automation : records'[a] = records[a]
                                 \/ (~Active(records'[a]) /\ records[a] # Absent),
           \A a \in Automation : held'[a] \in { held[a], Absent },
           \A a \in Automation : requests'[a] # "answered" =>
             requests[a] # "answered"
             /\ (cancels'[a].stage = "read" => cancels[a].stage = "read" \/ records[a] # Absent),
           PassSound'
    PROVE  BudgetInv'
<1>1. \A a \in Automation : IsFiniteSet(Emitting(a))
  BY FS_EmptySet DEF BudgetInv, PassSound, Emitting
<1>2. ASSUME NEW a \in Automation PROVE Ledger(a)'
  BY <1>1, KeepsLedger DEF BudgetInv
<1>3. ASSUME NEW a \in Automation, requests'[a] # "answered" PROVE Untouched(a)'
  <2>1. Untouched(a)
    BY <1>3 DEF BudgetInv
  <2>2. Emitting(a)' = {}
    BY <2>1 DEF Untouched
  <2> QED BY <1>3, <2>1, <2>2 DEF Untouched
<1> QED BY <1>2, <1>3 DEF BudgetInv

\* A step that changes neither the log nor a record keeps the invariant.
LEMMA QuietBudget ==
    ASSUME BudgetInv, TypeOK', log' = log, now <= now', made' = made, firedFor' = firedFor,
           repeated' = repeated, records' = records,
           \A a \in Automation : Emitting(a)' \in { Emitting(a), {} },
           \A a \in Automation : held'[a] \in { held[a], Absent },
           \A a \in Automation : requests'[a] # "answered" => requests[a] # "answered",
           \A a \in Automation :
             cancels'[a].stage = "read" => cancels[a].stage = "read" \/ records[a] # Absent,
           PassSound'
    PROVE  BudgetInv'
<1>1. \A i \in DOMAIN log : log[i] \in [ kind : Kind \cup { Fired }, start : Time ]
  <2> DEFINE Entries == [ kind : Kind \cup { Fired }, start : Time ]
  <2>1. log \in Seq(Entries)
    BY DEF BudgetInv, TypeOK
  <2> HIDE DEF Entries
  <2>2. \A i \in DOMAIN log : log[i] \in Entries
    BY <2>1, ElementOfSeq, LenProperties
  <2> QED BY <2>2 DEF Entries
<1>2. \A i \in DOMAIN log : log[i].start <= now /\ log[i].start \in Int
  BY <1>1 DEF BudgetInv, Time
<1>3. now \in Int /\ now' \in Int
  BY DEF BudgetInv, TypeOK, Time
<1>4. LogGrows /\ \A i \in DOMAIN log' : log'[i].start <= now'
  BY <1>2, <1>3 DEF LogGrows
<1>5. \A a \in Automation : records'[a] = records[a]
  OBVIOUS
<1>6. \A a \in Automation : requests'[a] # "answered" =>
        requests[a] # "answered"
        /\ (cancels'[a].stage = "read" => cancels[a].stage = "read" \/ records[a] # Absent)
  OBVIOUS
<1>7. /\ LogGrows /\ \A a \in Automation : records'[a] = records[a]
                                 \/ (~Active(records'[a]) /\ records[a] # Absent)
  BY <1>4, <1>5, Zenon
<1> QED BY <1>4, <1>6, <1>7, KeepsBudget

\* A pass that saves what it made of its copy, and is about to emit "fired" for it,
\* keeps the invariant: the record counts the fires, and its cursor is the clock.
LEMMA SaveBudget ==
    ASSUME BudgetInv, TypeOK', NEW a \in Automation, NEW r \in Record, Save(a, r),
           held[a] # Absent, pass.stage # "emit",
           NEW fired, IsFiniteSet(fired), fired \ { Clock } \subseteq DOMAIN log,
           fired \cap firedFor[a] = {},
           \/ pass'.stage = "next" /\ fired = {}
           \/ pass'.stage = "emit" /\ pass'.of = a /\ pass'.jobs = fired,
           made[a] + Cardinality(fired) <= SpecOf[a].max_fires,
           made[a] + Cardinality(fired) <= r.fires,
           r.cursor = now, r.pending \cap ((firedFor[a] \cup fired) \ { Clock }) = {},
           r.pending \ { Clock } \subseteq DOMAIN log, \A c, d \in r.pending : c = d
    PROVE  BudgetInv'
<1>1. /\ log' = log /\ now' = now /\ made' = made /\ firedFor' = firedFor /\ repeated' = repeated
      /\ requests' = requests /\ cancels' = cancels
      /\ records' = [ records EXCEPT ![a] = r ] /\ held' = [ held EXCEPT ![a] = Absent ]
  BY DEF Save, Dropped, unchangedByPass
<1>2. records'[a] = r /\ held'[a] = Absent
  BY <1>1 DEF BudgetInv, TypeOK
<1>3. \A b \in Automation : Emitting(b) = {} /\ (b # a => Emitting(b)' = {})
  BY DEF Emitting
<1>4. Emitting(a)' = fired
  BY DEF Emitting
<1>5. \A b \in Automation \ { a } : Ledger(b)'
  <2> SUFFICES ASSUME NEW b \in Automation \ { a } PROVE Ledger(b)'
    OBVIOUS
  <2>1. records'[b] = records[b] /\ held'[b] = held[b]
    BY <1>1 DEF BudgetInv, TypeOK
  <2>2. IsFiniteSet(Emitting(b)) /\ Emitting(b)' \in { Emitting(b), {} }
    BY <1>3, FS_EmptySet
  <2> QED BY <1>1, <2>1, <2>2, KeepsLedger DEF BudgetInv, LogGrows
<1>6. Ledger(a)'
  <2>1. Done(a)' = (firedFor[a] \cup fired) \ { Clock }
    BY <1>1, <1>4 DEF Done
  <2>2. Done(a)' \subseteq DOMAIN log /\ Clock \notin firedFor[a]
    BY <2>1 DEF BudgetInv, Ledger, Done
  <2>3. \A i \in Done(a)' : log[i].start <= r.cursor
    BY <2>2 DEF BudgetInv
  <2>4. Covers(a, records[a])'
    BY <1>1, <1>2, <1>4, <2>1, <2>3 DEF Covers
  <2> QED BY <1>1, <1>2, <1>4, <2>2, <2>4 DEF Ledger
<1>7. ASSUME NEW b \in Automation, requests'[b] # "answered" PROVE Untouched(b)'
  <2>1. Untouched(b) /\ b # a
    BY <1>1, <1>7 DEF BudgetInv, Untouched
  <2>2. records'[b] = records[b] /\ held'[b] = held[b] /\ Emitting(b)' = {}
    BY <1>1, <1>3, <2>1 DEF BudgetInv, TypeOK
  <2> QED BY <1>1, <2>1, <2>2 DEF Untouched
<1>8. PassSound'
  BY <1>1 DEF PassSound
<1> QED BY <1>1, <1>5, <1>6, <1>7, <1>8 DEF BudgetInv

\* Contexts that begin after the cursor of a copy that covers the fires are new.
LEMMA ContextsAreNew ==
    ASSUME BudgetInv, NEW a \in Automation, held[a] # Absent, NEW cs,
           \A c \in cs \ { Clock } : c \in DOMAIN log /\ log[c].start > held[a].cursor
    PROVE  cs \cap firedFor[a] = {}
<1>1. Covers(a, held[a]) /\ Clock \notin firedFor[a]
  BY DEF BudgetInv, Ledger
<1>2. held[a] \in Record
  BY DEF BudgetInv, TypeOK
<1> SUFFICES ASSUME NEW c \in cs, c \in firedFor[a] PROVE FALSE
  OBVIOUS
<1>3. c \in Done(a) /\ c \in cs \ { Clock }
  BY <1>1 DEF Done
<1>4. log[c].start <= held[a].cursor /\ log[c].start > held[a].cursor
  BY <1>1, <1>3 DEF Covers
<1>5. log[c].start \in Int /\ held[a].cursor \in Int
  <2>1. c \in DOMAIN log /\ log \in Seq([ kind : Kind \cup { Fired }, start : Time ])
    BY <1>3 DEF BudgetInv, TypeOK
  <2>2. log[c] \in [ kind : Kind \cup { Fired }, start : Time ]
    BY <2>1, ElementOfSeq, LenProperties
  <2> QED BY <1>2, <2>2 DEF Record, Time
<1> QED BY <1>4, <1>5

\* Firing keeps the invariant, as long as the budget is not exceeded and nothing
\* fires that fired before.
LEMMA FireBudget ==
    ASSUME BudgetInv, TypeOK', NEW a \in Automation, held[a] # Absent, pass.stage # "emit",
           NEW fired, IsFiniteSet(fired), Fire(a, fired), fired \ { Clock } \subseteq DOMAIN log,
           fired \cap firedFor[a] = {}, held[a].fires + Cardinality(fired) <= SpecOf[a].max_fires
    PROVE  BudgetInv'
<1> DEFINE r == IF fired = {} THEN MarkEvaluated(held[a])
                ELSE MarkFired(a, held[a], Cardinality(fired))
<1>1. Cardinality(fired) \in Nat
  BY FS_CardinalityType
<1>2. held[a] \in Record /\ now \in Time
  BY DEF BudgetInv, TypeOK
<1>3. /\ r \in Record /\ r.fires = held[a].fires + Cardinality(fired)
      /\ r.cursor = now /\ r.pending = {}
  <2>1. CASE fired = {}
    <3>1. Cardinality(fired) = 0 /\ held[a].fires \in Nat
      BY <1>2, <2>1, FS_EmptySet DEF Record
    <3> QED BY <1>2, <2>1, <3>1, EvaluatedRecord
  <2>2. CASE fired # {}
    BY <1>1, <1>2, <2>2, FiredRecord
  <2> QED BY <2>1, <2>2
<1>4. Save(a, r)
  BY DEF Fire
<1>5. \/ pass'.stage = "next" /\ fired = {}
      \/ pass'.stage = "emit" /\ pass'.of = a /\ pass'.jobs = fired
  BY DEF Fire, Resting
<1>6. made[a] <= held[a].fires /\ made[a] \in Nat /\ held[a].fires \in Nat
  <2>1. made[a] + Cardinality(Emitting(a)) <= held[a].fires /\ Emitting(a) = {}
    BY DEF BudgetInv, Ledger, Covers
  <2> QED BY <1>2, <2>1, FS_EmptySet DEF BudgetInv, TypeOK, Record
<1>7. SpecOf[a].max_fires \in Nat
  BY AutomationAssumption DEF AutomationSpec
<1>8. /\ made[a] + Cardinality(fired) <= SpecOf[a].max_fires
      /\ made[a] + Cardinality(fired) <= r.fires
  <2> HIDE DEF r
  <2> QED BY <1>1, <1>3, <1>6, <1>7
<1> HIDE DEF r
<1> QED BY <1>3, <1>4, <1>5, <1>8, SaveBudget

\* Expiry of a record whose time or budget is over.
LEMMA ExpireBudget ==
    ASSUME BudgetInv, TypeOK', NEW a \in Automation, Expire(a) PROVE BudgetInv'
<1> DEFINE e == MarkEvaluated(held[a])
           r == [ e EXCEPT !.state = "expired" ]
<1>1. held[a] \in Record /\ now \in Time /\ held[a] # Absent /\ pass.stage = "next"
  BY DEF Expire, InHand, BudgetInv, TypeOK
<1>2. e \in Record /\ e.fires = held[a].fires /\ e.cursor = now /\ e.pending = {}
  BY <1>1, EvaluatedRecord
<1>3. Save(a, r)
  BY DEF Expire
<1> HIDE DEF e
<1>4. r \in Record /\ r.fires = held[a].fires /\ r.cursor = now /\ r.pending = {}
  BY <1>2 DEF Record
<1>5. /\ made[a] + Cardinality({}) <= SpecOf[a].max_fires
      /\ made[a] + Cardinality({}) <= held[a].fires
  <2>1. Emitting(a) = {}
    BY <1>1 DEF Emitting
  <2> QED BY <1>1, <2>1 DEF BudgetInv, Ledger, Covers
<1>6. pass'.stage = "next"
  BY <1>1 DEF Expire
<1> HIDE DEF r
<1>7. IsFiniteSet({}) /\ {} \ { Clock } \subseteq DOMAIN log /\ {} \cap firedFor[a] = {}
  BY FS_EmptySet
<1> QED BY <1>1, <1>3, <1>4, <1>5, <1>6, <1>7, SaveBudget

\* A recheck fires at most once, and only what has not fired.
LEMMA RecheckBudget ==
    ASSUME BudgetInv, TypeOK', NEW a \in Automation, Recheck(a) PROVE BudgetInv'
<1>1. /\ held[a] \in Record /\ held[a] # Absent /\ pass.stage = "next"
      /\ held[a].fires < SpecOf[a].max_fires /\ SpecOf[a].max_fires \in Nat
  <2>1. held[a] \in Record /\ held[a] # Absent /\ pass.stage = "next"
    BY DEF Recheck, Evaluated, InHand, BudgetInv, TypeOK
  <2>2. held[a].fires \in Nat /\ SpecOf[a].max_fires \in Nat
    BY <2>1, AutomationAssumption DEF Record, AutomationSpec
  <2>3. ~(held[a].fires >= SpecOf[a].max_fires)
    BY DEF Recheck, Evaluated, IsExpired
  <2> QED BY <2>1, <2>2, <2>3
<1>2. Covers(a, held[a]) /\ Emitting(a) = {} /\ Done(a) \subseteq DOMAIN log /\ Clock \notin firedFor[a]
  BY <1>1 DEF BudgetInv, Ledger
<1>3. PICK fired \in SUBSET held[a].pending : Fire(a, fired)
  BY DEF Recheck, Matching
<1>4. IsFiniteSet(fired) /\ Cardinality(fired) \in Nat /\ Cardinality(fired) <= 1
  <2>1. CASE fired = {}
    BY <2>1, FS_EmptySet
  <2>2. CASE fired # {}
    <3>1. PICK c : fired = { c }
      BY <1>2, <2>2 DEF Covers
    <3>2. IsFiniteSet({ c }) /\ Cardinality({ c }) = 1
      BY FS_Singleton
    <3> QED BY <3>1, <3>2
  <2> QED BY <2>1, <2>2
<1>5. fired \cap firedFor[a] = {}
  BY <1>2 DEF Covers, Done
<1>6. fired \ { Clock } \subseteq DOMAIN log
  BY <1>2 DEF Covers
<1>7. held[a].fires + Cardinality(fired) <= SpecOf[a].max_fires
  BY <1>1, <1>4 DEF Record
<1> QED BY <1>1, <1>3, <1>4, <1>5, <1>6, <1>7, FireBudget

\* A judgement fires within the budget, for events that begin after the cursor.
LEMMA JudgeBudget ==
    ASSUME BudgetInv, TypeOK', NEW a \in Automation, Judge(a) PROVE BudgetInv'
<1>1. /\ held[a] \in Record /\ held[a] # Absent /\ pass.stage = "judge" /\ pass.of = a
      /\ SpecOf[a].max_fires \in Nat
  BY AutomationAssumption DEF Judge, BudgetInv, TypeOK, PassSound, AutomationSpec
<1>2. PICK fired \in SUBSET pass.contexts :
        Fire(a, fired) /\ Cardinality(fired) <= Remaining(a, held[a])
  BY DEF Judge, Matching
<1>3. /\ IsFiniteSet(fired) /\ Cardinality(fired) \in Nat
      /\ \A c \in fired \ { Clock } : c \in DOMAIN log /\ log[c].start > held[a].cursor
  BY <1>1, <1>2, FS_Subset, FS_CardinalityType DEF BudgetInv, PassSound
<1>4. fired \cap firedFor[a] = {}
  BY <1>1, <1>3, ContextsAreNew
<1>5. held[a].fires + Cardinality(fired) <= SpecOf[a].max_fires
  BY <1>1, <1>2, <1>3 DEF Remaining, Record
<1>6. fired \ { Clock } \subseteq DOMAIN log
  BY <1>3
<1> QED BY <1>1, <1>2, <1>3, <1>4, <1>5, <1>6, FireBudget

\* What is kept for a recheck begins after the cursor, and so has not fired.
LEMMA PostponeBudget ==
    ASSUME BudgetInv, TypeOK', NEW a \in Automation, Postpone(a) PROVE BudgetInv'
<1>1. /\ held[a] \in Record /\ held[a] # Absent /\ pass.stage = "judge" /\ pass.of = a
      /\ now \in Time /\ pass.contexts \in SUBSET Context
  BY DEF Postpone, BudgetInv, TypeOK, PassSound
<1>2. \A c \in pass.contexts \ { Clock } : c \in DOMAIN log /\ log[c].start > held[a].cursor
  BY <1>1 DEF BudgetInv, PassSound
<1>3. pass.contexts \cap firedFor[a] = {}
  BY <1>1, <1>2, ContextsAreNew
<1>4. PICK r \in Record :
        /\ Save(a, r) /\ r.fires = held[a].fires /\ r.cursor = now
        /\ r.pending \subseteq pass.contexts /\ \A c, d \in r.pending : c = d
  <2>1. CASE \E c \in pass.contexts : Save(a, MarkPendingRecheck(a, held[a], c))
    <3>1. PICK c \in pass.contexts : Save(a, MarkPendingRecheck(a, held[a], c))
      BY <2>1
    <3> DEFINE r == MarkPendingRecheck(a, held[a], c)
    <3>2. /\ r \in Record /\ r.fires = held[a].fires /\ r.cursor = now /\ r.pending = { c }
      BY <1>1, PendingRecord
    <3> QED BY <3>1, <3>2
  <2>2. CASE Save(a, MarkEvaluated(held[a]))
    BY <1>1, <2>2, EvaluatedRecord
  <2> QED BY <2>1, <2>2 DEF Postpone
<1>5. /\ made[a] + Cardinality({}) <= SpecOf[a].max_fires
      /\ made[a] + Cardinality({}) <= r.fires
  <2>1. Emitting(a) = {}
    BY <1>1 DEF Emitting
  <2> QED BY <1>1, <1>4, <2>1 DEF BudgetInv, Ledger, Covers
<1>6. pass'.stage = "next"
  BY DEF Postpone, Resting
<1>7. /\ r.pending \cap ((firedFor[a] \cup {}) \ { Clock }) = {}
      /\ r.pending \ { Clock } \subseteq DOMAIN log
  BY <1>2, <1>3, <1>4
<1>8. IsFiniteSet({}) /\ {} \ { Clock } \subseteq DOMAIN log /\ {} \cap firedFor[a] = {}
  BY FS_EmptySet
<1> QED BY <1>1, <1>4, <1>5, <1>6, <1>7, <1>8, SaveBudget

\* A job that is created is one fire fewer to come.
LEMMA EmitBudget ==
    ASSUME BudgetInv, TypeOK', NEW c \in pass.jobs, Emit(c) PROVE BudgetInv'
<1>0. PICK a \in Automation : a = pass.of
  BY DEF Emit, BudgetInv, PassSound
<1>1. /\ pass.stage = "emit" /\ a = pass.of /\ IsFiniteSet(pass.jobs)
      /\ pass.jobs \cap firedFor[a] = {} /\ Emitting(a) = pass.jobs /\ held[a] = Absent
  <2>1. pass.stage = "emit" /\ Emitting(a) = pass.jobs
    BY <1>0 DEF Emit, Emitting
  <2> QED BY <1>0, <2>1 DEF BudgetInv, PassSound, Ledger
<1>2. /\ records' = records /\ held' = held /\ requests' = requests /\ cancels' = cancels
      /\ now' = now /\ made'[a] = made[a] + 1 /\ repeated' = repeated
      /\ \A b \in Automation \ { a } : made'[b] = made[b] /\ firedFor'[b] = firedFor[b]
      /\ firedFor'[a] = firedFor[a] \cup ({ c } \ { Clock })
  BY <1>1 DEF Emit, BudgetInv, TypeOK, unchangedByPass
<1>3. Emitting(a)' = Emitting(a) \ { c } /\ \A b \in Automation \ { a } : Emitting(b)' = Emitting(b)
  <2>1. CASE pass.jobs = { c }
    <3>1. pass' = [ Resting EXCEPT !.stage = "next" ]
      BY <2>1 DEF Emit
    <3>2. pass'.stage = "next"
      BY <3>1 DEF Resting
    <3> QED BY <1>1, <2>1, <3>2 DEF Emitting
  <2>2. CASE pass.jobs # { c }
    <3>1. pass' = [ pass EXCEPT !.jobs = @ \ { c } ] /\ pass \in PassType
      BY <2>2 DEF Emit, BudgetInv, TypeOK, PassType
    <3>2. pass'.stage = pass.stage /\ pass'.of = a /\ pass'.jobs = pass.jobs \ { c }
      BY <1>1, <3>1 DEF PassType
    <3> QED BY <1>1, <3>2 DEF Emitting
  <2> QED BY <2>1, <2>2
<1>4. LogGrows /\ \A i \in DOMAIN log' : log'[i].start <= now'
  <2>1. now \in Time /\ log' = Append(log, [ kind |-> Fired, start |-> now ])
    BY DEF Emit, BudgetInv, TypeOK
  <2>2. LogGrows /\ \A i \in DOMAIN log' \ DOMAIN log : log'[i].start = now
    BY <2>1, LogType DEF LogGrows, BudgetInv
  <2> QED BY <1>2, <2>1, <2>2 DEF LogGrows, BudgetInv, Time
<1>5. ASSUME NEW b \in Automation \ { a } PROVE Ledger(b)'
  <2>1. IsFiniteSet(Emitting(b))
    BY <1>1, FS_EmptySet DEF Emitting
  <2> QED BY <1>2, <1>3, <1>4, <1>5, <2>1, KeepsLedger DEF BudgetInv
<1>6. Ledger(a)'
  <2> DEFINE n == Cardinality(Emitting(a))
             n2 == Cardinality(Emitting(a)')
  <2>1. n \in Nat /\ n2 \in Nat /\ n2 = n - 1
    BY <1>1, <1>3, FS_RemoveElement, FS_CardinalityType
  <2> HIDE DEF n, n2
  <2>2. made[a] \in Nat /\ made'[a] + n2 = made[a] + n
    BY <1>1, <1>2, <2>1 DEF BudgetInv, TypeOK
  <2>3. Done(a)' = Done(a)
    BY <1>1, <1>2, <1>3 DEF Done
  <2>4. Ledger(a) /\ records[a] \in Record
    BY <1>1 DEF BudgetInv, TypeOK
  <2>5. Active(records[a]) => Covers(a, records[a])'
    <3> SUFFICES ASSUME Active(records[a]) PROVE Covers(a, records[a])'
      OBVIOUS
    <3>1. Covers(a, records[a]) /\ Done(a) \subseteq DOMAIN log
      BY <2>4 DEF Ledger
    <3>2. made'[a] + n2 <= records[a].fires
      BY <2>2, <3>1 DEF Covers, n
    <3>3. \A i \in Done(a)' : log'[i].start <= records[a].cursor
      BY <1>4, <2>3, <3>1 DEF Covers, LogGrows
    <3>4. records[a].pending \cap Done(a)' = {} /\ records[a].pending \ { Clock } \subseteq DOMAIN log'
      BY <1>4, <2>3, <3>1 DEF Covers, LogGrows
    <3> QED BY <1>2, <3>1, <3>2, <3>3, <3>4 DEF Covers, n2
  <2>6. made'[a] + n2 <= SpecOf[a].max_fires
    BY <2>2, <2>4 DEF Ledger, n
  <2>7. Done(a)' \subseteq DOMAIN log' /\ Clock \notin firedFor'[a]
    BY <1>2, <1>4, <2>3, <2>4 DEF Ledger, LogGrows
  <2> QED BY <1>1, <1>2, <2>5, <2>6, <2>7 DEF Ledger, n2
<1>7. ASSUME NEW b \in Automation, requests'[b] # "answered" PROVE Untouched(b)'
  <2>1. Untouched(b)
    BY <1>2, <1>7 DEF BudgetInv
  <2>2. b # a
    BY <1>1, <2>1 DEF Untouched
  <2> QED BY <1>2, <1>3, <2>1, <2>2 DEF Untouched
<1>8. PassSound'
  <2>1. pass'.stage # "judge"
    BY <1>1 DEF Emit, Resting, BudgetInv, TypeOK
  <2>2. ASSUME pass'.stage = "emit"
        PROVE  pass'.of = a /\ pass'.jobs = pass.jobs \ { c }
    BY <1>1, <2>2 DEF Emit, Resting, BudgetInv, TypeOK
  <2>3. IsFiniteSet(pass.jobs \ { c })
    BY <1>1, FS_RemoveElement
  <2> QED BY <1>1, <1>2, <2>1, <2>2, <2>3 DEF PassSound
<1>9. \A b \in Automation : Ledger(b)'
  BY <1>5, <1>6
<1> QED BY <1>2, <1>4, <1>7, <1>8, <1>9 DEF BudgetInv

\* Every step keeps the budget.
LEMMA StepBudget == ASSUME BudgetInv, Next PROVE BudgetInv'
<1>0. TypeOK /\ TypeOK'
  BY StepType DEF BudgetInv
<1>1. CASE Tick
  <2>1. /\ log' = log /\ now <= now' /\ made' = made /\ firedFor' = firedFor /\ repeated' = repeated
        /\ records' = records /\ pass' = pass /\ held' = held /\ requests' = requests
        /\ cancels' = cancels
    BY <1>0, <1>1 DEF Tick, TypeOK, Time
  <2>2. PassSound' /\ \A a \in Automation : Emitting(a)' = Emitting(a)
    BY <2>1 DEF PassSound, Emitting, BudgetInv
  <2> QED BY <1>0, <2>1, <2>2, QuietBudget
<1>2. ASSUME NEW kind \in Kind, NEW start \in Time, AppendEvent(kind, start) PROVE BudgetInv'
  <2>1. start <= now /\ log' = Append(log, [ kind |-> kind, start |-> start ])
    BY <1>2 DEF AppendEvent
  <2>2. LogGrows /\ \A i \in DOMAIN log' \ DOMAIN log : log'[i].start = start
    BY <1>0, <2>1, LogType DEF LogGrows
  <2>3. /\ now' = now /\ records' = records /\ held' = held /\ pass' = pass /\ made' = made
        /\ firedFor' = firedFor /\ repeated' = repeated /\ requests' = requests /\ cancels' = cancels
    BY <1>2 DEF AppendEvent
  <2>4. \A i \in DOMAIN log' : log'[i].start <= now'
    BY <2>1, <2>2, <2>3 DEF LogGrows, BudgetInv
  <2>5. PassSound'
    BY <2>2, <2>3 DEF PassSound, BudgetInv, LogGrows
  <2>6. \A a \in Automation : Emitting(a)' = Emitting(a)
    BY <2>3 DEF Emitting
  <2>7. /\ \A a \in Automation : records'[a] = records[a] /\ held'[a] = held[a]
        /\ \A a \in Automation : requests'[a] = requests[a] /\ cancels'[a] = cancels[a]
    BY <2>3
  <2> QED BY <1>0, <2>2, <2>3, <2>4, <2>5, <2>6, <2>7, KeepsBudget DEF Active
<1>3. ASSUME NEW a \in Automation, FindByKey(a) PROVE BudgetInv'
  <2>1. \A b \in Automation : requests'[b] # "answered" => requests[b] # "answered"
    BY <1>0, <1>3 DEF FindByKey, TypeOK
  <2>2. /\ log' = log /\ now' = now /\ made' = made /\ firedFor' = firedFor /\ repeated' = repeated
        /\ records' = records /\ pass' = pass /\ held' = held /\ cancels' = cancels
    BY <1>3 DEF FindByKey, unchangedByRequest
  <2>3. PassSound' /\ \A b \in Automation : Emitting(b)' = Emitting(b)
    BY <2>2 DEF PassSound, Emitting, BudgetInv
  <2>4. now <= now'
    BY <1>0, <2>2 DEF TypeOK, Time
  <2> QED BY <1>0, <2>1, <2>2, <2>3, <2>4, QuietBudget
<1>4. ASSUME NEW a \in Automation, Insert(a) PROVE BudgetInv'
  <2> DEFINE fresh == [ Absent EXCEPT !.state = "active", !.cursor = now ]
  <2>1. /\ fresh.fires = 0 /\ fresh.pending = {}
    BY DEF Absent
  <2>2. /\ now' = now /\ log' = log /\ held' = held /\ pass' = pass /\ made' = made
        /\ firedFor' = firedFor /\ repeated' = repeated /\ cancels' = cancels
        /\ \A b \in Automation \ { a } : requests'[b] = requests[b] /\ records'[b] = records[b]
        /\ records'[a] \in { records[a], fresh } /\ requests'[a] = "answered"
    BY <1>0, <1>4 DEF Insert, unchangedByRequest, TypeOK
  <2>3. Untouched(a)
    BY <1>4 DEF Insert, BudgetInv
  <2>4. ASSUME NEW b \in Automation PROVE Emitting(b)' = Emitting(b) /\ IsFiniteSet(Emitting(b))
    BY <2>2, FS_EmptySet DEF Emitting, BudgetInv, PassSound
  <2>5. ASSUME NEW b \in Automation \ { a } PROVE Ledger(b)'
    BY <1>0, <2>2, <2>4, KeepsLedger DEF BudgetInv, LogGrows
  <2>6. Ledger(a)'
    <3>1. Emitting(a)' = {} /\ made'[a] = 0 /\ Done(a)' = {} /\ held'[a] = Absent
      BY <2>2, <2>3, <2>4 DEF Untouched, Done
    <3>2. records'[a] \in { Absent, fresh } /\ ~Active(Absent)
      BY <2>2, <2>3, AbsentType DEF Untouched
    <3>3. Active(records'[a]) => records'[a].fires = 0 /\ records'[a].pending = {}
      BY <2>1, <3>2
    <3>4. Cardinality({}) = 0 /\ 0 <= SpecOf[a].max_fires
      BY FS_EmptySet, AutomationAssumption DEF AutomationSpec
    <3>5. Active(records'[a]) => Covers(a, records[a])'
      BY <3>1, <3>3, <3>4 DEF Covers
    <3>6. Clock \notin firedFor'[a]
      BY <2>2, <2>3 DEF Untouched
    <3> QED BY <3>1, <3>4, <3>5, <3>6 DEF Ledger, Active
  <2>7. ASSUME NEW b \in Automation, requests'[b] # "answered" PROVE Untouched(b)'
    BY <2>2, <2>4, <2>7 DEF BudgetInv, Untouched
  <2>8. PassSound'
    BY <2>2 DEF PassSound, BudgetInv
  <2>9. \A b \in Automation : Ledger(b)'
    BY <2>5, <2>6
  <2> QED BY <1>0, <2>2, <2>7, <2>8, <2>9 DEF BudgetInv
<1>5. ASSUME NEW a \in Automation, BeginCancel(a) PROVE BudgetInv'
  <2>1. \A b \in Automation : cancels'[b].stage = "read" => cancels[b].stage = "read" \/ records[b] # Absent
    BY <1>0, <1>5 DEF BeginCancel, TypeOK
  <2>2. /\ log' = log /\ now' = now /\ made' = made /\ firedFor' = firedFor /\ repeated' = repeated
        /\ records' = records /\ pass' = pass /\ held' = held /\ requests' = requests
    BY <1>5 DEF BeginCancel, unchangedByRequest
  <2>3. PassSound' /\ \A b \in Automation : Emitting(b)' = Emitting(b)
    BY <2>2 DEF PassSound, Emitting, BudgetInv
  <2>4. now <= now'
    BY <1>0, <2>2 DEF TypeOK, Time
  <2> QED BY <1>0, <2>1, <2>2, <2>3, <2>4, QuietBudget
<1>6. ASSUME NEW a \in Automation, Cancel(a) PROVE BudgetInv'
  <2>1. requests[a] = "answered"
    BY <1>6 DEF Cancel, BudgetInv, Untouched
  <2> DEFINE r == [ cancels[a].copy EXCEPT !.state = "cancelled" ]
  <2>2. ~Active(r)
    BY <1>0, StateRecord DEF TypeOK, Active
  <2>3. /\ now' = now /\ log' = log /\ held' = held /\ pass' = pass /\ made' = made
        /\ firedFor' = firedFor /\ repeated' = repeated /\ requests' = requests
        /\ \A b \in Automation \ { a } : records'[b] = records[b] /\ cancels'[b] = cancels[b]
        /\ records'[a] = r
    BY <1>0, <1>6 DEF Cancel, unchangedByRequest, TypeOK
  <2> HIDE DEF r
  <2>4. ASSUME NEW b \in Automation PROVE Emitting(b)' = Emitting(b) /\ IsFiniteSet(Emitting(b))
    BY <2>3, FS_EmptySet DEF Emitting, BudgetInv, PassSound
  <2>5. ASSUME NEW b \in Automation PROVE Ledger(b)'
    BY <1>0, <2>2, <2>3, <2>4, KeepsLedger DEF BudgetInv, LogGrows
  <2>6. ASSUME NEW b \in Automation, requests'[b] # "answered" PROVE Untouched(b)'
    BY <2>1, <2>3, <2>4, <2>6 DEF BudgetInv, Untouched
  <2>7. PassSound'
    BY <2>3 DEF PassSound, BudgetInv
  <2> QED BY <1>0, <2>3, <2>5, <2>6, <2>7 DEF BudgetInv
<1>7. CASE Begin
  <2>1. /\ now' = now /\ log' = log /\ records' = records /\ made' = made /\ firedFor' = firedFor
        /\ repeated' = repeated /\ requests' = requests /\ cancels' = cancels
        /\ pass.stage = "rest" /\ pass'.stage = "next"
    BY <1>7 DEF Begin, Resting, unchangedByPass
  <2>2. \A a \in Automation : held'[a] = Absent \/ (held'[a] = records[a] /\ Active(records[a]))
    <3>1. held' = [ a \in Automation |->
                      IF a \in { b \in Automation : Active(records[b]) } THEN records[a] ELSE Absent ]
      BY <1>7 DEF Begin, Listed
    <3> SUFFICES ASSUME NEW a \in Automation
                 PROVE  held'[a] = Absent \/ (held'[a] = records[a] /\ Active(records[a]))
      OBVIOUS
    <3>2. held'[a] = IF a \in { b \in Automation : Active(records[b]) } THEN records[a] ELSE Absent
      BY <3>1
    <3> QED BY <3>2 DEF Active
  <2>3. \A a \in Automation : Emitting(a)' = {} /\ Emitting(a) = {}
    BY <2>1 DEF Emitting
  <2>4. ASSUME NEW a \in Automation PROVE Ledger(a)'
    <3>1. Ledger(a)
      BY DEF BudgetInv
    <3> QED BY <2>1, <2>2, <2>3, <3>1 DEF Ledger, Covers, Done
  <2>5. ASSUME NEW a \in Automation, requests'[a] # "answered" PROVE Untouched(a)'
    BY <2>1, <2>2, <2>3, <2>5, AbsentType DEF BudgetInv, Untouched
  <2>6. PassSound'
    BY <2>1 DEF PassSound
  <2> QED BY <1>0, <2>1, <2>4, <2>5, <2>6 DEF BudgetInv
<1>8. CASE End
  <2>1. pass'.stage = "rest"
    BY <1>8 DEF End, Resting
  <2>2. PassSound' /\ \A a \in Automation : Emitting(a)' = {}
    BY <2>1 DEF PassSound, Emitting
  <2>8. /\ log' = log /\ now' = now /\ made' = made /\ firedFor' = firedFor /\ repeated' = repeated
        /\ records' = records /\ requests' = requests /\ cancels' = cancels /\ held' = held
    BY <1>8 DEF End, unchangedByPass
  <2>9. now <= now'
    BY <1>0, <2>8 DEF TypeOK, Time
  <2> QED BY <1>0, <2>2, <2>8, <2>9, QuietBudget
<1>9. ASSUME NEW a \in Automation, Expire(a) PROVE BudgetInv'
  BY <1>0, <1>9, ExpireBudget
<1>10. ASSUME NEW a \in Automation, LeaveAlone(a) PROVE BudgetInv'
  <2>1. \A b \in Automation : held'[b] \in { held[b], Absent }
    BY <1>0, <1>10 DEF LeaveAlone, Dropped, TypeOK
  <2>2. PassSound' /\ \A b \in Automation : Emitting(b)' = Emitting(b)
    BY <1>10 DEF LeaveAlone, Evaluated, InHand, PassSound, Emitting
  <2>8. /\ log' = log /\ now' = now /\ made' = made /\ firedFor' = firedFor /\ repeated' = repeated
        /\ records' = records /\ requests' = requests /\ cancels' = cancels
    BY <1>10 DEF LeaveAlone, unchangedByPass
  <2>9. now <= now'
    BY <1>0, <2>8 DEF TypeOK, Time
  <2> QED BY <1>0, <2>1, <2>2, <2>8, <2>9, QuietBudget
<1>11. ASSUME NEW a \in Automation, Recheck(a) PROVE BudgetInv'
  BY <1>0, <1>11, RecheckBudget
<1>12. ASSUME NEW a \in Automation, Load(a) PROVE BudgetInv'
  <2>1. /\ pass.stage = "next" /\ held[a] # Absent /\ pass'.stage = "judge" /\ pass'.of = a
        /\ pass'.contexts = Contexts(a, held[a]) /\ held' = held /\ log' = log
    BY <1>12 DEF Load, Evaluated, InHand, Resting
  <2>2. PassSound'
    BY <1>0, <2>1, ContextsType DEF PassSound, TypeOK
  <2>3. \A b \in Automation : Emitting(b)' = Emitting(b)
    BY <2>1 DEF Emitting
  <2>8. /\ log' = log /\ now' = now /\ made' = made /\ firedFor' = firedFor /\ repeated' = repeated
        /\ records' = records /\ requests' = requests /\ cancels' = cancels /\ held' = held
    BY <1>12 DEF Load, unchangedByPass
  <2>9. now <= now'
    BY <1>0, <2>8 DEF TypeOK, Time
  <2> QED BY <1>0, <2>2, <2>3, <2>8, <2>9, QuietBudget
<1>13. ASSUME NEW a \in Automation, Judge(a) PROVE BudgetInv'
  BY <1>0, <1>13, JudgeBudget
<1>14. ASSUME NEW a \in Automation, Postpone(a) PROVE BudgetInv'
  BY <1>0, <1>14, PostponeBudget
<1>15. ASSUME NEW c \in pass.jobs, Emit(c) PROVE BudgetInv'
  BY <1>0, <1>15, EmitBudget
<1>16. CASE BreakOff
  <2>1. pass'.stage = "rest"
    BY <1>16 DEF BreakOff, Resting
  <2>2. PassSound' /\ \A a \in Automation : Emitting(a)' = {}
    BY <2>1 DEF PassSound, Emitting
  <2>3. \A a \in Automation : held'[a] = Absent
    BY <1>16 DEF BreakOff
  <2>8. /\ log' = log /\ now' = now /\ made' = made /\ firedFor' = firedFor /\ repeated' = repeated
        /\ records' = records /\ requests' = requests /\ cancels' = cancels
    BY <1>16 DEF BreakOff, unchangedByPass
  <2>9. now <= now'
    BY <1>0, <2>8 DEF TypeOK, Time
  <2> QED BY <1>0, <2>2, <2>3, <2>8, <2>9, QuietBudget
<1> QED BY <1>1, <1>2, <1>3, <1>4, <1>5, <1>6, <1>7, <1>8, <1>9, <1>10, <1>11, <1>12, <1>13,
           <1>14, <1>15, <1>16 DEF Next, Evaluate

\* Nothing has fired at the beginning.
LEMMA InitBudget == Init => BudgetInv
<1> SUFFICES ASSUME Init PROVE BudgetInv
  OBVIOUS
<1>1. TypeOK
  BY InitType
<1>2. pass.stage = "rest" /\ DOMAIN log = {}
  BY DEF Init, Resting
<1>3. \A a \in Automation :
        /\ Emitting(a) = {} /\ Done(a) = {} /\ firedFor[a] = {} /\ made[a] = 0
        /\ records[a] = Absent /\ held[a] = Absent /\ cancels[a].stage = "none"
  <2> SUFFICES ASSUME NEW a \in Automation
               PROVE  /\ Emitting(a) = {} /\ Done(a) = {} /\ firedFor[a] = {} /\ made[a] = 0
                      /\ records[a] = Absent /\ held[a] = Absent /\ cancels[a].stage = "none"
    OBVIOUS
  <2>1. Emitting(a) = {} /\ firedFor[a] = {}
    BY <1>2 DEF Emitting, Init
  <2> QED BY <2>1 DEF Done, Init
<1>4. Cardinality({}) = 0 /\ \A a \in Automation : 0 <= SpecOf[a].max_fires
  BY FS_EmptySet, AutomationAssumption DEF AutomationSpec
<1>5. ASSUME NEW a \in Automation PROVE Ledger(a) /\ Untouched(a)
  <2>1. ~Active(records[a])
    BY <1>3, AbsentType
  <2>2. made[a] + Cardinality(Emitting(a)) <= SpecOf[a].max_fires
    <3>1. Emitting(a) = {} /\ made[a] = 0
      BY <1>3
    <3>2. Cardinality(Emitting(a)) = 0
      BY <1>4, <3>1
    <3> QED BY <1>4, <3>1, <3>2
  <2> QED BY <1>3, <2>1, <2>2 DEF Ledger, Untouched
<1> QED BY <1>1, <1>2, <1>5 DEF BudgetInv, PassSound, Init

LEMMA Budget == Spec => []BudgetInv
<1>1. BudgetInv /\ UNCHANGED vars => BudgetInv'
  BY DEF BudgetInv, TypeOK, Ledger, Covers, Done, Emitting, Untouched, PassSound, vars
<1>2. BudgetInv /\ [Next]_vars => BudgetInv'
  BY <1>1, StepBudget
<1> QED BY InitBudget, <1>2, PTL DEF Spec

\* In every state of the automations the variables have their types: a record that
\* a pass, a cancellation or a creation writes back is always a whole record.
THEOREM TypesHold == Spec => []TypeOK
<1>1. BudgetInv => TypeOK
  BY DEF BudgetInv
<1> QED BY <1>1, Budget, PTL

\* For any rules, an automation creates at most max_fires jobs and never fires twice
\* for one event (mark_fired, trigger_contexts and jobs_for_actions of
\* run_stored_automations), whatever cancellations and crashes cut into its passes.
THEOREM BudgetIsKept == Spec => []WithinBudget
<1>1. BudgetInv => WithinBudget
  <2> SUFFICES ASSUME BudgetInv, NEW a \in Automation PROVE made[a] <= SpecOf[a].max_fires
    BY DEF BudgetInv, WithinBudget
  <2>1. IsFiniteSet(Emitting(a)) /\ Ledger(a) /\ made[a] \in Nat
    BY FS_EmptySet DEF BudgetInv, PassSound, Emitting, TypeOK
  <2>2. Cardinality(Emitting(a)) \in Nat /\ SpecOf[a].max_fires \in Nat
    BY <2>1, FS_CardinalityType, AutomationAssumption DEF AutomationSpec
  <2>3. made[a] + Cardinality(Emitting(a)) <= SpecOf[a].max_fires
    BY <2>1 DEF Ledger
  <2> QED BY <2>1, <2>2, <2>3
<1> QED BY <1>1, Budget, PTL

-----------------------------------------------------------------------------
(* Every step keeps one active automation per agent task. *)

\* A step that makes nothing active, but for what it revives, keeps it.
LEMMA NoneActivated ==
    ASSUME OneActivePerSource, revived \subseteq revived',
           \A a \in Automation \ revived' : Active(records'[a]) => Active(records[a])
    PROVE  OneActivePerSource'
BY DEF OneActivePerSource

\* A pass that saves a record makes it active only over itself or over its
\* cancellation.
LEMMA SaveSource ==
    ASSUME TypeOK, SourceInv, NEW a \in Automation, NEW r \in Record, Save(a, r), held[a] # Absent
    PROVE  SourceInv'
<1>1. /\ records' = [ records EXCEPT ![a] = r ] /\ held' = [ held EXCEPT ![a] = Absent ]
      /\ revived' = IF records[a].state = "cancelled" /\ Active(r) THEN revived \cup { a } ELSE revived
  BY DEF Save, Dropped
<1>2. records[a].state \in { "active", "cancelled" }
  BY DEF SourceInv, HeldIsListed
<1>3. \A b \in Automation \ revived' : Active(records'[b]) => Active(records[b])
  BY <1>1, <1>2 DEF Active, TypeOK
<1>4. revived \subseteq revived'
  BY <1>1
<1>5. HeldIsListed'
  <2> SUFFICES ASSUME NEW b \in Automation, held'[b] # Absent
               PROVE  Active(held'[b]) /\ records'[b].state \in { "active", "cancelled" }
    BY DEF HeldIsListed, Active
  <2>1. b # a /\ held'[b] = held[b] /\ records'[b] = records[b]
    BY <1>1 DEF TypeOK
  <2> QED BY <2>1 DEF SourceInv, HeldIsListed
<1> QED BY <1>3, <1>4, <1>5, NoneActivated DEF SourceInv

\* A step that changes no record keeps it.
LEMMA QuietSource ==
    ASSUME SourceInv, records' = records, revived' = revived,
           \A a \in Automation : held'[a] \in { held[a], Absent }
    PROVE  SourceInv'
<1>1. OneActivePerSource'
  BY DEF SourceInv, OneActivePerSource
<1>2. HeldIsListed'
  BY DEF SourceInv, HeldIsListed, Active
<1> QED BY <1>1, <1>2 DEF SourceInv

LEMMA StepSource == ASSUME BudgetInv, SourceInv, Next PROVE SourceInv'
<1>0. TypeOK /\ PassSound
  BY DEF BudgetInv
<1>1. CASE Tick
  BY <1>1, QuietSource DEF Tick
<1>2. ASSUME NEW kind \in Kind, NEW start \in Time, AppendEvent(kind, start) PROVE SourceInv'
  BY <1>2, QuietSource DEF AppendEvent
<1>3. ASSUME NEW a \in Automation, FindByKey(a) PROVE SourceInv'
  BY <1>3, QuietSource DEF FindByKey, unchangedByRequest
<1>4. ASSUME NEW a \in Automation, Insert(a) PROVE SourceInv'
  <2>1. CASE SourceTaken(a)
    BY <1>4, <2>1, QuietSource DEF Insert, unchangedByRequest
  <2>2. CASE ~SourceTaken(a)
    <3>1. /\ held' = held /\ revived' = revived
          /\ \A b \in Automation \ { a } : records'[b] = records[b]
      BY <1>0, <1>4, <2>2 DEF Insert, unchangedByRequest, TypeOK
    <3>2. held[a] = Absent
      BY <1>4 DEF Insert, BudgetInv, Untouched
    <3>3. HeldIsListed'
      BY <3>1, <3>2 DEF SourceInv, HeldIsListed, Active
    <3>4. \A b \in Automation : Active(records[b]) =>
            SpecOf[a].source = None \/ SpecOf[b].source # SpecOf[a].source
      BY <2>2 DEF SourceTaken
    <3>5. OneActivePerSource'
      <4> SUFFICES ASSUME NEW b \in Automation \ revived, NEW c \in Automation \ revived,
                          Active(records'[b]), Active(records'[c]),
                          SpecOf[b].source = SpecOf[c].source, SpecOf[b].source # None
                   PROVE  b = c
        BY <3>1 DEF OneActivePerSource, Active
      <4>1. CASE b # a /\ c # a
        BY <3>1, <4>1 DEF SourceInv, OneActivePerSource
      <4>2. CASE b = a \/ c = a
        BY <3>1, <3>4, <4>2
      <4> QED BY <4>1, <4>2
    <3> QED BY <3>3, <3>5 DEF SourceInv
  <2> QED BY <2>1, <2>2
<1>5. ASSUME NEW a \in Automation, BeginCancel(a) PROVE SourceInv'
  BY <1>5, QuietSource DEF BeginCancel, unchangedByRequest
<1>6. ASSUME NEW a \in Automation, Cancel(a) PROVE SourceInv'
  <2> DEFINE r == [ cancels[a].copy EXCEPT !.state = "cancelled" ]
  <2>1. r.state = "cancelled"
    BY <1>0, StateRecord DEF TypeOK
  <2>2. /\ held' = held /\ revived' = revived /\ records' = [ records EXCEPT ![a] = r ]
    BY <1>6 DEF Cancel, unchangedByRequest
  <2> HIDE DEF r
  <2>3. records'[a] = r /\ \A b \in Automation \ { a } : records'[b] = records[b]
    BY <1>0, <2>2 DEF TypeOK
  <2>4. \A b \in Automation \ revived' : Active(records'[b]) => Active(records[b])
    BY <2>1, <2>3 DEF Active
  <2>5. HeldIsListed'
    BY <2>1, <2>2, <2>3 DEF SourceInv, HeldIsListed, Active
  <2> QED BY <2>2, <2>4, <2>5, NoneActivated DEF SourceInv
<1>7. CASE Begin
  <2>1. records' = records /\ revived' = revived
    BY <1>7 DEF Begin
  <2>2. \A a \in Automation : held'[a] = Absent \/ (held'[a] = records[a] /\ Active(records[a]))
    <3>1. held' = [ a \in Automation |->
                      IF a \in { b \in Automation : Active(records[b]) } THEN records[a] ELSE Absent ]
      BY <1>7 DEF Begin, Listed
    <3> SUFFICES ASSUME NEW a \in Automation
                 PROVE  held'[a] = Absent \/ (held'[a] = records[a] /\ Active(records[a]))
      OBVIOUS
    <3>2. held'[a] = IF a \in { b \in Automation : Active(records[b]) } THEN records[a] ELSE Absent
      BY <3>1
    <3> QED BY <3>2 DEF Active
  <2>3. HeldIsListed'
    BY <2>1, <2>2 DEF HeldIsListed, Active
  <2>4. OneActivePerSource'
    BY <2>1 DEF SourceInv, OneActivePerSource
  <2> QED BY <2>3, <2>4 DEF SourceInv
<1>8. CASE End
  BY <1>8, QuietSource DEF End
<1>9. ASSUME NEW a \in Automation, Expire(a) PROVE SourceInv'
  <2> DEFINE r == [ MarkEvaluated(held[a]) EXCEPT !.state = "expired" ]
  <2>1. r \in Record /\ held[a] # Absent /\ Save(a, r)
    BY <1>0, <1>9, EvaluatedRecord, StateRecord DEF Expire, InHand, TypeOK
  <2> HIDE DEF r
  <2> QED BY <1>0, <2>1, SaveSource
<1>10. ASSUME NEW a \in Automation, LeaveAlone(a) PROVE SourceInv'
  <2>1. /\ records' = records /\ revived' = revived
        /\ \A b \in Automation : held'[b] \in { held[b], Absent }
    BY <1>0, <1>10 DEF LeaveAlone, Dropped, TypeOK
  <2> QED BY <2>1, QuietSource
<1>11. ASSUME NEW a \in Automation, NEW fired, IsFiniteSet(fired), Fire(a, fired), held[a] # Absent
       PROVE  SourceInv'
  <2> DEFINE r == IF fired = {} THEN MarkEvaluated(held[a])
                  ELSE MarkFired(a, held[a], Cardinality(fired))
  <2>1. r \in Record /\ Save(a, r)
    BY <1>0, <1>11, EvaluatedRecord, FiredRecord, FS_CardinalityType DEF Fire, TypeOK
  <2> HIDE DEF r
  <2> QED BY <1>0, <1>11, <2>1, SaveSource
<1>12. ASSUME NEW a \in Automation, Recheck(a) PROVE SourceInv'
  <2>1. PICK fired \in SUBSET held[a].pending : Fire(a, fired)
    BY <1>12 DEF Recheck, Matching
  <2>2. held[a] # Absent /\ \A c, d \in held[a].pending : c = d
    BY <1>12 DEF Recheck, Evaluated, InHand, BudgetInv, Ledger, Covers
  <2>3. PICK c : fired \subseteq { c }
    BY <2>2
  <2>4. IsFiniteSet({ c })
    BY FS_Singleton
  <2>5. IsFiniteSet(fired)
    BY <2>3, <2>4, FS_Subset
  <2> QED BY <1>11, <2>1, <2>2, <2>5
<1>13. ASSUME NEW a \in Automation, Load(a) PROVE SourceInv'
  BY <1>13, QuietSource DEF Load
<1>14. ASSUME NEW a \in Automation, Judge(a) PROVE SourceInv'
  <2>1. PICK fired \in SUBSET pass.contexts : Fire(a, fired)
    BY <1>14 DEF Judge, Matching
  <2>2. held[a] # Absent /\ IsFiniteSet(pass.contexts)
    BY <1>0, <1>14 DEF Judge, PassSound
  <2>3. IsFiniteSet(fired)
    BY <2>1, <2>2, FS_Subset
  <2> QED BY <1>11, <2>1, <2>2, <2>3
<1>15. ASSUME NEW a \in Automation, Postpone(a) PROVE SourceInv'
  <2>1. held[a] # Absent /\ held[a] \in Record /\ now \in Time /\ pass.contexts \in SUBSET Context
    BY <1>0, <1>15 DEF Postpone, PassSound, TypeOK
  <2>2. PICK r \in Record : Save(a, r)
    BY <1>15, <2>1, EvaluatedRecord, PendingRecord DEF Postpone
  <2> QED BY <1>0, <2>1, <2>2, SaveSource
<1>16. ASSUME NEW c \in pass.jobs, Emit(c) PROVE SourceInv'
  BY <1>16, QuietSource DEF Emit
<1>17. CASE BreakOff
  BY <1>17, QuietSource DEF BreakOff
<1> QED BY <1>1, <1>2, <1>3, <1>4, <1>5, <1>6, <1>7, <1>8, <1>9, <1>10, <1>12, <1>13, <1>14,
           <1>15, <1>16, <1>17 DEF Next, Evaluate

\* For any rules, at most one automation of an agent task is active
\* (create_automation looks for the source again under its lock), whatever creations,
\* cancellations and passes race; excepted is one that a pass wrote back over its
\* cancellation.
THEOREM SourceIsServedOnce == Spec => []OneActivePerSource
<1>1. Init => SourceInv
  <2>1. Init => \A a \in Automation : records[a] = Absent /\ held[a] = Absent
    BY DEF Init
  <2> QED BY <2>1, AbsentType DEF SourceInv, OneActivePerSource, HeldIsListed
<1>2. BudgetInv /\ SourceInv /\ [Next]_vars => SourceInv'
  <2>1. SourceInv /\ UNCHANGED vars => SourceInv'
    BY DEF SourceInv, OneActivePerSource, HeldIsListed, Active, vars
  <2> QED BY <2>1, StepSource
<1>3. SourceInv => OneActivePerSource
  BY DEF SourceInv
<1> QED BY <1>1, <1>2, <1>3, Budget, PTL DEF Spec

-----------------------------------------------------------------------------
(* Confirmation: a confirmation that asks for a decision has posted its card. *)

\* The card of the confirmation is there to be decided on.
Posted == \E k \in Card : child[k] = "complete"

\* What the workers remember of the row and of the card is still true.
WorkersKnow ==
    \A s \in Slot :
        /\ worker[s].pc = "prepare" => worker[s].seen = "running"
        /\ worker[s].pc = "write" /\ worker[s].seen = "confirmation_pending" => Posted
        /\ worker[s].pc \in { "read", "write" } /\ worker[s].plan = "post" => Posted

ConfirmationInv == ConfirmationTypeOK /\ PendingIsPosted /\ WorkersKnow

LEMMA ConfirmationInitial == ConfirmationInit => ConfirmationInv
<1> SUFFICES ASSUME ConfirmationInit PROVE ConfirmationInv
  OBVIOUS
<1> USE DEF ConfirmationInit
<1>1. row \in JobState /\ Idle \in Worker
  BY DEF JobState, Idle, Worker, Plan
<1>2. child \in [Card \cup Control -> ChildState]
  BY DEF ChildState
<1>3. control \in [Control -> ControlJob]
  BY DEF ControlJob
<1>4. ConfirmationTypeOK
  BY <1>1, <1>2, <1>3 DEF ConfirmationTypeOK
<1>5. PendingIsPosted
  BY DEF PendingIsPosted
<1>6. WorkersKnow
  BY DEF WorkersKnow, Idle
<1> QED BY <1>4, <1>5, <1>6 DEF ConfirmationInv

\* Whoever writes, the row gets a state, and pending only with a card.
LEMMA ConfirmationStep == ConfirmationInv /\ [ConfirmationNext]_confirmationVars => ConfirmationInv'
<1> SUFFICES ASSUME ConfirmationInv, [ConfirmationNext]_confirmationVars PROVE ConfirmationInv'
  OBVIOUS
<1> USE ConfirmationAssumption DEF ConfirmationInv, ConfirmationTypeOK
<1>0. CASE UNCHANGED confirmationVars
  BY <1>0 DEF confirmationVars, PendingIsPosted, WorkersKnow, Posted
<1>1. ASSUME NEW s \in Slot, Claim(s) PROVE ConfirmationInv'
  BY <1>1 DEF Claim, PendingIsPosted, WorkersKnow, Posted, Worker, Plan, JobState
<1>2. ASSUME NEW s \in Slot, Prepare(s) PROVE ConfirmationInv'
  <2>1. Plans \in SUBSET Plan
    BY DEF Plans, Plan
  <2>2. "post" \in Plans => Posted
    BY DEF Plans, Posted, Children
  <2>3. "refuse" \notin Plans
    BY DEF Plans
  <2>4. ConfirmationTypeOK'
    BY <1>2, <2>1 DEF Prepare, Step, Worker, Plan
  <2>5. WorkersKnow'
    BY <1>2, <2>1, <2>2 DEF Prepare, Step, Worker, Plan, WorkersKnow, Posted
  <2> QED BY <1>2, <2>4, <2>5 DEF Prepare, PendingIsPosted
<1>3. ASSUME NEW s \in Slot, Read(s) PROVE ConfirmationInv'
  BY <1>3 DEF Read, Step, PendingIsPosted, WorkersKnow, Posted, Worker, Plan
<1>4. ASSUME NEW s \in Slot, Rewrite(s) PROVE ConfirmationInv'
  <2>1. worker[s] \in Worker
    OBVIOUS
  <2>2. row' \in JobState
    BY <1>4, <2>1 DEF Rewrite, Worker, JobState
  <2>3. ConfirmationTypeOK'
    BY <1>4, <2>1, <2>2 DEF Rewrite, Step, Worker, Plan, Idle, JobState
  <2>4. PendingIsPosted'
    BY <1>4, <2>1 DEF Rewrite, PendingIsPosted, WorkersKnow, Posted
  <2>5. WorkersKnow'
    BY <1>4, <2>1 DEF Rewrite, Step, WorkersKnow, Posted, Idle
  <2> QED BY <2>3, <2>4, <2>5
<1>5. ASSUME NEW s \in Slot, SendCard(s) PROVE ConfirmationInv'
  <2>1. ConfirmationTypeOK'
    BY <1>5 DEF SendCard, Worker, Plan, Idle, JobState, ChildState
  <2>2. Posted => Posted'
    BY <1>5 DEF SendCard, Posted, Children, Gone
  <2>3. WorkersKnow'
    BY <1>5, <2>2 DEF SendCard, WorkersKnow, Idle
  <2> QED BY <1>5, <2>1, <2>2, <2>3 DEF SendCard, PendingIsPosted, Posted
<1>6. ASSUME NEW c \in Control, BeginControl(c) PROVE ConfirmationInv'
  BY <1>6 DEF BeginControl, MoveTo, PendingIsPosted, WorkersKnow, Posted, ControlJob
<1>7. ASSUME NEW c \in Control, ControlStep(c) PROVE ConfirmationInv'
  <2>1. ConfirmationTypeOK'
    BY <1>7 DEF ControlStep, ApproveConfirmation, CancelConfirmation, DispatchCommand, DispatchError,
                RecordError, Reread, FinishApproval, MoveTo, ControlJob, JobState,
                ChildState
  <2>2. Posted => Posted'
    BY <1>7 DEF ControlStep, ApproveConfirmation, CancelConfirmation, DispatchCommand, DispatchError,
                RecordError, Reread, FinishApproval, Posted
  <2>3. UNCHANGED worker
    BY <1>7 DEF ControlStep, ApproveConfirmation, CancelConfirmation, DispatchCommand, DispatchError,
                RecordError, Reread, FinishApproval
  <2>4. WorkersKnow'
    BY <2>2, <2>3 DEF WorkersKnow
  <2>5. PendingIsPosted'
    BY <1>7, <2>2 DEF ControlStep, ApproveConfirmation, CancelConfirmation, DispatchCommand, DispatchError,
                      RecordError, Reread, FinishApproval, PendingIsPosted, Posted
  <2> QED BY <2>1, <2>4, <2>5
<1>8. ASSUME NEW c \in Card \cup Control, ChildSettles(c) PROVE ConfirmationInv'
  <2>1. Posted => Posted'
    BY <1>8 DEF ChildSettles, Posted
  <2>2. ConfirmationTypeOK'
    BY <1>8 DEF ChildSettles, ChildState
  <2> QED BY <1>8, <2>1, <2>2 DEF ChildSettles, PendingIsPosted, WorkersKnow, Posted
<1>9. CASE ResolveRead \/ ResolvePut \/ Sweep
  <2>1. UNCHANGED << child, worker, control, restarts >>
    BY <1>9 DEF ResolveRead, ResolvePut, Sweep
  <2>2. row' \in JobState /\ resolving' \in BOOLEAN
    BY <1>9 DEF ResolveRead, ResolvePut, Sweep, JobState
  <2>3. row' = "confirmation_pending" => row = "confirmation_pending"
    BY <1>9 DEF ResolveRead, ResolvePut, Sweep
  <2>4. PendingIsPosted'
    BY <2>1, <2>3 DEF PendingIsPosted
  <2>5. WorkersKnow'
    BY <2>1 DEF WorkersKnow, Posted
  <2> QED BY <2>1, <2>2, <2>4, <2>5
<1>10. CASE Restart
  <2>1. control' \in [Control -> ControlJob]
    BY <1>10 DEF Restart, ControlJob
  <2>2. Idle \in Worker
    BY DEF Idle, Worker, Plan, JobState
  <2>3. worker' \in [Slot -> Worker]
    BY <1>10, <2>2 DEF Restart
  <2>4. UNCHANGED << row, child >> /\ restarts' \in Nat
    BY <1>10 DEF Restart
  <2>5. resolving' \in BOOLEAN
    BY <1>10, Zenon DEF Restart
  <2>6. ConfirmationTypeOK'
    BY <2>1, <2>3, <2>4, <2>5
  <2>7. WorkersKnow'
    BY <1>10 DEF Restart, WorkersKnow, Idle
  <2> QED BY <2>4, <2>6, <2>7 DEF PendingIsPosted
<1> QED
  BY <1>0, <1>1, <1>2, <1>3, <1>4, <1>5, <1>6, <1>7, <1>8, <1>9, <1>10
  DEF ConfirmationNext, WorkerStep

\* The row, the children, the workers and the controls keep their types, whatever
\* writes race on the row.
THEOREM ConfirmationTypeCorrect == ConfirmationSpec => []ConfirmationTypeOK
<1>1. ConfirmationInv => ConfirmationTypeOK
  BY DEF ConfirmationInv
<1> QED BY <1>1, ConfirmationInitial, ConfirmationStep, PTL DEF ConfirmationSpec

\* A confirmation is pending only once its card is posted
\* (prepare_confirmation_required_job, complete_dispatched_job).
THEOREM PendingOnlyWhenPosted == ConfirmationSpec => []PendingIsPosted
<1>1. ConfirmationInv => PendingIsPosted
  BY DEF ConfirmationInv
<1> QED BY <1>1, ConfirmationInitial, ConfirmationStep, PTL DEF ConfirmationSpec

\* A control that has begun acts for the user who asked, and one that creates a
\* command was asked to approve.
ControlsEntitled ==
    \A c \in Control :
        /\ control[c] \in { "write", "dispatch" } => c \in Requester
        /\ control[c] = "dispatch" => ActionOf[c] = "approve"

\* Commands are created by approvals by whoever asked for the job, whatever the
\* other controls, the row's own worker and the restarts do in between
\* (approve_confirmation, require_confirmation_actor).
THEOREM CommandsAreApproved == ConfirmationSpec => []CommandsApproved
<1> DEFINE ApprovedInv == ConfirmationTypeOK /\ CommandsApproved /\ ControlsEntitled
<1>1. ConfirmationInit => ApprovedInv
  BY ConfirmationInitial DEF ConfirmationInv, ConfirmationInit, CommandsApproved, ControlsEntitled
<1>2. ApprovedInv /\ ConfirmationTypeOK' /\ [ConfirmationNext]_confirmationVars => ApprovedInv'
  <2> SUFFICES ASSUME ApprovedInv, [ConfirmationNext]_confirmationVars
               PROVE  CommandsApproved' /\ ControlsEntitled'
    OBVIOUS
  <2> USE ConfirmationAssumption DEF ConfirmationTypeOK
  <2>1. ASSUME NEW c \in Control, DispatchCommand(c)
        PROVE  CommandsApproved' /\ ControlsEntitled'
    BY <2>1 DEF DispatchCommand, MoveTo, CommandsApproved, ControlsEntitled
  <2>2. ASSUME NEW c \in Control,
               \/ BeginControl(c) \/ ApproveConfirmation(c) \/ CancelConfirmation(c)
               \/ DispatchError(c) \/ RecordError(c) \/ Reread(c) \/ FinishApproval(c)
        PROVE  CommandsApproved' /\ ControlsEntitled'
    <3>1. UNCHANGED child
      BY <2>2 DEF BeginControl, ApproveConfirmation, CancelConfirmation, DispatchError, RecordError,
                  Reread, FinishApproval
    <3>2. ControlsEntitled'
      BY <2>2 DEF BeginControl, ApproveConfirmation, CancelConfirmation, DispatchError, RecordError,
                  Reread, FinishApproval, MoveTo, ControlsEntitled
    <3> QED BY <3>1, <3>2 DEF CommandsApproved
  <2>3. CASE Restart
    BY <2>3 DEF Restart, CommandsApproved, ControlsEntitled
  <2>4. ASSUME NEW c \in Card \cup Control, ChildSettles(c)
        PROVE  CommandsApproved' /\ ControlsEntitled'
    BY <2>4 DEF ChildSettles, CommandsApproved, ControlsEntitled, Gone
  <2>5. ASSUME NEW s \in Slot, SendCard(s) PROVE CommandsApproved' /\ ControlsEntitled'
    BY <2>5 DEF SendCard, CommandsApproved, ControlsEntitled
  <2>6. ASSUME UNCHANGED << child, control >> PROVE CommandsApproved' /\ ControlsEntitled'
    BY <2>6 DEF CommandsApproved, ControlsEntitled
  <2>7. ASSUME NEW s \in Slot, Claim(s) \/ Prepare(s) \/ Read(s) \/ Rewrite(s)
        PROVE  UNCHANGED << child, control >>
    BY <2>7 DEF Claim, Prepare, Read, Rewrite
  <2>8. CASE ResolveRead \/ ResolvePut \/ Sweep \/ UNCHANGED confirmationVars
    BY <2>6, <2>8 DEF ResolveRead, ResolvePut, Sweep, confirmationVars
  <2> QED
    BY <2>1, <2>2, <2>3, <2>4, <2>5, <2>6, <2>7, <2>8
    DEF ConfirmationNext, WorkerStep, ControlStep
<1> QED BY <1>1, <1>2, ConfirmationTypeCorrect, PTL DEF ConfirmationSpec

-----------------------------------------------------------------------------
(* The inductive invariant of the migrations. *)

\* The migrations are applied in order, from the version that left the database.
LedgerInOrder ==
    /\ left.version \in 0 .. Binary + 1 /\ Durable \in 1 .. Binary + 1
    /\ ledger = 2 .. Durable /\ left.version <= Durable
    /\ legacy = IF left.version \in 1 .. 2 /\ Durable < 3 THEN ScopedTables ELSE {}

\* A row, and what it was when its version left it: the blob is what it was and its
\* migration is to come, or it is current and says the same.
BlobCarried(r, was, version, durable) ==
    IF IsCurrent(r.blob)
    THEN /\ r.blob.old = {} /\ r.blob.payload \in MayBecome(version, was.kind)
         /\ r.kind # "refine_transcript" /\ was.kind # "refine_transcript"
         /\ version >= 10 \/ Rewriter(was.blob) <= durable
    ELSE /\ r.blob = was.blob /\ r.kind = was.kind
         /\ durable < IF r.kind = "refine_transcript" THEN 8 ELSE Rewriter(r.blob)

ScopeCarried(r, was, version, durable) ==
    version > 1 /\ durable >= 3 /\ was.kind # "refine_transcript" =>
        r.scope = LegacyScope(was.kind)

Carried(r, was, version, durable) ==
    r \in Row /\ BlobCarried(r, was, version, durable) /\ ScopeCarried(r, was, version, durable)

RowsCarried ==
    /\ DOMAIN jobs \subseteq DOMAIN left.jobs /\ DOMAIN left.jobs \subseteq Jobs
    /\ left.version = 0 => DOMAIN left.jobs = {}
    /\ \A j \in DOMAIN left.jobs :
         /\ left.jobs[j].kind \in Kinds
         /\ left.jobs[j] \in RowsOf(left.version, left.jobs[j].kind)
         /\ left.jobs[j].kind # "refine_transcript" => j \in DOMAIN jobs
    /\ \A j \in DOMAIN jobs : Carried(jobs[j], left.jobs[j], left.version, Durable)

EventsCarried ==
    /\ \A e \in DOMAIN events :
         /\ events[e] \in Event
         /\ Durable >= 4 => events[e].timed
         /\ events[e].about # "speech" \/ Durable >= 8 => events[e].source # "unnamed"
         /\ Durable >= 13 /\ events[e].about \in DOMAIN jobs =>
              events[e].scope = jobs[events[e].about].scope
    /\ Durable >= 13 => OutcomesSettled

EnvelopesCarried ==
    /\ \A s \in DOMAIN sessions : sessions[s] \in { "raw", "current" }
    /\ \A a \in DOMAIN automations : automations[a] \in { "raw", "current" }
    /\ Durable >= 4 => ~ LacksEnvelopes

PhaseInv ==
    /\ phase \in { "down", "migrating", "indexed", "running", "failed" }
    /\ phase \in { "migrating", "indexed", "running" } => Durable <= Binary
    /\ phase \in { "indexed", "running" } => Durable = Binary

CarriedInv ==
    LedgerInOrder /\ RowsCarried /\ EventsCarried /\ EnvelopesCarried /\ PhaseInv

\* The schema is what the applied migrations made of it; a part that is not an
\* index may have been made ahead of its migration, with the table.
SchemaInv ==
    /\ schema \subseteq ExpectedSchema \cup DOMAIN DroppedBy
    /\ Durable >= 5 => "retention_index" \notin schema
    /\ \A x \in ExpectedSchema \ { "tables" } : BroughtBy[x] <= Durable => x \in schema
    /\ left.version # 0 \/ phase # "down" => "tables" \in schema
    /\ "required_times" \in schema => ~ LacksTimes
    /\ left.version = 0 => DOMAIN events = {}
    /\ phase = "indexed" => Indexes \subseteq schema
    /\ phase = "failed" => SoundRowsAreTaken

-----------------------------------------------------------------------------
(* What the readers make of a blob. *)

\* The ledger 2 .. d has d for its highest version, or the baseline.
LEMMA HighestIs ==
    ASSUME NEW d \in 1 .. Binary + 1
    PROVE  Highest(2 .. d) = d
<1>1. /\ d \in (2 .. d) \cup { Baseline } /\ \A u \in 2 .. d : u <= d
  BY DEF Baseline, Binary
<1>2. \A v \in (2 .. d) \cup { Baseline } : (\A u \in 2 .. d : u <= v) => v = d
  BY DEF Baseline, Binary
<1> QED BY <1>1, <1>2 DEF Highest

\* The parts and the versions that brought their present form.
LEMMA PartsAre ==
    /\ Parts = { "slash", "scope", "invocation", "attachments", "slot", "variant", "snapshot" }
    /\ FormedIn["slash"] = 2 /\ FormedIn["scope"] = 3 /\ FormedIn["invocation"] = 6
    /\ FormedIn["attachments"] = 7 /\ FormedIn["slot"] = 8 /\ FormedIn["variant"] = 8
    /\ FormedIn["snapshot"] = 10
    /\ \A p \in Parts : FormedIn[p] \in 2 .. 10
BY DEF Parts, FormedIn

\* The bodies of every kind consist of parts.
LEMMA BodiesHaveParts ==
    ASSUME NEW kind \in Kinds, NEW parts \in Bodies[kind]
    PROVE  parts \subseteq Parts
BY PartsAre DEF Kinds, Bodies

LEMMA NextKinds ==
    ASSUME NEW kind \in DOMAIN Next1
    PROVE  /\ kind \in Kinds /\ Next1[kind] \in Kinds
           /\ kind # "refine_transcript" /\ Next1[kind] # "refine_transcript"
           /\ LegacyScope(Next1[kind]) = LegacyScope(kind)
BY DEF Next1, Kinds, Bodies, LegacyScope

LEMMA KindsAreReadable == Unreadable \notin Kinds
BY DEF Kinds, Bodies, Unreadable

\* The envelope of a version tells which migration reads it: the next one that
\* rewrites payloads.
LEMMA EnvelopesAre ==
    ASSUME NEW v \in 1 .. Binary + 1
    PROVE  /\ Envelope(v) \in { 0 } \cup 2 .. 8
           /\ v >= 10 <=> Envelope(v) = Envelope(Binary)
           /\ v < 10 => Envelope(v) = IF v = 1 THEN 0 ELSE IF v = 2 THEN 2
                                      ELSE IF v < 6 THEN 3 ELSE v - 2
BY DEF Envelope, Binary

\* A blob as its version left it.
LEMMA BlobLeft ==
    ASSUME NEW v \in 1 .. Binary + 1, NEW kind \in Kinds, NEW b \in BlobsOf(v, kind)
    PROVE  /\ b \in Blob /\ b.payload = kind /\ b.envelope = Envelope(v)
           /\ b.parts \in Bodies[kind] /\ b.old \in OldParts(v, b.parts)
           /\ b.old \subseteq Frozen(v, b.parts)
           /\ IsCurrent(b) <=> v >= 10
           /\ v < 10 => Rewriter(b) = IF v < 3 THEN v + 1 ELSE IF v < 6 THEN 6 ELSE v + 1
           /\ v >= 10 => b.old = {}
<1>0. PICK parts \in Bodies[kind] :
        b \in { [ envelope |-> Envelope(v), payload |-> kind, parts |-> parts, old |-> old ] :
                old \in OldParts(v, parts) }
  BY DEF BlobsOf
<1>1. PICK old \in OldParts(v, parts) :
        b = [ envelope |-> Envelope(v), payload |-> kind, parts |-> parts, old |-> old ]
  BY <1>0
<1>2. parts \subseteq Parts
  BY BodiesHaveParts
<1>3. old \subseteq Frozen(v, parts) /\ Frozen(v, parts) \subseteq parts
  BY <1>1 DEF OldParts, Frozen
<1>4. b \in Blob
  BY <1>1, <1>2, <1>3, EnvelopesAre DEF Blob
<1>5. IsCurrent(b) <=> v >= 10
  BY <1>1, EnvelopesAre DEF IsCurrent
<1>6. v < 10 => Rewriter(b) = IF v < 3 THEN v + 1 ELSE IF v < 6 THEN 6 ELSE v + 1
  <2> SUFFICES ASSUME v < 10
               PROVE  Rewriter(b) = IF v < 3 THEN v + 1 ELSE IF v < 6 THEN 6 ELSE v + 1
    OBVIOUS
  <2>1. b.envelope = IF v = 1 THEN 0 ELSE IF v = 2 THEN 2 ELSE IF v < 6 THEN 3 ELSE v - 2
    BY <1>1, EnvelopesAre
  <2> QED BY <2>1 DEF Rewriter
<1>7. v >= 10 => Frozen(v, parts) = {}
  <2>1. \A p \in parts : FormedIn[p] \in 2 .. 10
    BY <1>2, PartsAre
  <2> QED BY <1>2, <2>1 DEF Frozen
<1> QED BY <1>1, <1>3, <1>4, <1>5, <1>6, <1>7

\* A reader says the kind that was written, or the next one, and then the number of
\* the kind is from before 0.8.0 and the reader takes it for today's.
LEMMA ReadAsGives ==
    ASSUME NEW b, NEW shape, ReadAs(b, shape) # Unreadable
    PROVE  /\ b.payload # "refine_transcript"
           /\ \/ ReadAs(b, shape) = b.payload
              \/ /\ "variant" \in b.old \ shape /\ b.payload \in DOMAIN Next1
                 /\ ReadAs(b, shape) = Next1[b.payload]
BY DEF ReadAs, FitsShifted

\* Migration n reads a blob when its version is the one before the migrations that
\* rewrite, and says what the payload may become.
LEMMA ReadsBack ==
    ASSUME NEW v \in 1 .. Binary + 1, NEW kind \in Kinds, NEW b \in BlobsOf(v, kind),
           NEW n \in { 2, 3, 6, 7, 8, 9, 10 }, v < n, n <= Rewriter(b), v < 10,
           DecodeOld(n, b) # Unreadable
    PROVE  /\ n = Rewriter(b) /\ kind # "refine_transcript"
           /\ DecodeOld(n, b) \in MayBecome(v, kind)
<1>1. /\ b.payload = kind /\ b.envelope = Envelope(v) /\ b.old \subseteq Frozen(v, b.parts)
      /\ Rewriter(b) = IF v < 3 THEN v + 1 ELSE IF v < 6 THEN 6 ELSE v + 1
  BY BlobLeft
<1>2. n = Rewriter(b)
  BY <1>1
<1>3. v >= 8 => "variant" \notin b.old
  BY <1>1, PartsAre DEF Frozen
<1>4. \A shape : ReadAs(b, shape) # Unreadable =>
        /\ kind # "refine_transcript"
        /\ v < 6 \/ v >= 8 \/ "variant" \in shape => ReadAs(b, shape) \in MayBecome(v, kind)
  BY <1>1, <1>3, ReadAsGives DEF MayBecome
<1>5. \A first, second : ReadAsEither(b, first, second) # Unreadable =>
        /\ kind # "refine_transcript"
        /\ v < 6 \/ v >= 8 => ReadAsEither(b, first, second) \in MayBecome(v, kind)
  BY <1>4 DEF ReadAsEither
<1>6. v \in 1 .. 9
  BY DEF Binary
<1>7. CASE v < 6
  BY <1>2, <1>4, <1>5, <1>7, <1>1, <1>6
     DEF DecodeOld, FromPreV0_2_0, FromPreV0_3_0, FromPreV0_6_0
<1>8. CASE v = 6
  <2>1. n = 7 /\ DecodeOld(n, b) = ReadAs(b, PreV0_7_0Job)
    BY <1>1, <1>2, <1>8 DEF DecodeOld, FromPreV0_7_0
  <2> QED BY <2>1, <1>2, <1>4 DEF PreV0_7_0Job
<1>9. CASE v = 7
  <2>1. n = 8 /\ DecodeOld(n, b) = ReadAs(b, PreV0_8_0Job)
    BY <1>1, <1>2, <1>9 DEF DecodeOld, FromPreV0_8_0
  <2> QED BY <2>1, <1>2, <1>4 DEF PreV0_8_0Job
<1>10. CASE v = 8
  <2>1. n = 9 /\ DecodeOld(n, b) = ReadAs(b, Job)
    BY <1>1, <1>2, <1>10 DEF DecodeOld, FromPreV0_9_0
  <2> QED BY <2>1, <1>2, <1>4, <1>10
<1>11. CASE v = 9
  <2>1. n = 10 /\ DecodeOld(n, b) = ReadAsEither(b, Job, PreV0_10_0Job)
    BY <1>1, <1>2, <1>11 DEF DecodeOld, FromPreV0_10_0
  <2> QED BY <2>1, <1>2, <1>5, <1>11
<1> QED BY <1>6, <1>7, <1>8, <1>9, <1>10, <1>11

\* What may become of a kind is a kind of the same scope, and never a refinement.
LEMMA MayBecomeKind ==
    ASSUME NEW v, NEW kind \in Kinds, kind # "refine_transcript", NEW got \in MayBecome(v, kind)
    PROVE  /\ got \in Kinds /\ got # "refine_transcript" /\ got # Unreadable
           /\ LegacyScope(got) = LegacyScope(kind)
BY NextKinds, KindsAreReadable DEF MayBecome

\* A current blob is read as it says, and written back the same.
LEMMA CurrentReads ==
    ASSUME NEW b, IsCurrent(b), b.old = {}, b.payload # "refine_transcript"
    PROVE  Decode(b) = b.payload
BY DEF Decode, ReadAs, Fits, Job

\* What is written is current.
LEMMA EncodedIs ==
    ASSUME NEW b \in Blob, NEW payload \in Kinds
    PROVE  /\ Encode(b, payload) \in Blob /\ IsCurrent(Encode(b, payload))
           /\ Encode(b, payload).old = {} /\ Encode(b, payload).payload = payload
<1>1. Envelope(Binary) \in { 0 } \cup 2 .. 8
  BY EnvelopesAre DEF Binary
<1> QED BY <1>1 DEF Encode, Blob, IsCurrent

-----------------------------------------------------------------------------
(* What a migration makes of a row. *)

LEMMA RowLeft ==
    ASSUME NEW v \in 1 .. Binary + 1, NEW kind \in Kinds, NEW was \in RowsOf(v, kind)
    PROVE  /\ was \in Row /\ was.kind = kind /\ was.blob \in BlobsOf(v, kind)
           /\ was.scope = IF v < 3 THEN "no_scope" ELSE LegacyScope(kind)
           /\ kind = "refine_transcript" => v < 8
<1>1. /\ was.kind = kind /\ was.blob \in BlobsOf(v, kind)
      /\ was.scope = IF v < 3 THEN "no_scope" ELSE LegacyScope(kind)
      /\ kind = "refine_transcript" => v < 8
      /\ was.state \in JobStates /\ was.recent \in BOOLEAN
      /\ was = [ kind |-> was.kind, state |-> was.state, recent |-> was.recent,
                 blob |-> was.blob, scope |-> was.scope ]
  BY DEF RowsOf
<1>2. was.scope \in Scopes
  BY <1>1 DEF LegacyScope, Scopes
<1>3. was.blob \in Blob
  BY <1>1, BlobLeft
<1> QED BY <1>1, <1>2, <1>3 DEF Row

\* As it was left, a row is carried.
LEMMA LeftIsCarried ==
    ASSUME NEW v \in 1 .. Binary + 1, NEW kind \in Kinds, NEW was \in RowsOf(v, kind)
    PROVE  Carried(was, was, v, v)
<1>1. /\ was \in Row /\ was.kind = kind /\ was.blob \in BlobsOf(v, kind)
      /\ was.scope = IF v < 3 THEN "no_scope" ELSE LegacyScope(kind)
      /\ kind = "refine_transcript" => v < 8
  BY RowLeft
<1>2. /\ was.blob.payload = kind
      /\ IsCurrent(was.blob) <=> v >= 10
      /\ v < 10 => Rewriter(was.blob) = IF v < 3 THEN v + 1 ELSE IF v < 6 THEN 6 ELSE v + 1
      /\ v >= 10 => was.blob.old = {}
  BY <1>1, BlobLeft
<1>3. BlobCarried(was, was, v, v)
  BY <1>1, <1>2 DEF BlobCarried, MayBecome, Binary
<1>4. ScopeCarried(was, was, v, v)
  BY <1>1 DEF ScopeCarried, Binary
<1> QED BY <1>1, <1>3, <1>4 DEF Carried

\* No reader knows a refinement.
LEMMA RefinementIsUnread ==
    ASSUME NEW b, b.payload = "refine_transcript", NEW n \in { 2, 3, 6, 7, 8, 9, 10 }
    PROVE  DecodeOld(n, b) = Unreadable
BY DEF DecodeOld, FromPreV0_2_0, FromPreV0_3_0, FromPreV0_6_0, FromPreV0_7_0, FromPreV0_8_0,
       FromPreV0_9_0, FromPreV0_10_0, ReadAsEither, ReadAs

\* The row that the migration after d reads, and that is rewritten.
LEMMA Rewritten ==
    ASSUME NEW v \in 1 .. Binary + 1, NEW kind \in Kinds, NEW was \in RowsOf(v, kind),
           NEW d \in 1 .. Binary + 1, v <= d, NEW r, Carried(r, was, v, d),
           NEW n \in { 2, 3, 6, 7, 8, 9, 10 }, n = d + 1,
           Rewrites(n, r), Decoded(n, r) # Unreadable
    PROVE  /\ Decoded(n, r) \in MayBecome(v, kind) /\ Decoded(n, r) \in Kinds
           /\ Decoded(n, r) # "refine_transcript" /\ kind # "refine_transcript"
           /\ LegacyScope(Decoded(n, r)) = LegacyScope(kind)
           /\ v >= 10 \/ Rewriter(was.blob) <= n
           /\ \/ ~ IsCurrent(r.blob) /\ r.kind = kind
              \/ n = 3 /\ IsCurrent(r.blob) /\ Decoded(n, r) = r.blob.payload
<1>1. /\ was.kind = kind /\ was.blob \in BlobsOf(v, kind)
  BY RowLeft
<1>2. CASE IsCurrent(r.blob)
  <2>1. /\ r.blob.old = {} /\ r.blob.payload \in MayBecome(v, kind)
        /\ kind # "refine_transcript"
        /\ v >= 10 \/ Rewriter(was.blob) <= d
    BY <1>1, <1>2 DEF Carried, BlobCarried
  <2>2. /\ r.blob.payload \in Kinds /\ r.blob.payload # "refine_transcript"
        /\ LegacyScope(r.blob.payload) = LegacyScope(kind)
    BY <2>1, MayBecomeKind
  <2>3. n = 3 /\ Decoded(n, r) = r.blob.payload
    BY <1>2, <2>1, <2>2, CurrentReads DEF Rewrites, Decoded
  <2>4. v < 10 /\ Rewriter(was.blob) \in Nat
    BY <1>1, <2>3, BlobLeft DEF Binary
  <2> QED BY <1>2, <2>1, <2>2, <2>3, <2>4 DEF Binary
<1>3. CASE ~ IsCurrent(r.blob)
  <2>1. /\ r.blob = was.blob /\ r.kind = kind
        /\ d < IF kind = "refine_transcript" THEN 8 ELSE Rewriter(was.blob)
        /\ Decoded(n, r) = DecodeOld(n, was.blob)
    BY <1>1, <1>3 DEF Carried, BlobCarried, Decoded
  <2>2. was.blob.payload = kind /\ v < 10 /\ Rewriter(was.blob) \in Nat
    BY <1>1, <1>3, <2>1, BlobLeft DEF Binary
  <2>3. kind # "refine_transcript"
    BY <2>1, <2>2, RefinementIsUnread
  <2>4. v < n /\ n <= Rewriter(was.blob)
    BY <2>1, <2>2, <2>3 DEF Binary
  <2>5. n = Rewriter(was.blob) /\ Decoded(n, r) \in MayBecome(v, kind)
    BY <1>1, <2>1, <2>2, <2>4, ReadsBack
  <2>6. /\ Decoded(n, r) \in Kinds /\ Decoded(n, r) # "refine_transcript"
        /\ LegacyScope(Decoded(n, r)) = LegacyScope(kind)
    BY <2>3, <2>5, MayBecomeKind
  <2> QED BY <1>3, <2>1, <2>2, <2>3, <2>5, <2>6
<1> QED BY <1>2, <1>3

\* The row that the migration after d leaves alone has its blob, and the migration
\* that reads it is later.
LEMMA LeftAlone ==
    ASSUME NEW v \in 1 .. Binary + 1, NEW kind \in Kinds, NEW was \in RowsOf(v, kind),
           NEW d \in 1 .. Binary, v <= d, NEW r, BlobCarried(r, was, v, d),
           d < 3 /\ v < 3 => "jobs" \in legacy,
           ~ (d + 1 \in { 2, 3, 6, 7, 8, 9, 10 } /\ Rewrites(d + 1, r)),
           r.kind = "refine_transcript" => d # 7
    PROVE  BlobCarried(r, was, v, d + 1)
<1>1. /\ was.kind = kind /\ was.blob \in BlobsOf(v, kind)
  BY RowLeft
<1>2. v < 10 => Rewriter(was.blob) = IF v < 3 THEN v + 1 ELSE IF v < 6 THEN 6 ELSE v + 1
  BY <1>1, BlobLeft
<1>3. CASE IsCurrent(r.blob)
  BY <1>2, <1>3 DEF BlobCarried, Binary
<1>4. CASE ~ IsCurrent(r.blob)
  <2>1. /\ r.blob = was.blob /\ r.kind = kind
        /\ d < IF kind = "refine_transcript" THEN 8 ELSE Rewriter(was.blob)
    BY <1>1, <1>4 DEF BlobCarried
  <2>2. v < 10
    BY <1>1, <1>4, <2>1, BlobLeft
  <2>3. CASE kind = "refine_transcript"
    BY <1>1, <1>4, <2>1, <2>3 DEF BlobCarried, Binary
  <2>4. CASE kind # "refine_transcript"
    <3>1. d + 1 # Rewriter(was.blob)
      <4> SUFFICES ASSUME d + 1 = Rewriter(was.blob)  PROVE FALSE
        OBVIOUS
      <4>1. d + 1 \in { 2, 3, 6, 7, 8, 9, 10 } /\ (d + 1 \in { 2, 3 } => d < 3 /\ v < 3)
        BY <1>2, <2>2 DEF Binary
      <4>2. Rewrites(d + 1, r)
        BY <1>4, <2>1, <2>4, <4>1 DEF Rewrites, Reads
      <4> QED BY <4>1, <4>2
    <3> QED BY <1>1, <1>2, <1>4, <2>1, <2>2, <2>4, <3>1 DEF BlobCarried, Binary
  <2> QED BY <2>3, <2>4
<1> QED BY <1>3, <1>4

LEMMA BlobOfRow ==
    ASSUME NEW r \in Row
    PROVE  /\ r.kind \in Kinds /\ r.state \in JobStates /\ r.scope \in Scopes
           /\ r.recent \in BOOLEAN /\ r.blob \in Blob
BY DEF Row

LEMMA ScopeOfKind ==
    ASSUME NEW kind
    PROVE  LegacyScope(kind) \in Scopes
BY DEF LegacyScope, Scopes

LEMMA NormalState ==
    ASSUME NEW state \in JobStates
    PROVE  Normal(state) \in JobStates
BY DEF Normal, JobStates

LEMMA TimedOutRow ==
    ASSUME NEW r \in Row
    PROVE  /\ TimedOut(r) \in Row /\ TimedOut(r).kind = r.kind
           /\ TimedOut(r).blob = r.blob /\ TimedOut(r).scope = r.scope
BY DEF TimedOut, Row, JobStates

\* A row with the blob that a migration wrote is carried.
LEMMA WrittenIsCarried ==
    ASSUME NEW v \in 1 .. Binary + 1, NEW kind \in Kinds, NEW was, was.kind = kind,
           NEW n \in Nat, NEW got \in MayBecome(v, kind), got \in Kinds,
           kind # "refine_transcript", v >= 10 \/ Rewriter(was.blob) <= n,
           NEW b \in Blob, NEW new \in Row, new.blob = Encode(b, got), new.kind # "refine_transcript"
    PROVE  BlobCarried(new, was, v, n)
BY EncodedIs DEF BlobCarried

\* 0.2.0 carries a row.
LEMMA EnvelopedCarried ==
    ASSUME NEW v \in 1 .. Binary + 1, NEW kind \in Kinds, NEW was \in RowsOf(v, kind),
           NEW r, Carried(r, was, v, 1), v <= 1, "jobs" \in legacy,
           Rewrites(2, r) => Decoded(2, r) # Unreadable
    PROVE  Carried(Enveloped(r), was, v, 2)
<1> DEFINE new == Enveloped(r)
           got == Decoded(2, r)
<1>1. was.kind = kind /\ r \in Row /\ BlobCarried(r, was, v, 1)
  BY RowLeft DEF Carried
<1>2. CASE Rewrites(2, r)
  <2>1. /\ got \in MayBecome(v, kind) /\ got \in Kinds /\ got # "refine_transcript"
        /\ kind # "refine_transcript" /\ (v >= 10 \/ Rewriter(was.blob) <= 2)
    BY <1>2, Rewritten DEF Binary
  <2>2. new = [ kind |-> got, state |-> Normal(r.state), recent |-> r.recent,
                scope |-> "voice_channel", blob |-> Encode(r.blob, got) ]
    BY <1>2 DEF Enveloped
  <2>3. Encode(r.blob, got) \in Blob /\ Normal(r.state) \in JobStates
    BY <1>1, <2>1, EncodedIs, BlobOfRow, NormalState
  <2>4. new \in Row /\ new.kind = got /\ new.blob = Encode(r.blob, got)
    BY <1>1, <2>1, <2>2, <2>3 DEF Row, Scopes
  <2>5. r.blob \in Blob
    BY <1>1, BlobOfRow
  <2> HIDE DEF new, got
  <2>6. BlobCarried(new, was, v, 2)
    BY <1>1, <2>1, <2>4, <2>5, WrittenIsCarried
  <2> QED BY <2>4, <2>6 DEF Carried, ScopeCarried, new
<1>3. CASE ~ Rewrites(2, r)
  <2>1. new = [ r EXCEPT !.state = Normal(r.state) ] \/ new = [ r EXCEPT !.state = r.state ]
    BY <1>3 DEF Enveloped
  <2>2. new \in Row /\ new.kind = r.kind /\ new.blob = r.blob
    BY <1>1, <2>1, NormalState DEF Row
  <2>3. BlobCarried(r, was, v, 2)
    BY <1>1, <1>3, LeftAlone DEF Binary
  <2>4. BlobCarried(new, was, v, 2)
    BY <2>2, <2>3 DEF BlobCarried
  <2> QED BY <2>2, <2>4 DEF Carried, ScopeCarried
<1> QED BY <1>2, <1>3

\* 0.3.0 carries a row, and gives it the scope of its kind.
LEMMA RescopedCarried ==
    ASSUME NEW v \in 1 .. Binary + 1, NEW kind \in Kinds, NEW was \in RowsOf(v, kind),
           NEW r, Carried(r, was, v, 2), v <= 2, "jobs" \in legacy,
           Rewrites(3, r) => Decoded(3, r) # Unreadable
    PROVE  Carried(Rescoped(r), was, v, 3)
<1> DEFINE new == Rescoped(r)
           got == Decoded(3, r)
<1>1. was.kind = kind /\ r \in Row /\ BlobCarried(r, was, v, 2)
  BY RowLeft DEF Carried
<1>2. CASE Rewrites(3, r)
  <2>1. /\ got \in MayBecome(v, kind) /\ got \in Kinds /\ got # "refine_transcript"
        /\ kind # "refine_transcript" /\ (v >= 10 \/ Rewriter(was.blob) <= 3)
        /\ LegacyScope(got) = LegacyScope(kind)
    BY <1>2, Rewritten DEF Binary
  <2> DEFINE scope == IF IsCurrent(r.blob) THEN r.scope ELSE LegacyScope(got)
  <2>2. new = [ kind |-> got, state |-> r.state, recent |-> r.recent,
                scope |-> scope, blob |-> Encode(r.blob, got) ]
    BY <1>2 DEF Rescoped
  <2>3. Encode(r.blob, got) \in Blob /\ scope \in Scopes
    BY <1>1, <2>1, EncodedIs, BlobOfRow, ScopeOfKind
  <2>4. new \in Row /\ new.kind = got /\ new.blob = Encode(r.blob, got) /\ new.scope = scope
    <3> HIDE DEF scope
    <3> QED BY <1>1, <2>1, <2>2, <2>3 DEF Row
  <2>5. r.blob \in Blob
    BY <1>1, BlobOfRow
  <2>6. BlobCarried(new, was, v, 3)
    <3> HIDE DEF new, got
    <3> QED BY <1>1, <2>1, <2>4, <2>5, WrittenIsCarried
  <2>7. v > 1 => ~ IsCurrent(r.blob)
    <3>1. v > 1 => Rewriter(was.blob) = 3
      BY RowLeft, BlobLeft DEF Binary
    <3> QED BY <1>1, <3>1 DEF BlobCarried, Binary
  <2>8. ScopeCarried(new, was, v, 3)
    BY <1>1, <2>1, <2>4, <2>7 DEF ScopeCarried
  <2> QED BY <2>4, <2>6, <2>8 DEF Carried
<1>3. CASE ~ Rewrites(3, r)
  <2>1. new = [ r EXCEPT !.scope = "voice_channel" ]
    BY <1>3 DEF Rescoped
  <2>2. new \in Row /\ new.kind = r.kind /\ new.blob = r.blob
    BY <1>1, <2>1 DEF Row, Scopes
  <2>3. BlobCarried(r, was, v, 3)
    BY <1>1, <1>3, LeftAlone DEF Binary
  <2>4. BlobCarried(new, was, v, 3)
    BY <2>2, <2>3 DEF BlobCarried
  <2>5. kind = "refine_transcript"
    <3>1. r.kind = "refine_transcript"
      BY <1>3 DEF Rewrites, Reads
    <3> QED BY <1>1, <3>1 DEF BlobCarried
  <2> QED BY <1>1, <2>2, <2>4, <2>5 DEF Carried, ScopeCarried
<1> QED BY <1>2, <1>3

\* A migration that only rewrites payloads carries a row.
LEMMA ReencodedCarried ==
    ASSUME NEW v \in 1 .. Binary + 1, NEW kind \in Kinds, NEW was \in RowsOf(v, kind),
           NEW n \in { 6, 7, 8, 9, 10 }, v <= n - 1,
           NEW r, Carried(r, was, v, n - 1), n = 8 => r.kind # "refine_transcript",
           Rewrites(n, r) => Decoded(n, r) # Unreadable
    PROVE  Carried(Reencoded(n, r), was, v, n) /\ Reencoded(n, r).kind = r.kind
<1> DEFINE new == Reencoded(n, r)
           got == Decoded(n, r)
<1>0. PICK d \in 1 .. Binary : n = d + 1 /\ d = n - 1 /\ d >= 5
  BY DEF Binary
<1>1. was.kind = kind /\ r \in Row /\ BlobCarried(r, was, v, d) /\ ScopeCarried(r, was, v, d)
  BY <1>0, RowLeft DEF Carried
<1>2. CASE Rewrites(n, r)
  <2>0. d \in 1 .. Binary + 1 /\ Carried(r, was, v, d) /\ v <= d
    BY <1>0 DEF Binary
  <2>1. /\ got \in MayBecome(v, kind) /\ got \in Kinds /\ got # "refine_transcript"
        /\ kind # "refine_transcript" /\ (v >= 10 \/ Rewriter(was.blob) <= n)
        /\ r.kind = kind
    BY <1>0, <1>2, <2>0, Rewritten
  <2>2. r.blob \in Blob /\ Encode(r.blob, got) \in Blob
    BY <1>1, <2>1, EncodedIs, BlobOfRow
  <2>3. new = [ r EXCEPT !.blob = Encode(r.blob, got) ]
    BY <1>2 DEF Reencoded
  <2>4. /\ new \in Row /\ new.kind = r.kind /\ new.scope = r.scope
        /\ new.blob = Encode(r.blob, got)
    BY <1>1, <2>2, <2>3 DEF Row
  <2>5. BlobCarried(new, was, v, n)
    <3> HIDE DEF new, got
    <3> QED BY <1>1, <2>1, <2>2, <2>4, WrittenIsCarried
  <2>6. ScopeCarried(new, was, v, n)
    BY <1>0, <1>1, <2>4 DEF ScopeCarried
  <2> QED BY <2>4, <2>5, <2>6 DEF Carried
<1>3. CASE ~ Rewrites(n, r)
  <2>1. new = r
    BY <1>3 DEF Reencoded
  <2>2. BlobCarried(r, was, v, n)
    BY <1>0, <1>1, <1>3, LeftAlone
  <2>3. ScopeCarried(r, was, v, n)
    BY <1>0, <1>1 DEF ScopeCarried
  <2> QED BY <1>1, <2>1, <2>2, <2>3 DEF Carried
<1> QED BY <1>2, <1>3

\* A migration that reads no payload carries a row, whose state may change.
LEMMA UnreadIsCarried ==
    ASSUME NEW v \in 1 .. Binary + 1, NEW kind \in Kinds, NEW was \in RowsOf(v, kind),
           NEW d \in { 3, 4, 10, 11, 12 }, v <= d, NEW r, Carried(r, was, v, d),
           NEW new \in Row, new.kind = r.kind, new.blob = r.blob, new.scope = r.scope
    PROVE  Carried(new, was, v, d + 1)
<1>1. BlobCarried(r, was, v, d) /\ ScopeCarried(r, was, v, d)
  BY DEF Carried
<1>2. BlobCarried(r, was, v, d + 1)
  BY <1>1, LeftAlone DEF Binary
<1>3. BlobCarried(new, was, v, d + 1)
  BY <1>2 DEF BlobCarried
<1> QED BY <1>1, <1>3 DEF Carried, ScopeCarried

-----------------------------------------------------------------------------
(* The invariant is inductive. *)

\* The invariant at the beginning.
LEMMA CarriedAtFirst ==
    ASSUME MigrationInit
    PROVE  CarriedInv
<1>1. PICK v \in 0 .. Binary + 1 :
        /\ phase = "down" /\ ledger = 2 .. v /\ left = [ version |-> v, jobs |-> jobs ]
        /\ legacy = IF v \in 1 .. 2 THEN ScopedTables ELSE {}
        /\ outcomes = IF v < 13 THEN {} ELSE { j \in DOMAIN jobs : jobs[j].recent }
        /\ \E J \in SUBSET Jobs, E \in SUBSET Events, S \in SUBSET Sessions, A \in SUBSET Autos :
             /\ v = 0 => J \cup E \cup S \cup A = {}
             /\ jobs \in [ J -> RowsLeft(v) ] /\ events \in [ E -> EventsLeft(v) ]
             /\ sessions \in [ S -> IF v < 3 THEN { "raw" } ELSE IF v = 3 THEN { "raw", "current" }
                                    ELSE { "current" } ]
             /\ automations \in [ A -> IF v < 3 THEN { "raw" } ELSE IF v = 3 THEN { "raw", "current" }
                                       ELSE { "current" } ]
  BY DEF MigrationInit
<1>2. /\ DOMAIN jobs \subseteq Jobs /\ (v = 0 => DOMAIN jobs = {} /\ DOMAIN events = {})
      /\ \A j \in DOMAIN jobs : jobs[j] \in RowsLeft(v)
      /\ \A e \in DOMAIN events : events[e] \in EventsLeft(v)
      /\ \A s \in DOMAIN sessions : sessions[s] \in { "raw", "current" }
      /\ \A a \in DOMAIN automations : automations[a] \in { "raw", "current" }
      /\ v >= 4 => \A s \in DOMAIN sessions : sessions[s] = "current"
      /\ v >= 4 => \A a \in DOMAIN automations : automations[a] = "current"
  <2>1. PICK J \in SUBSET Jobs, E \in SUBSET Events, S \in SUBSET Sessions, A \in SUBSET Autos :
          /\ v = 0 => J \cup E \cup S \cup A = {}
          /\ jobs \in [ J -> RowsLeft(v) ] /\ events \in [ E -> EventsLeft(v) ]
          /\ sessions \in [ S -> IF v < 3 THEN { "raw" } ELSE IF v = 3 THEN { "raw", "current" }
                                 ELSE { "current" } ]
          /\ automations \in [ A -> IF v < 3 THEN { "raw" } ELSE IF v = 3 THEN { "raw", "current" }
                                    ELSE { "current" } ]
    BY <1>1
  <2>2. DOMAIN jobs = J /\ \A j \in J : jobs[j] \in RowsLeft(v)
    BY <2>1
  <2>3. DOMAIN events = E /\ \A e \in E : events[e] \in EventsLeft(v)
    BY <2>1
  <2>4. DOMAIN sessions = S /\ \A s \in S : sessions[s] \in { "raw", "current" }
        /\ (v >= 4 => sessions[s] = "current")
    BY <2>1 DEF Binary
  <2>5. DOMAIN automations = A /\ \A a \in A : automations[a] \in { "raw", "current" }
        /\ (v >= 4 => automations[a] = "current")
    BY <2>1 DEF Binary
  <2> QED BY <2>1, <2>2, <2>3, <2>4, <2>5
<1>3. PICK d \in 1 .. Binary + 1 : v <= d /\ ledger = 2 .. d /\ (v # 0 => d = v) /\ (v = 0 => d = 1)
  BY <1>1 DEF Binary
<1>4. Durable = d /\ left.version = v /\ left.jobs = jobs
  BY <1>1, <1>3, HighestIs DEF Durable
<1>5. LedgerInOrder
  BY <1>1, <1>3, <1>4 DEF LedgerInOrder, Binary
<1>6. RowsCarried
  <2>1. ASSUME NEW j \in DOMAIN jobs
        PROVE  /\ jobs[j].kind \in Kinds /\ jobs[j] \in RowsOf(v, jobs[j].kind)
               /\ Carried(jobs[j], jobs[j], v, d)
    <3>1. v \in 1 .. Binary + 1 /\ d = v
      BY <1>2, <1>3, <2>1 DEF Binary
    <3>2. PICK kind \in Kinds : jobs[j] \in RowsOf(v, kind)
      BY <1>2 DEF RowsLeft
    <3>3. jobs[j].kind = kind
      BY <3>1, <3>2, RowLeft
    <3> QED BY <3>1, <3>2, <3>3, LeftIsCarried
  <2> QED BY <1>2, <1>4, <2>1 DEF RowsCarried
<1>7. EventsCarried
  <2>1. ASSUME NEW e \in DOMAIN events
        PROVE  /\ events[e] \in Event /\ (d >= 4 => events[e].timed)
               /\ events[e].about # "speech" \/ d >= 8 => events[e].source # "unnamed"
               /\ d >= 13 /\ events[e].about \in DOMAIN jobs =>
                    events[e].scope = jobs[events[e].about].scope
    <3>1. d = v /\ events[e] \in EventsLeft(v)
      BY <1>2, <1>3
    <3>2. d >= 13 /\ events[e].about \in DOMAIN jobs =>
            events[e].scope = jobs[events[e].about].scope
      <4> SUFFICES ASSUME d >= 13, events[e].about \in DOMAIN jobs
                   PROVE  events[e].scope = jobs[events[e].about].scope
        OBVIOUS
      <4>1. events[e] \in Event /\ events[e] = Canonical(events[e])
        BY <3>1 DEF EventsLeft
      <4>2. events[e].scope = ScopeOfRoute(events[e])
        BY <4>1 DEF Canonical, Event
      <4>3. events[e].about \notin { "dm", "thread" }
        BY <1>2, JobsAssumption
      <4> QED BY <4>2, <4>3 DEF ScopeOfRoute, ScopeOfJob
    <3> QED BY <3>1, <3>2 DEF EventsLeft
  <2>2. d >= 13 => OutcomesSettled
    BY <1>1, <1>3 DEF OutcomesSettled, Binary
  <2> QED BY <1>4, <2>1, <2>2 DEF EventsCarried
<1>8. EnvelopesCarried
  BY <1>2, <1>3, <1>4 DEF EnvelopesCarried, LacksEnvelopes
<1>9. PhaseInv
  BY <1>1 DEF PhaseInv
<1> QED BY <1>5, <1>6, <1>7, <1>8, <1>9 DEF CarriedInv

\* What is known of a row.
LEMMA RowKnown ==
    ASSUME CarriedInv, NEW j \in DOMAIN jobs
    PROVE  /\ left.version \in 1 .. Binary + 1 /\ left.version <= Durable
           /\ left.jobs[j].kind \in Kinds
           /\ left.jobs[j] \in RowsOf(left.version, left.jobs[j].kind)
           /\ Carried(jobs[j], left.jobs[j], left.version, Durable)
           /\ Durable < 3 /\ left.version < 3 => "jobs" \in legacy
           /\ jobs[j].kind = "refine_transcript" =>
                left.jobs[j].kind = "refine_transcript" /\ Durable < 8
           /\ jobs[j] \in Row /\ jobs[j].kind \in Kinds
<1>1. /\ left.version \in 1 .. Binary + 1 /\ left.version <= Durable
      /\ left.jobs[j].kind \in Kinds
      /\ left.jobs[j] \in RowsOf(left.version, left.jobs[j].kind)
      /\ Carried(jobs[j], left.jobs[j], left.version, Durable)
      /\ Durable < 3 /\ left.version < 3 => "jobs" \in legacy
  BY DEF CarriedInv, LedgerInOrder, RowsCarried, ScopedTables, Binary
<1>2. jobs[j] \in Row /\ BlobCarried(jobs[j], left.jobs[j], left.version, Durable)
  BY <1>1 DEF Carried
<1>3. jobs[j].kind = "refine_transcript" =>
        left.jobs[j].kind = "refine_transcript" /\ Durable < 8
  BY <1>2 DEF BlobCarried
<1> QED BY <1>1, <1>2, <1>3, BlobOfRow

\* Migration n is the next, and afterwards the last.
LEMMA AppliesNext ==
    ASSUME CarriedInv, NEW n \in 2 .. Binary, Applies(n)
    PROVE  /\ n = Durable + 1 /\ Durable \in 1 .. Binary /\ Durable' = n
           /\ ledger' = 2 .. n /\ left' = left /\ left.version <= Durable
           /\ phase = "migrating" /\ phase' = phase
           /\ legacy = IF left.version \in 1 .. 2 /\ Durable < 3 THEN ScopedTables ELSE {}
           /\ ~ Refuses(n)
<1>1. /\ n = Durable + 1 /\ ledger' = ledger \cup { n } /\ ledger = 2 .. Durable
      /\ Durable \in 1 .. Binary + 1 /\ left.version <= Durable
      /\ legacy = IF left.version \in 1 .. 2 /\ Durable < 3 THEN ScopedTables ELSE {}
  BY DEF CarriedInv, LedgerInOrder, Applies
<1>2. ledger' = 2 .. n
  <2>1. (2 .. Durable) \cup { Durable + 1 } = 2 .. Durable + 1
    BY <1>1 DEF Binary
  <2> QED BY <1>1, <2>1
<1>3. Durable' = n
  <2>0. n \in 1 .. Binary + 1
    BY DEF Binary
  <2>1. Highest(2 .. n) = n
    BY <2>0, HighestIs
  <2> QED BY <1>2, <2>1 DEF Durable
<1> QED BY <1>1, <1>2, <1>3 DEF Applies, Binary

\* What every migration does to the ledger and the phase.
LEMMA LedgerStep ==
    ASSUME CarriedInv, NEW n \in 2 .. Binary, Applies(n), legacy' = IF n = 3 THEN {} ELSE legacy
    PROVE  LedgerInOrder' /\ PhaseInv'
<1>1. /\ n = Durable + 1 /\ Durable \in 1 .. Binary /\ Durable' = n
      /\ ledger' = 2 .. n /\ left' = left /\ left.version <= Durable
      /\ phase = "migrating" /\ phase' = phase
      /\ legacy = IF left.version \in 1 .. 2 /\ Durable < 3 THEN ScopedTables ELSE {}
  BY AppliesNext
<1>2. left.version \in 0 .. Binary + 1
  BY DEF CarriedInv, LedgerInOrder
<1>3. LedgerInOrder'
  <2>1. legacy' = IF left.version \in 1 .. 2 /\ n < 3 THEN ScopedTables ELSE {}
    BY <1>1, <1>2 DEF Binary
  <2> QED BY <1>1, <1>2, <2>1 DEF LedgerInOrder, Binary
<1>4. PhaseInv'
  BY <1>1 DEF PhaseInv, Binary
<1> QED BY <1>3, <1>4

\* Rows that are carried one by one are carried; only refinements may be deleted.
LEMMA RowsStep ==
    ASSUME CarriedInv, NEW n \in 2 .. Binary, Applies(n), DOMAIN jobs' \subseteq DOMAIN jobs,
           \A j \in DOMAIN jobs : j \in DOMAIN jobs' \/ jobs[j].kind = "refine_transcript",
           \A j \in DOMAIN jobs' : Carried(jobs'[j], left.jobs[j], left.version, n)
    PROVE  RowsCarried'
<1>1. Durable' = n /\ left' = left
  BY AppliesNext
<1>2. \A j \in DOMAIN jobs : left.jobs[j].kind # "refine_transcript" => j \in DOMAIN jobs'
  BY RowKnown
<1>3. RowsCarried
  BY DEF CarriedInv
<1> QED BY <1>1, <1>2, <1>3 DEF RowsCarried

\* Events that a migration leaves alone.
LEMMA EventsStep ==
    ASSUME CarriedInv, NEW n \in 2 .. Binary, Applies(n), n \notin { 4, 8, 13 }, events' = events
    PROVE  EventsCarried'
<1>1. Durable' = n /\ n = Durable + 1 /\ Durable \in 1 .. Binary
  BY AppliesNext
<1> QED BY <1>1 DEF CarriedInv, EventsCarried, Binary

LEMMA EnvelopesStep ==
    ASSUME CarriedInv, NEW n \in 2 .. Binary, Applies(n), n # 4,
           sessions' = sessions, automations' = automations
    PROVE  EnvelopesCarried'
<1>1. Durable' = n /\ n = Durable + 1 /\ Durable \in 1 .. Binary
  BY AppliesNext
<1> QED BY <1>1 DEF CarriedInv, EnvelopesCarried, LacksEnvelopes, Binary

-----------------------------------------------------------------------------
(* The migrations keep the invariant, one by one. *)

LEMMA V0_2_0Carries ==
    ASSUME CarriedInv, V0_2_0
    PROVE  CarriedInv'
<1>1. Applies(2) /\ 2 \in 2 .. Binary
  BY DEF V0_2_0, Binary
<1>2. Durable = 1 /\ ~ Refuses(2) /\ left.version <= 1
  BY <1>1, AppliesNext
<1>3. RowsCarried'
  <2>1. ASSUME NEW j \in DOMAIN jobs
        PROVE  Carried(Enveloped(jobs[j]), left.jobs[j], left.version, 2)
    <3>1. /\ left.version \in 1 .. Binary + 1 /\ left.jobs[j].kind \in Kinds
          /\ left.jobs[j] \in RowsOf(left.version, left.jobs[j].kind)
          /\ Carried(jobs[j], left.jobs[j], left.version, 1) /\ "jobs" \in legacy
      BY <1>2, <2>1, RowKnown
    <3>2. Rewrites(2, jobs[j]) => Decoded(2, jobs[j]) # Unreadable
      BY <1>2, <2>1 DEF Refuses
    <3> QED BY <1>2, <3>1, <3>2, EnvelopedCarried
  <2>2. DOMAIN jobs' = DOMAIN jobs /\ \A j \in DOMAIN jobs : jobs'[j] = Enveloped(jobs[j])
    BY DEF V0_2_0
  <2> QED BY <1>1, <2>1, <2>2, RowsStep
<1>4. LedgerInOrder' /\ PhaseInv'
  BY <1>1, LedgerStep DEF V0_2_0
<1>5. EventsCarried' /\ EnvelopesCarried'
  BY <1>1, EventsStep, EnvelopesStep DEF V0_2_0
<1> QED BY <1>3, <1>4, <1>5 DEF CarriedInv

LEMMA V0_3_0Carries ==
    ASSUME CarriedInv, V0_3_0
    PROVE  CarriedInv'
<1>1. Applies(3) /\ 3 \in 2 .. Binary
  BY DEF V0_3_0, Binary
<1>2. Durable = 2 /\ Durable' = 3 /\ ~ Refuses(3) /\ left.version <= 2
  BY <1>1, AppliesNext
<1>3. RowsCarried'
  <2>1. ASSUME NEW j \in DOMAIN jobs
        PROVE  Carried(Rescoped(jobs[j]), left.jobs[j], left.version, 3)
    <3>1. /\ left.version \in 1 .. Binary + 1 /\ left.jobs[j].kind \in Kinds
          /\ left.jobs[j] \in RowsOf(left.version, left.jobs[j].kind)
          /\ Carried(jobs[j], left.jobs[j], left.version, 2) /\ "jobs" \in legacy
      BY <1>2, <2>1, RowKnown
    <3>2. Rewrites(3, jobs[j]) => Decoded(3, jobs[j]) # Unreadable
      BY <1>2, <2>1 DEF Refuses
    <3> QED BY <1>2, <3>1, <3>2, RescopedCarried
  <2>2. DOMAIN jobs' = DOMAIN jobs /\ \A j \in DOMAIN jobs : jobs'[j] = Rescoped(jobs[j])
    BY DEF V0_3_0
  <2> QED BY <1>1, <2>1, <2>2, RowsStep
<1>4. LedgerInOrder' /\ PhaseInv'
  BY <1>1, LedgerStep DEF V0_3_0
<1>5. EventsCarried'
  <2>1. DOMAIN events' = DOMAIN events
    BY DEF V0_3_0, EventsRescoped
  <2>2. ASSUME NEW e \in DOMAIN events
        PROVE  /\ events'[e] \in Event
               /\ events'[e].about # "speech" => events'[e].source # "unnamed"
    <3>1. events[e] \in Event /\ (events[e].about # "speech" => events[e].source # "unnamed")
      BY <2>2 DEF CarriedInv, EventsCarried
    <3>2. \/ events'[e] = [ events[e] EXCEPT !.scope = "voice_channel" ]
          \/ events'[e] = events[e]
      BY <2>2 DEF V0_3_0, EventsRescoped
    <3> QED BY <3>1, <3>2 DEF Event, Scopes
  <2> QED BY <1>2, <2>1, <2>2 DEF EventsCarried
<1>6. EnvelopesCarried'
  <2>1. /\ DOMAIN sessions' = DOMAIN sessions /\ DOMAIN automations' = DOMAIN automations
        /\ \A s \in DOMAIN sessions : sessions'[s] \in { sessions[s], "current" }
        /\ \A a \in DOMAIN automations : automations'[a] \in { automations[a], "current" }
    BY DEF V0_3_0, SessionsRescoped, AutomationsRescoped
  <2> QED BY <1>2, <2>1 DEF CarriedInv, EnvelopesCarried
<1> QED BY <1>3, <1>4, <1>5, <1>6 DEF CarriedInv

\* A migration that reads no payload and no row.
LEMMA SchemaMigrationCarries ==
    ASSUME CarriedInv, NEW n \in { 4, 5, 11 }, Applies(n), jobs' = jobs, legacy' = legacy,
           events' = events, outcomes' = outcomes,
           sessions' = sessions, automations' = automations
    PROVE  CarriedInv'
<1>1. n \in 2 .. Binary
  BY DEF Binary
<1>2. /\ n = Durable + 1 /\ Durable' = n /\ ~ Refuses(n) /\ Durable \in 1 .. Binary
  BY <1>1, AppliesNext
<1>3. RowsCarried'
  <2>1. ASSUME NEW j \in DOMAIN jobs
        PROVE  Carried(jobs[j], left.jobs[j], left.version, n)
    <3>1. Durable \in { 3, 4, 10, 11, 12 }
      BY <1>2
    <3> QED BY <1>2, <2>1, <3>1, RowKnown, UnreadIsCarried
  <2> QED BY <1>1, <2>1, RowsStep
<1>4. LedgerInOrder' /\ PhaseInv'
  BY <1>1, LedgerStep
<1>5. CASE n = 4
  <2>1. ~ LacksTimes /\ ~ LacksEnvelopes
    BY <1>2, <1>5 DEF Refuses
  <2>2. EventsCarried'
    BY <1>2, <1>5, <2>1 DEF CarriedInv, EventsCarried, LacksTimes
  <2>3. EnvelopesCarried'
    BY <1>2, <1>5, <2>1 DEF CarriedInv, EnvelopesCarried, LacksEnvelopes
  <2> QED BY <1>3, <1>4, <2>2, <2>3 DEF CarriedInv
<1>6. CASE n # 4
  BY <1>1, <1>3, <1>4, <1>6, EventsStep, EnvelopesStep DEF CarriedInv
<1> QED BY <1>5, <1>6

\* The rows after a migration that only rewrites payloads.
LEMMA ReencodedRows ==
    ASSUME CarriedInv, NEW n \in { 6, 7, 8, 9, 10 }, Applies(n), NEW D \in SUBSET DOMAIN jobs,
           jobs' = [ j \in D |-> Reencoded(n, jobs[j]) ],
           \A j \in DOMAIN jobs : j \in D \/ jobs[j].kind = "refine_transcript",
           n = 8 => \A j \in D : jobs[j].kind # "refine_transcript"
    PROVE  RowsCarried'
<1>1. n \in 2 .. Binary
  BY DEF Binary
<1>2. n - 1 = Durable /\ ~ Refuses(n)
  BY <1>1, AppliesNext
<1>3. ASSUME NEW j \in D
      PROVE  Carried(Reencoded(n, jobs[j]), left.jobs[j], left.version, n)
  <2>1. /\ left.version \in 1 .. Binary + 1 /\ left.jobs[j].kind \in Kinds
        /\ left.jobs[j] \in RowsOf(left.version, left.jobs[j].kind)
        /\ Carried(jobs[j], left.jobs[j], left.version, n - 1) /\ left.version <= n - 1
    BY <1>2, RowKnown
  <2>2. Rewrites(n, jobs[j]) => Decoded(n, jobs[j]) # Unreadable
    BY <1>2 DEF Refuses
  <2> QED BY <2>1, <2>2, ReencodedCarried
<1> QED BY <1>1, <1>3, RowsStep

LEMMA ReencodeCarries ==
    ASSUME CarriedInv, NEW n \in { 6, 7, 10 }, Reencode(n)
    PROVE  CarriedInv'
<1>1. Applies(n) /\ n \in 2 .. Binary
  BY DEF Reencode, Binary
<1>2. RowsCarried'
  BY <1>1, ReencodedRows DEF Reencode
<1>3. LedgerInOrder' /\ PhaseInv'
  BY <1>1, LedgerStep DEF Reencode
<1>4. EventsCarried' /\ EnvelopesCarried'
  BY <1>1, EventsStep, EnvelopesStep DEF Reencode
<1> QED BY <1>2, <1>3, <1>4 DEF CarriedInv

LEMMA V0_8_0Carries ==
    ASSUME CarriedInv, V0_8_0
    PROVE  CarriedInv'
<1>1. Applies(8) /\ 8 \in 2 .. Binary
  BY DEF V0_8_0, Binary
<1>2. Durable = 7 /\ Durable' = 8
  BY <1>1, AppliesNext
<1>3. RowsCarried'
  <2>1. /\ Kept \subseteq DOMAIN jobs /\ \A j \in Kept : jobs[j].kind # "refine_transcript"
        /\ \A j \in DOMAIN jobs : j \in Kept \/ jobs[j].kind = "refine_transcript"
    BY DEF Kept
  <2> HIDE DEF Kept
  <2> QED BY <1>1, <2>1, ReencodedRows DEF V0_8_0
<1>4. LedgerInOrder' /\ PhaseInv'
  BY <1>1, LedgerStep DEF V0_8_0
<1>5. EventsCarried'
  <2>1. DOMAIN events' = DOMAIN events
    BY DEF V0_8_0
  <2>2. ASSUME NEW e \in DOMAIN events
        PROVE  events'[e] \in Event /\ events'[e].timed /\ events'[e].source # "unnamed"
    <3>1. /\ events[e] \in Event /\ events[e].timed
          /\ events[e].about # "speech" => events[e].source # "unnamed"
      BY <1>2, <2>2 DEF CarriedInv, EventsCarried
    <3>2. events'[e] = [ events[e] EXCEPT !.source =
                           IF events[e].about = "speech" /\ events[e].source = "unnamed"
                           THEN "named" ELSE events[e].source ]
      BY <2>2 DEF V0_8_0, Sourced
    <3> QED BY <3>1, <3>2 DEF Event
  <2> QED BY <1>2, <2>1, <2>2 DEF EventsCarried
<1>6. EnvelopesCarried'
  BY <1>1, EnvelopesStep DEF V0_8_0
<1> QED BY <1>3, <1>4, <1>5, <1>6 DEF CarriedInv

LEMMA V0_9_0Carries ==
    ASSUME CarriedInv, V0_9_0
    PROVE  CarriedInv'
<1>1. Applies(9) /\ 9 \in 2 .. Binary
  BY DEF V0_9_0, Binary
<1>2. RowsCarried'
  <2>1. PICK D \in SUBSET DOMAIN jobs : D = DOMAIN jobs
    OBVIOUS
  <2> QED BY <1>1, <2>1, ReencodedRows DEF V0_9_0
<1>3. LedgerInOrder' /\ PhaseInv'
  BY <1>1, LedgerStep DEF V0_9_0
<1>4. EventsCarried' /\ EnvelopesCarried'
  BY <1>1, EventsStep, EnvelopesStep DEF V0_9_0
<1> QED BY <1>2, <1>3, <1>4 DEF CarriedInv

LEMMA V0_12_0Carries ==
    ASSUME CarriedInv, V0_12_0
    PROVE  CarriedInv'
<1>1. Applies(12) /\ 12 \in 2 .. Binary
  BY DEF V0_12_0, Binary
<1>2. Durable = 11 /\ Durable \in { 3, 4, 10, 11, 12 }
  BY <1>1, AppliesNext
<1>3. RowsCarried'
  <2>1. ASSUME NEW j \in DOMAIN jobs
        PROVE  Carried(jobs'[j], left.jobs[j], left.version, 12)
    <3>1. /\ left.version \in 1 .. Binary + 1 /\ left.jobs[j].kind \in Kinds
          /\ left.jobs[j] \in RowsOf(left.version, left.jobs[j].kind)
          /\ Carried(jobs[j], left.jobs[j], left.version, 11) /\ left.version <= 11
          /\ jobs[j] \in Row
      BY <1>2, <2>1, RowKnown
    <3>2. jobs'[j] = TimedOut(jobs[j]) \/ jobs'[j] = jobs[j]
      BY <2>1 DEF V0_12_0
    <3>3. /\ jobs'[j] \in Row /\ jobs'[j].kind = jobs[j].kind
          /\ jobs'[j].blob = jobs[j].blob /\ jobs'[j].scope = jobs[j].scope
      BY <3>1, <3>2, TimedOutRow
    <3> QED BY <1>2, <3>1, <3>3, UnreadIsCarried
  <2>2. DOMAIN jobs' = DOMAIN jobs
    BY DEF V0_12_0
  <2> QED BY <1>1, <2>1, <2>2, RowsStep
<1>4. LedgerInOrder' /\ PhaseInv'
  BY <1>1, LedgerStep DEF V0_12_0
<1>5. EventsCarried' /\ EnvelopesCarried'
  BY <1>1, EventsStep, EnvelopesStep DEF V0_12_0
<1> QED BY <1>3, <1>4, <1>5 DEF CarriedInv

LEMMA V0_13_0Carries ==
    ASSUME CarriedInv, V0_13_0
    PROVE  CarriedInv'
<1>1. Applies(13) /\ 13 \in 2 .. Binary /\ jobs' = jobs
  BY DEF V0_13_0, Binary
<1>2. Durable = 12 /\ Durable' = 13 /\ Durable \in { 3, 4, 10, 11, 12 }
  BY <1>1, AppliesNext
<1>3. RowsCarried'
  <2>1. ASSUME NEW j \in DOMAIN jobs
        PROVE  Carried(jobs[j], left.jobs[j], left.version, 13)
    BY <1>2, <2>1, RowKnown, UnreadIsCarried
  <2> QED BY <1>1, <2>1, RowsStep
<1>4. LedgerInOrder' /\ PhaseInv'
  BY <1>1, LedgerStep DEF V0_13_0
<1>5. EventsCarried'
  <2>1. DOMAIN events' = DOMAIN events
    BY DEF V0_13_0
  <2>2. ASSUME NEW e \in DOMAIN events
        PROVE  /\ events'[e] \in Event /\ events'[e].timed /\ events'[e].source # "unnamed"
               /\ events'[e].about \in DOMAIN jobs =>
                    events'[e].scope = jobs[events'[e].about].scope
    <3>1. /\ events[e] \in Event /\ events[e].timed /\ events[e].source # "unnamed"
      BY <1>2, <2>2 DEF CarriedInv, EventsCarried
    <3>2. events'[e] = [ events[e] EXCEPT !.scope = ScopeOfRoute(events[e]) ]
      BY <2>2 DEF V0_13_0, Canonical
    <3>3. events[e].about \in DOMAIN jobs =>
            /\ events[e].about \notin { "dm", "thread" }
            /\ jobs[events[e].about] \in Row
      BY RowKnown, JobsAssumption DEF CarriedInv, RowsCarried
    <3>4. /\ ScopeOfRoute(events[e]) \in Scopes \cup { "dm", "thread" }
          /\ events[e].about \in DOMAIN jobs =>
               ScopeOfRoute(events[e]) = jobs[events[e].about].scope
      <4>1. events[e].scope \in Scopes \cup { "dm", "thread" }
        BY <3>1 DEF Event
      <4>2. events[e].about \in DOMAIN jobs => jobs[events[e].about].scope \in Scopes
        BY <3>3, BlobOfRow
      <4> QED BY <3>3, <4>1, <4>2 DEF ScopeOfRoute, ScopeOfJob
    <3>5. /\ events'[e] \in Event /\ events'[e].timed /\ events'[e].source # "unnamed"
          /\ events'[e].about = events[e].about /\ events'[e].scope = ScopeOfRoute(events[e])
      <4> HIDE DEF ScopeOfRoute
      <4> QED BY <3>1, <3>2, <3>4 DEF Event
    <3> QED BY <3>4, <3>5
  <2>3. OutcomesSettled'
    BY <1>1 DEF V0_13_0, OutcomesSettled, Unrecorded
  <2> QED BY <1>1, <1>2, <2>1, <2>2, <2>3 DEF EventsCarried
<1>6. EnvelopesCarried'
  BY <1>1, EnvelopesStep DEF V0_13_0
<1> QED BY <1>3, <1>4, <1>5, <1>6 DEF CarriedInv

\* The rest of a start changes no row and no ledger.
LEMMA RestCarries ==
    ASSUME CarriedInv,
           Start \/ Refuse \/ CreateIndexes \/ AssertSchema \/ Stop \/ UNCHANGED migrationVars
    PROVE  CarriedInv'
<1>1. UNCHANGED << ledger, legacy, rowVars, left >>
  BY DEF Start, Refuse, CreateIndexes, AssertSchema, Stop, migrationVars, dataVars
<1>2. Durable' = Durable /\ Durable \in 1 .. Binary + 1
  BY <1>1 DEF Durable, CarriedInv, LedgerInOrder
<1>3. LedgerInOrder' /\ RowsCarried' /\ EventsCarried' /\ EnvelopesCarried'
  BY <1>1, <1>2 DEF CarriedInv, LedgerInOrder, RowsCarried, EventsCarried, EnvelopesCarried,
                    OutcomesSettled, LacksEnvelopes, rowVars
<1>4. PhaseInv'
  BY <1>2 DEF CarriedInv, PhaseInv, Start, Refuse, CreateIndexes, AssertSchema, Stop,
              migrationVars, dataVars, Binary
<1> QED BY <1>3, <1>4 DEF CarriedInv

\* Whatever version left the database, and wherever starts broke off, every row is
\* carried.
THEOREM RowsAreCarried == MigrationSpec => []CarriedInv
<1>1. MigrationInit => CarriedInv
  BY CarriedAtFirst
<1>2. CarriedInv /\ [MigrationNext]_migrationVars => CarriedInv'
  <2> SUFFICES ASSUME CarriedInv, [MigrationNext]_migrationVars  PROVE CarriedInv'
    OBVIOUS
  <2>1. CASE Start \/ Refuse \/ CreateIndexes \/ AssertSchema \/ Stop \/ UNCHANGED migrationVars
    BY <2>1, RestCarries
  <2>2. CASE V0_2_0 \/ V0_3_0 \/ V0_8_0 \/ V0_9_0 \/ V0_12_0 \/ V0_13_0
    BY <2>2, V0_2_0Carries, V0_3_0Carries, V0_8_0Carries, V0_9_0Carries, V0_12_0Carries,
       V0_13_0Carries
  <2>3. CASE V0_6_0 \/ V0_7_0 \/ V0_10_0
    BY <2>3, ReencodeCarries DEF V0_6_0, V0_7_0, V0_10_0
  <2>4. CASE V0_4_0 \/ V0_5_0 \/ V0_11_0
    <3>1. PICK n \in { 4, 5, 11 } : Applies(n) /\ legacy' = legacy /\ UNCHANGED rowVars
      BY <2>4 DEF V0_4_0, V0_5_0, V0_11_0
    <3> QED BY <3>1, SchemaMigrationCarries DEF rowVars
  <2> QED BY <2>1, <2>2, <2>3, <2>4 DEF MigrationNext
<1> QED BY <1>1, <1>2, PTL DEF MigrationSpec

\* Once 0.10.0 has been applied every row is current.
LEMMA AllCurrent ==
    ASSUME CarriedInv, Durable >= 10, NEW j \in DOMAIN jobs
    PROVE  /\ IsCurrent(jobs[j].blob) /\ jobs[j].kind # "refine_transcript"
           /\ left.jobs[j].kind # "refine_transcript"
           /\ Decode(jobs[j].blob) \in MayBecome(left.version, left.jobs[j].kind)
           /\ Decode(jobs[j].blob) # Unreadable
           /\ left.version > 1 => jobs[j].scope = LegacyScope(left.jobs[j].kind)
<1>1. /\ left.version \in 1 .. Binary + 1 /\ left.jobs[j].kind \in Kinds
      /\ left.jobs[j] \in RowsOf(left.version, left.jobs[j].kind)
      /\ Carried(jobs[j], left.jobs[j], left.version, Durable)
  BY RowKnown
<1>0. Durable \in 10 .. Binary + 1
  BY DEF CarriedInv, LedgerInOrder, Binary
<1>2. BlobCarried(jobs[j], left.jobs[j], left.version, Durable)
  BY <1>1 DEF Carried
<1>3. IsCurrent(jobs[j].blob)
  <2> SUFFICES ASSUME ~ IsCurrent(jobs[j].blob)  PROVE FALSE
    OBVIOUS
  <2>1. /\ jobs[j].blob = left.jobs[j].blob
        /\ Durable < IF jobs[j].kind = "refine_transcript" THEN 8 ELSE Rewriter(left.jobs[j].blob)
    BY <1>2 DEF BlobCarried
  <2>2. left.version < 10 => Rewriter(left.jobs[j].blob) \in 2 .. 10
    BY <1>1, RowLeft, BlobLeft
  <2>3. left.version < 10
    BY <1>1, <2>1, RowLeft, BlobLeft
  <2> QED BY <1>0, <2>1, <2>2, <2>3 DEF Binary
<1>4. /\ jobs[j].blob.old = {}
      /\ jobs[j].blob.payload \in MayBecome(left.version, left.jobs[j].kind)
      /\ jobs[j].kind # "refine_transcript" /\ left.jobs[j].kind # "refine_transcript"
  BY <1>2, <1>3 DEF BlobCarried
<1>5. jobs[j].blob.payload # "refine_transcript" /\ jobs[j].blob.payload # Unreadable
  BY <1>1, <1>4, MayBecomeKind
<1>6. Decode(jobs[j].blob) = jobs[j].blob.payload
  BY <1>3, <1>4, <1>5, CurrentReads
<1>7. left.version > 1 => jobs[j].scope = LegacyScope(left.jobs[j].kind)
  BY <1>0, <1>1, <1>4 DEF Carried, ScopeCarried, Binary
<1> QED BY <1>3, <1>4, <1>5, <1>6, <1>7

\* No blob is left behind for a program that no longer has its reader: the ledger is
\* never past the migration that reads it, in any store the migrations touch.
THEOREM NoneLeftBehind == MigrationSpec => []NoBlobLeftBehind
<1>1. CarriedInv => NoBlobLeftBehind
  <2> SUFFICES ASSUME CarriedInv, NEW j \in DOMAIN jobs, ~ IsCurrent(jobs[j].blob)
               PROVE  Durable < IF jobs[j].kind = "refine_transcript" THEN 8
                                ELSE Rewriter(jobs[j].blob)
    BY DEF NoBlobLeftBehind
  <2> QED BY RowKnown DEF Carried, BlobCarried
<1> QED BY <1>1, RowsAreCarried, PTL

\* The runtime runs over a store in which every job is one it reads, of the kind it
\* was stored with or the one that took its number, and whose events and outcomes
\* agree with the jobs.
THEOREM RunsOverASettledStore == MigrationSpec => []RunningIsSettled
<1>1. CarriedInv => RunningIsSettled
  <2> SUFFICES ASSUME CarriedInv, phase = "running"
               PROVE  /\ JobsSettled /\ EventsSettled /\ OutcomesSettled
                      /\ \A j \in DOMAIN jobs : jobs[j].kind # "refine_transcript"
                      /\ \A s \in DOMAIN sessions : sessions[s] = "current"
                      /\ \A a \in DOMAIN automations : automations[a] = "current"
    BY DEF RunningIsSettled
  <2>1. Durable = Binary /\ Durable >= 10
    BY DEF CarriedInv, PhaseInv, Binary
  <2>2. JobsSettled
    BY <2>1, AllCurrent DEF CarriedInv, RowsCarried, JobsSettled
  <2>3. EventsSettled /\ OutcomesSettled
    BY <2>1 DEF CarriedInv, EventsCarried, EventsSettled, Binary
  <2>4. /\ \A s \in DOMAIN sessions : sessions[s] = "current"
        /\ \A a \in DOMAIN automations : automations[a] = "current"
    BY <2>1 DEF CarriedInv, EnvelopesCarried, LacksEnvelopes, Binary
  <2> QED BY <2>1, <2>2, <2>3, <2>4, AllCurrent
<1> QED BY <1>1, RowsAreCarried, PTL

-----------------------------------------------------------------------------
(* What is refused. *)

\* Every body states a scope, and the payloads that may be taken for the next kind
\* have nothing else that was ever laid out differently.
LEMMA BodiesAre ==
    ASSUME NEW kind \in Kinds, NEW parts \in Bodies[kind]
    PROVE  /\ "scope" \in parts /\ parts \subseteq Parts
           /\ kind \in DOMAIN Next1 => "variant" \in parts /\ parts \subseteq { "scope", "variant", "snapshot" }
BY PartsAre DEF Kinds, Bodies, Next1

\* A body is readable when it fits, or when only its number moved.
LEMMA ReadableIf ==
    ASSUME NEW b, b.payload \in Kinds, b.payload # "refine_transcript", NEW shape,
           Fits(b, shape) \/ FitsShifted(b, shape)
    PROVE  ReadAs(b, shape) # Unreadable
BY NextKinds, KindsAreReadable DEF ReadAs, FitsShifted

\* The blobs of 0.1.0 and of 0.2.0 that their migrations cannot read.
LEMMA EarlyStranded ==
    ASSUME NEW v \in { 1, 2 }, NEW kind \in Kinds, NEW b \in BlobsOf(v, kind),
           kind # "refine_transcript",
           b.parts \cap { "invocation", "attachments", "slot", "snapshot" } = {},
           "variant" \in b.parts => kind \in DOMAIN Next1
    PROVE  DecodeOld(v + 1, b) # Unreadable
<1>1. /\ b.payload = kind /\ b.envelope = Envelope(v) /\ b.parts \in Bodies[kind]
      /\ b.old \in OldParts(v, b.parts)
  BY BlobLeft DEF Binary
<1>2. /\ "scope" \in b.parts /\ b.parts \subseteq { "slash", "scope", "variant" }
      /\ kind \in DOMAIN Next1 => "variant" \in b.parts /\ "slash" \notin b.parts
  BY <1>1, BodiesAre, PartsAre
<1>3. CASE v = 1
  <2>1. Frozen(v, b.parts) = b.parts
    BY <1>2, <1>3, PartsAre DEF Frozen
  <2>2. b.old = b.parts \/ b.old = b.parts \ { "slash" }
    BY <1>1, <1>3, <2>1 DEF OldParts
  <2>3. Fits(b, PreV0_2_0Job) \/ FitsShifted(b, PreV0_2_0Job) \/ Fits(b, PreV0_2_0SlashJob)
    <3>1. CASE "variant" \in b.parts
      BY <1>1, <1>2, <2>2, <3>1 DEF FitsShifted, PreV0_2_0Job
    <3>2. CASE "variant" \notin b.parts /\ b.old = b.parts \ { "slash" }
      BY <1>2, <3>2 DEF Fits, PreV0_2_0Job
    <3>3. CASE "variant" \notin b.parts /\ b.old = b.parts
      BY <1>2, <3>3 DEF Fits, PreV0_2_0SlashJob
    <3> QED BY <2>2, <3>1, <3>2, <3>3
  <2>4. ReadAs(b, PreV0_2_0Job) # Unreadable \/ ReadAs(b, PreV0_2_0SlashJob) # Unreadable
    BY <1>1, <2>3, ReadableIf
  <2>5. DecodeOld(v + 1, b) = ReadAsEither(b, PreV0_2_0Job, PreV0_2_0SlashJob)
    BY <1>1, <1>3 DEF DecodeOld, FromPreV0_2_0, Envelope
  <2> QED BY <2>4, <2>5 DEF ReadAsEither
<1>4. CASE v = 2
  <2>1. b.old = b.parts \ { "slash" }
    <3>1. b.old = Frozen(v, b.parts)
      BY <1>1, <1>4 DEF OldParts
    <3> QED BY <1>2, <1>4, <3>1, PartsAre DEF Frozen
  <2>2. Fits(b, PreV0_3_0Job) \/ FitsShifted(b, PreV0_3_0Job)
    <3>1. CASE "variant" \in b.parts
      BY <1>1, <1>2, <2>1, <3>1 DEF FitsShifted, PreV0_3_0Job
    <3>2. CASE "variant" \notin b.parts
      BY <1>2, <2>1, <3>2 DEF Fits, PreV0_3_0Job
    <3> QED BY <3>1, <3>2
  <2>3. DecodeOld(v + 1, b) = ReadAs(b, PreV0_3_0Job)
    BY <1>1, <1>4 DEF DecodeOld, FromPreV0_3_0, Envelope
  <2> QED BY <1>1, <2>2, <2>3, ReadableIf
<1> QED BY <1>3, <1>4

\* The blobs of the later versions that their migrations cannot read: only those
\* with a snapshot, and not 0.9.0's.
LEMMA LateStranded ==
    ASSUME NEW v \in 3 .. 9, NEW kind \in Kinds, NEW b \in BlobsOf(v, kind),
           kind # "refine_transcript", v # 9 => "snapshot" \notin b.parts
    PROVE  DecodeOld(Rewriter(b), b) # Unreadable
<1>1. /\ b.payload = kind /\ b.envelope = Envelope(v) /\ b.parts \subseteq Parts
      /\ b.old \in OldParts(v, b.parts)
      /\ Rewriter(b) = IF v < 6 THEN 6 ELSE v + 1
  BY BlobLeft, BodiesAre DEF Binary
<1>2. b.old = Frozen(v, b.parts) \/ (v = 9 /\ b.old = {})
  BY <1>1 DEF OldParts
<1>3. b.envelope = IF v < 6 THEN 3 ELSE v - 2
  BY <1>1, EnvelopesAre DEF Binary
<1>4. CASE v \in 3 .. 5
  <2>1. b.old = b.parts \cap PreV0_6_0Job
    BY <1>1, <1>2, <1>4, PartsAre DEF Frozen, PreV0_6_0Job
  <2>2. ReadAs(b, PreV0_6_0Job) # Unreadable
    BY <1>1, <2>1, ReadableIf DEF Fits
  <2> QED BY <1>1, <1>3, <1>4, <2>2 DEF DecodeOld, FromPreV0_6_0, ReadAsEither
<1>5. CASE v = 6
  <2>1. b.old = b.parts \cap PreV0_7_0Job
    BY <1>1, <1>2, <1>5, PartsAre DEF Frozen, PreV0_7_0Job
  <2> QED BY <1>1, <1>3, <1>5, <2>1, ReadableIf DEF DecodeOld, FromPreV0_7_0, Fits
<1>6. CASE v = 7
  <2>1. b.old = b.parts \cap PreV0_8_0Job
    BY <1>1, <1>2, <1>6, PartsAre DEF Frozen, PreV0_8_0Job
  <2> QED BY <1>1, <1>3, <1>6, <2>1, ReadableIf DEF DecodeOld, FromPreV0_8_0, Fits
<1>7. CASE v = 8
  <2>1. b.old = b.parts \cap Job
    BY <1>1, <1>2, <1>7, PartsAre DEF Frozen, Job
  <2> QED BY <1>1, <1>3, <1>7, <2>1, ReadableIf DEF DecodeOld, FromPreV0_9_0, Fits
<1>8. CASE v = 9
  <2>1. b.old = b.parts \cap PreV0_10_0Job \/ b.old = b.parts \cap Job
    BY <1>1, <1>2, <1>8, PartsAre DEF Frozen, PreV0_10_0Job, Job
  <2>2. ReadAs(b, Job) # Unreadable \/ ReadAs(b, PreV0_10_0Job) # Unreadable
    BY <1>1, <2>1, ReadableIf DEF Fits
  <2> QED BY <1>1, <1>3, <1>8, <2>2 DEF DecodeOld, FromPreV0_10_0, ReadAsEither
<1> QED BY <1>4, <1>5, <1>6, <1>7, <1>8

\* A row that the next migration cannot read is stranded.
LEMMA RefusedIsStranded ==
    ASSUME CarriedInv, NEW j \in DOMAIN jobs, NEW n \in { 2, 3, 6, 7, 8, 9, 10 }, n = Durable + 1,
           Rewrites(n, jobs[j]), Decoded(n, jobs[j]) = Unreadable
    PROVE  Stranded(jobs[j])
<1>1. PICK v \in 1 .. Binary + 1, kind \in Kinds, r \in Row :
        v = left.version /\ kind = left.jobs[j].kind /\ r = jobs[j]
  BY RowKnown
<1>2. PICK was \in RowsOf(v, kind) : was = left.jobs[j]
  BY <1>1, RowKnown
<1>3. /\ BlobCarried(r, was, v, Durable) /\ v <= Durable
      /\ r.kind = "refine_transcript" => Durable < 8
      /\ was.kind = kind /\ was.blob \in BlobsOf(v, kind)
  BY <1>1, <1>2, RowKnown, RowLeft DEF Carried
<1>4. Durable \in 1 .. 9 /\ Durable = n - 1
  BY DEF CarriedInv, LedgerInOrder
<1>5. ~ IsCurrent(r.blob)
  <2> SUFFICES ASSUME IsCurrent(r.blob)  PROVE FALSE
    OBVIOUS
  <2>1. /\ r.blob.old = {} /\ r.blob.payload \in MayBecome(v, kind)
        /\ kind # "refine_transcript"
    BY <1>3 DEF BlobCarried
  <2>2. r.blob.payload # "refine_transcript" /\ r.blob.payload # Unreadable
    BY <2>1, MayBecomeKind
  <2>3. Decoded(n, r) = r.blob.payload
    BY <2>1, <2>2, CurrentReads DEF Decoded
  <2> QED BY <1>1, <2>2, <2>3
<1>6. /\ r.blob = was.blob /\ r.kind = kind /\ DecodeOld(n, r.blob) = Unreadable
      /\ Durable < IF kind = "refine_transcript" THEN 8 ELSE Rewriter(r.blob)
  BY <1>1, <1>3, <1>5 DEF BlobCarried, Decoded
<1>7. /\ v < 10 /\ r.blob.envelope = Envelope(v)
      /\ Rewriter(r.blob) = IF v < 3 THEN v + 1 ELSE IF v < 6 THEN 6 ELSE v + 1
  BY <1>3, <1>5, <1>6, BlobLeft
<1>8. r.blob.envelope = IF v = 1 THEN 0 ELSE IF v = 2 THEN 2 ELSE IF v < 6 THEN 3 ELSE v - 2
  BY <1>7, EnvelopesAre
<1>9. CASE kind = "refine_transcript"
  <2>1. n \notin { 3, 6, 7, 8 } /\ n < 9
    BY <1>1, <1>3, <1>4, <1>6, <1>9 DEF Rewrites, Reads
  <2>2. v = 1
    BY <1>3, <1>4, <2>1
  <2> QED BY <1>1, <1>6, <1>8, <1>9, <2>2 DEF Stranded
<1>10. CASE kind # "refine_transcript"
  <2>1. n = Rewriter(r.blob)
    BY <1>3, <1>4, <1>6, <1>7, <1>10
  <2>2. CASE v \in { 1, 2 }
    <3>1. n = v + 1
      BY <1>7, <2>1, <2>2
    <3>2. \/ r.blob.parts \cap { "invocation", "attachments", "slot", "snapshot" } # {}
          \/ "variant" \in r.blob.parts /\ kind \notin DOMAIN Next1
      BY <1>3, <1>6, <1>10, <2>2, <3>1, EarlyStranded
    <3> QED BY <1>1, <1>6, <1>8, <1>10, <2>2, <3>2 DEF Stranded
  <2>3. CASE v \in 3 .. 9
    <3>1. v # 9 /\ "snapshot" \in r.blob.parts
      BY <1>3, <1>6, <1>10, <2>1, <2>3, LateStranded
    <3> QED BY <1>1, <1>8, <2>3, <3>1 DEF Stranded
  <2> QED BY <1>7, <2>2, <2>3
<1> QED BY <1>9, <1>10

\* What the migrations find and cannot take is known.
LEMMA RefusedIsKnown ==
    ASSUME CarriedInv, SchemaInv, Durable < Binary, Refuses(Durable + 1)
    PROVE  \/ "required_times" \notin schema /\ LacksTimes
           \/ LacksRoutes
           \/ \E s \in DOMAIN sessions : sessions[s] = "raw"
           \/ \E a \in DOMAIN automations : automations[a] = "raw"
           \/ \E j \in DOMAIN jobs : Stranded(jobs[j])
           \/ Durable = 11
<1>1. PICK n \in 2 .. Binary : n = Durable + 1 /\ Refuses(n)
  BY DEF CarriedInv, LedgerInOrder, Binary
<1>2. CASE \E j \in DOMAIN jobs :
             /\ n \in { 2, 3, 6, 7, 8, 9, 10 }
             /\ Rewrites(n, jobs[j]) /\ Decoded(n, jobs[j]) = Unreadable
  BY <1>1, <1>2, RefusedIsStranded
<1>3. CASE n = 4 /\ (LacksTimes \/ LacksEnvelopes)
  BY <1>3 DEF SchemaInv, CarriedInv, EnvelopesCarried, LacksEnvelopes
<1>4. CASE n = 12
  BY <1>1, <1>4 DEF CarriedInv, LedgerInOrder
<1>5. CASE n = 13 /\ (LacksRoutes \/ \E j \in Unrecorded : Decode(jobs[j].blob) = Unreadable)
  <2>1. ASSUME NEW j \in Unrecorded
        PROVE  Decode(jobs[j].blob) # Unreadable
    <3>1. Durable >= 10 /\ j \in DOMAIN jobs
      BY <1>1, <1>5, <2>1 DEF Unrecorded, CarriedInv, LedgerInOrder
    <3> QED BY <3>1, AllCurrent
  <2> QED BY <1>5, <2>1
<1> QED BY <1>1, <1>2, <1>3, <1>4, <1>5 DEF Refuses

\* The parts of the schema, and the versions that brought them.
LEMMA SchemaParts ==
    /\ ExpectedSchema = { "tables", "required_times", "transcription_slots",
                          "requires_single_slot", "wake_activation_progress",
                          "operational_job_outcomes", "slot_indexes", "source_indexes",
                          "recent_index", "interval_index", "transition_index" }
    /\ BroughtBy["required_times"] = 4 /\ BroughtBy["transcription_slots"] = 8
    /\ BroughtBy["slot_indexes"] = 8 /\ BroughtBy["source_indexes"] = 9
    /\ BroughtBy["recent_index"] = 11 /\ BroughtBy["requires_single_slot"] = 12
    /\ BroughtBy["interval_index"] = 12 /\ BroughtBy["wake_activation_progress"] = 12
    /\ BroughtBy["operational_job_outcomes"] = 13 /\ BroughtBy["transition_index"] = 13
    /\ BroughtBy["tables"] = 1
    /\ DOMAIN DroppedBy = { "retention_index", "authoritative_spans" }
    /\ DroppedBy["retention_index"] = 5 /\ DroppedBy["authoritative_spans"] = 8
BY DEF ExpectedSchema, LaterTables, Indexes, BroughtBy, DroppedBy

LEMMA SchemaAtFirst ==
    ASSUME MigrationInit, CarriedInv
    PROVE  SchemaInv
<1>1. /\ left.version \in 0 .. Binary + 1 /\ schema = SchemaOf(left.version)
      /\ phase = "down" /\ (left.version = 0 => DOMAIN events = {})
      /\ ledger = 2 .. left.version
  <2>1. PICK v \in 0 .. Binary + 1 :
          /\ phase = "down" /\ ledger = 2 .. v /\ left = [ version |-> v, jobs |-> jobs ]
          /\ schema = SchemaOf(v)
          /\ \E J \in SUBSET Jobs, E \in SUBSET Events, S \in SUBSET Sessions, A \in SUBSET Autos :
               (v = 0 => J \cup E \cup S \cup A = {}) /\ events \in [ E -> EventsLeft(v) ]
    BY DEF MigrationInit
  <2>2. v = 0 => DOMAIN events = {}
    BY <2>1
  <2> QED BY <2>1, <2>2
<1>2. Durable \in 1 .. Binary + 1 /\ left.version <= Durable
      /\ (left.version > 0 => Durable = left.version) /\ (left.version = 0 => Durable = 1)
  <2>1. PICK d \in 1 .. Binary + 1 :
          /\ left.version <= d /\ ledger = 2 .. d
          /\ (left.version > 0 => d = left.version) /\ (left.version = 0 => d = 1)
    <3>1. CASE left.version = 0
      <4>1. 2 .. 0 = 2 .. 1 /\ 1 \in 1 .. Binary + 1
        BY DEF Binary
      <4> QED BY <1>1, <3>1, <4>1
    <3>2. CASE left.version # 0
      <4>1. left.version \in 1 .. Binary + 1
        BY <1>1, <3>2 DEF Binary
      <4> QED BY <1>1, <4>1
    <3> QED BY <3>1, <3>2
  <2>2. Durable = d
    BY <2>1, HighestIs DEF Durable
  <2> QED BY <2>1, <2>2
<1>3. "required_times" \in schema => ~ LacksTimes
  <2>1. "required_times" \in schema => Durable >= 4
    BY <1>1, <1>2, SchemaParts DEF SchemaOf
  <2> QED BY <2>1 DEF CarriedInv, EventsCarried, LacksTimes
<1>4. schema \subseteq ExpectedSchema \cup DOMAIN DroppedBy
  BY <1>1 DEF SchemaOf
<1>5. Durable >= 5 => "retention_index" \notin schema
  BY <1>1, <1>2, SchemaParts DEF SchemaOf, Binary
<1>6. \A x \in ExpectedSchema \ { "tables" } : BroughtBy[x] <= Durable => x \in schema
  BY <1>1, <1>2, SchemaParts DEF SchemaOf, Binary
<1>7. left.version # 0 => "tables" \in schema
  BY <1>1, SchemaParts DEF SchemaOf, Binary
<1> QED BY <1>1, <1>3, <1>4, <1>5, <1>6, <1>7 DEF SchemaInv, SoundRowsAreTaken

\* What a migration does to the schema: it adds what it brings.
LEMMA SchemaStep ==
    ASSUME CarriedInv, CarriedInv', SchemaInv, NEW n \in 2 .. Binary, Applies(n),
           schema' \subseteq ExpectedSchema \cup DOMAIN DroppedBy,
           schema \ schema' \subseteq DOMAIN DroppedBy,
           n = 5 => "retention_index" \notin schema',
           "retention_index" \in schema' => "retention_index" \in schema,
           \A x \in ExpectedSchema : BroughtBy[x] = n => x \in schema',
           n < 4 => schema' = schema /\ (LacksTimes' <=> LacksTimes),
           DOMAIN events' = DOMAIN events
    PROVE  SchemaInv'
<1>1. /\ n = Durable + 1 /\ Durable' = n /\ left' = left /\ phase = "migrating" /\ phase' = phase
      /\ Durable \in 1 .. Binary
  BY AppliesNext
<1>2. "required_times" \in schema' => ~ LacksTimes'
  <2>1. n >= 4 => ~ LacksTimes'
    BY <1>1 DEF CarriedInv, EventsCarried, LacksTimes
  <2> QED BY <2>1 DEF SchemaInv
<1>3. \A x \in ExpectedSchema \ { "tables" } : BroughtBy[x] <= n => x \in schema'
  <2> SUFFICES ASSUME NEW x \in ExpectedSchema \ { "tables" }, BroughtBy[x] <= n
               PROVE  x \in schema'
    OBVIOUS
  <2>1. BroughtBy[x] \in 1 .. 13 /\ x \notin DOMAIN DroppedBy
    BY SchemaParts
  <2>2. BroughtBy[x] <= Durable \/ BroughtBy[x] = n
    BY <1>1, <2>1 DEF Binary
  <2> QED BY <2>1, <2>2 DEF SchemaInv
<1>4. "tables" \in schema'
  BY <1>1, SchemaParts DEF SchemaInv
<1>5. n >= 5 => "retention_index" \notin schema'
  BY <1>1 DEF SchemaInv
<1> QED BY <1>1, <1>2, <1>3, <1>4, <1>5 DEF SchemaInv, SoundRowsAreTaken

LEMMA SchemaAfterMigration ==
    ASSUME CarriedInv, CarriedInv', SchemaInv,
           \/ V0_2_0 \/ V0_3_0 \/ V0_4_0 \/ V0_5_0 \/ V0_6_0 \/ V0_7_0 \/ V0_8_0 \/ V0_9_0 \/ V0_10_0
           \/ V0_11_0 \/ V0_12_0 \/ V0_13_0
    PROVE  SchemaInv'
<1>0. schema \subseteq ExpectedSchema \cup DOMAIN DroppedBy
  BY DEF SchemaInv
<1>1. CASE V0_2_0
  <2>1. Applies(2) /\ schema' = schema /\ events' = events /\ 2 \in 2 .. Binary
    BY <1>1 DEF V0_2_0, Binary
  <2>2. (LacksTimes' <=> LacksTimes) /\ \A x \in ExpectedSchema : BroughtBy[x] # 2
    BY <2>1, SchemaParts DEF LacksTimes
  <2> QED BY <1>0, <2>1, <2>2, SchemaStep
<1>2. CASE V0_3_0
  <2>1. Applies(3) /\ schema' = schema /\ events' = EventsRescoped /\ 3 \in 2 .. Binary
    BY <1>2 DEF V0_3_0, Binary
  <2>2. DOMAIN events' = DOMAIN events /\ \A e \in DOMAIN events : events'[e].timed = events[e].timed
    <3>1. ASSUME NEW e \in DOMAIN events
          PROVE  events'[e].timed = events[e].timed
      <4>1. events[e] \in Event
        BY <3>1 DEF CarriedInv, EventsCarried
      <4>2. \/ events'[e] = [ events[e] EXCEPT !.scope = "voice_channel" ]
            \/ events'[e] = events[e]
        BY <2>1, <3>1 DEF EventsRescoped
      <4> QED BY <4>1, <4>2 DEF Event
    <3> QED BY <2>1, <3>1 DEF EventsRescoped
  <2>3. (LacksTimes' <=> LacksTimes) /\ \A x \in ExpectedSchema : BroughtBy[x] # 3
    BY <2>2, SchemaParts DEF LacksTimes
  <2> QED BY <1>0, <2>1, <2>2, <2>3, SchemaStep
<1>3. CASE V0_4_0
  <2>1. Applies(4) /\ schema' = schema \cup { "required_times" } /\ events' = events /\ 4 \in 2 .. Binary
    BY <1>3 DEF V0_4_0, rowVars, Binary
  <2>2. \A x \in ExpectedSchema : BroughtBy[x] = 4 => x \in schema'
    BY <2>1, SchemaParts
  <2> QED BY <1>0, <2>1, <2>2, SchemaParts, SchemaStep
<1>4. CASE V0_5_0
  <2>1. Applies(5) /\ schema' = schema \ { "retention_index" } /\ events' = events /\ 5 \in 2 .. Binary
    BY <1>4 DEF V0_5_0, rowVars, Binary
  <2>2. \A x \in ExpectedSchema : BroughtBy[x] # 5
    BY SchemaParts
  <2> QED BY <1>0, <2>1, <2>2, SchemaParts, SchemaStep
<1>5. CASE V0_6_0 \/ V0_7_0 \/ V0_10_0
  <2>1. PICK n \in { 6, 7, 10 } : Applies(n) /\ schema' = schema /\ events' = events
    BY <1>5 DEF V0_6_0, V0_7_0, V0_10_0, Reencode
  <2>2. n \in 2 .. Binary /\ \A x \in ExpectedSchema : BroughtBy[x] # n
    BY SchemaParts DEF Binary
  <2> QED BY <1>0, <2>1, <2>2, SchemaStep
<1>6. CASE V0_8_0
  <2>1. /\ Applies(8) /\ DOMAIN events' = DOMAIN events /\ 8 \in 2 .. Binary
        /\ schema' = (schema \cup { "transcription_slots", "slot_indexes" }) \ { "authoritative_spans" }
    BY <1>6 DEF V0_8_0, Binary
  <2>2. \A x \in ExpectedSchema : BroughtBy[x] = 8 => x \in schema'
    BY <2>1, SchemaParts
  <2> QED BY <1>0, <2>1, <2>2, SchemaParts, SchemaStep
<1>7. CASE V0_9_0
  <2>1. /\ Applies(9) /\ schema' = schema \cup { "source_indexes" } /\ events' = events
        /\ 9 \in 2 .. Binary
    BY <1>7 DEF V0_9_0, Binary
  <2>2. \A x \in ExpectedSchema : BroughtBy[x] = 9 => x \in schema'
    BY <2>1, SchemaParts
  <2> QED BY <1>0, <2>1, <2>2, SchemaParts, SchemaStep
<1>8. CASE V0_11_0
  <2>1. /\ Applies(11) /\ schema' = schema \cup { "recent_index" } /\ events' = events
        /\ 11 \in 2 .. Binary
    BY <1>8 DEF V0_11_0, rowVars, Binary
  <2>2. \A x \in ExpectedSchema : BroughtBy[x] = 11 => x \in schema'
    BY <2>1, SchemaParts
  <2> QED BY <1>0, <2>1, <2>2, SchemaParts, SchemaStep
<1>9. CASE V0_12_0
  <2>1. /\ Applies(12) /\ events' = events /\ 12 \in 2 .. Binary
        /\ schema' = schema \cup { "requires_single_slot", "interval_index",
                                   "wake_activation_progress" }
    BY <1>9 DEF V0_12_0, Binary
  <2>2. \A x \in ExpectedSchema : BroughtBy[x] = 12 => x \in schema'
    BY <2>1, SchemaParts
  <2> QED BY <1>0, <2>1, <2>2, SchemaParts, SchemaStep
<1>10. CASE V0_13_0
  <2>1. /\ Applies(13) /\ DOMAIN events' = DOMAIN events /\ 13 \in 2 .. Binary
        /\ schema' = schema \cup { "operational_job_outcomes", "transition_index" }
    BY <1>10 DEF V0_13_0, Binary
  <2>2. \A x \in ExpectedSchema : BroughtBy[x] = 13 => x \in schema'
    BY <2>1, SchemaParts
  <2> QED BY <1>0, <2>1, <2>2, SchemaParts, SchemaStep
<1> QED BY <1>1, <1>2, <1>3, <1>4, <1>5, <1>6, <1>7, <1>8, <1>9, <1>10

\* The schema that every start ends with is the expected one.
LEMMA SchemaIsExpected ==
    ASSUME CarriedInv, SchemaInv, phase = "indexed"
    PROVE  SchemaHolds
<1>1. Durable = Binary /\ legacy = {}
  BY DEF CarriedInv, PhaseInv, LedgerInOrder, Binary
<1>2. \A x \in ExpectedSchema : x \in schema
  <2>1. \A x \in ExpectedSchema : BroughtBy[x] <= Binary
    BY SchemaParts DEF Binary
  <2> QED BY <1>1, <2>1 DEF SchemaInv
<1>3. schema \subseteq ExpectedSchema \cup { "authoritative_spans" }
  BY <1>1, SchemaParts DEF SchemaInv, Binary
<1>4. "authoritative_spans" \notin ExpectedSchema
  BY SchemaParts
<1> QED BY <1>1, <1>2, <1>3, <1>4 DEF SchemaHolds

LEMMA SchemaOtherwise ==
    ASSUME CarriedInv, SchemaInv,
           Start \/ Refuse \/ CreateIndexes \/ AssertSchema \/ Stop \/ UNCHANGED migrationVars
    PROVE  SchemaInv'
<1>1. /\ UNCHANGED << ledger, legacy, rowVars, left >> /\ Durable' = Durable
      /\ (LacksTimes' <=> LacksTimes) /\ DOMAIN events' = DOMAIN events
      /\ Durable \in 1 .. Binary + 1
  BY DEF Start, Refuse, CreateIndexes, AssertSchema, Stop, migrationVars, dataVars, rowVars,
         Durable, LacksTimes, CarriedInv, LedgerInOrder
<1>2. CASE Start
  <2>1. /\ schema' = CreateTables(schema)
        /\ phase' = IF Durable > Binary THEN "failed" ELSE "migrating"
    BY <1>2 DEF Start
  <2>2. /\ schema \subseteq schema' /\ "tables" \in schema'
        /\ schema' \subseteq schema \cup { "tables", "required_times", "transcription_slots",
             "requires_single_slot", "wake_activation_progress", "operational_job_outcomes" }
        /\ "required_times" \in schema' => "required_times" \in schema \/ "tables" \notin schema
    BY <2>1 DEF CreateTables, FirstTables, SlotTable, LastTables
  <2>3. "tables" \notin schema => ~ LacksTimes
    BY DEF SchemaInv, LacksTimes
  <2>4. /\ schema' \subseteq ExpectedSchema \cup DOMAIN DroppedBy
        /\ "retention_index" \in schema' => "retention_index" \in schema
    BY <2>2, SchemaParts DEF SchemaInv
  <2>5. SoundRowsAreTaken'
    BY <1>1, <2>1 DEF SoundRowsAreTaken, Binary
  <2>6. phase' # "indexed"
    BY <2>1
  <2> QED BY <1>1, <2>2, <2>3, <2>4, <2>5, <2>6 DEF SchemaInv
<1>3. CASE Refuse
  <2>1. schema' = schema /\ phase' = "failed" /\ phase # "down"
        /\ Durable < Binary /\ Refuses(Durable + 1)
    BY <1>3 DEF Refuse, dataVars
  <2>2. SoundRowsAreTaken'
    BY <1>1, <2>1, RefusedIsKnown
       DEF SoundRowsAreTaken, LacksTimes, LacksRoutes, LacksEnvelopes, rowVars
  <2> QED BY <1>1, <2>1, <2>2 DEF SchemaInv
<1>4. CASE CreateIndexes
  <2>1. schema' = schema \cup Indexes /\ phase' = "indexed" /\ phase # "down"
    BY <1>4 DEF CreateIndexes
  <2>2. /\ Indexes \subseteq ExpectedSchema
        /\ "retention_index" \notin Indexes /\ "required_times" \notin Indexes
    BY DEF Indexes, ExpectedSchema
  <2> QED BY <1>1, <2>1, <2>2 DEF SchemaInv, SoundRowsAreTaken
<1>5. CASE AssertSchema
  <2>1. schema' = schema /\ phase' = "running" /\ phase # "down"
    BY <1>5, SchemaIsExpected DEF AssertSchema, dataVars
  <2> QED BY <1>1, <2>1 DEF SchemaInv, SoundRowsAreTaken
<1>6. CASE Stop
  <2>1. schema' = schema /\ phase' = "down" /\ phase # "down"
    BY <1>6 DEF Stop, dataVars
  <2> QED BY <1>1, <2>1 DEF SchemaInv, SoundRowsAreTaken
<1>7. CASE UNCHANGED migrationVars
  BY <1>1, <1>7 DEF SchemaInv, SoundRowsAreTaken, LacksTimes, LacksRoutes, LacksEnvelopes,
                    migrationVars, dataVars, rowVars
<1> QED BY <1>2, <1>3, <1>4, <1>5, <1>6, <1>7

\* A database whose rows the migrations can take is never refused, but for a start
\* that stops at 0.12.0; above all, once every migration is applied the schema is the
\* one the runtime expects, wherever earlier starts broke off.
THEOREM SoundDatabasesStart == MigrationSpec => []SoundRowsAreTaken
<1>1. MigrationInit => SchemaInv
  BY SchemaAtFirst, CarriedAtFirst
<1>2. CarriedInv /\ CarriedInv' /\ SchemaInv /\ [MigrationNext]_migrationVars => SchemaInv'
  <2> SUFFICES ASSUME CarriedInv, CarriedInv', SchemaInv, [MigrationNext]_migrationVars
               PROVE  SchemaInv'
    OBVIOUS
  <2> QED BY SchemaAfterMigration, SchemaOtherwise DEF MigrationNext
<1>3. SchemaInv => SoundRowsAreTaken
  BY DEF SchemaInv, SoundRowsAreTaken
<1> QED BY <1>1, <1>2, <1>3, RowsAreCarried, PTL DEF MigrationSpec
=============================================================================
