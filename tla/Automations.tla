------------------------------ MODULE Automations ------------------------------
(***************************************************************************)
(* The stored automations of one scope: durable rules that a pass of the    *)
(* evaluator reads all at once, judges one after the other against the      *)
(* timeline, writes back whole and only then turns into jobs.  They are     *)
(* created and cancelled over HTTP while a pass is under way.               *)
(*                                                                         *)
(* Whether a condition matches is open, and a fire stands for all the jobs  *)
(* of its actions.  Passes do not overlap: their jobs share the ordering    *)
(* key of maintenance.  The order of a pass over its records is left open.  *)
(***************************************************************************)
EXTENDS Integers, FiniteSets, Sequences

CONSTANTS
    Automation,   \* the specs that are submitted
    SpecOf,       \* [Automation -> AutomationSpec]
    Kind,         \* the kinds of the events that others append
    MaxEvents,    \* bound on what others append
    Late,         \* how much earlier than its append an event may begin
    LastTick,     \* bound on time
    MaxCrashes    \* bound on passes that break off

VARIABLES
    now,       \* the clock
    log,       \* the timeline events: kind and beginning
    outside,   \* how many of them others appended
    requests,  \* [Automation -> how far create_automation is with it]
    records,   \* [Automation -> its record]
    cancels,   \* [Automation -> what cancel_automation has read of it]
    held,      \* [Automation -> the copy that the pass has yet to judge]
    pass,      \* what the evaluator works on
    made,      \* [Automation -> fires whose jobs exist]
    firedFor,  \* [Automation -> the events it fired for]
    repeated,  \* automations that fired twice for one event
    revived,   \* automations that a pass wrote back over a cancellation
    owed,      \* [Automation -> the events it has yet to answer]
    crashes    \* passes that broke off so far

vars == << now, log, outside, requests, records, cancels, held, pass,
           made, firedFor, repeated, revived, owed, crashes >>

unchangedByPass == UNCHANGED << now, outside, requests, cancels >>

Never == LastTick + 1
None == "none"
Fired == "automation_fired"
Time == 0 .. LastTick

\* One that listens to nothing fires by the clock.  executable: some action of
\* it lowers to a job (sound.play does not).
AutomationSpec ==
    [ listens : SUBSET (Kind \cup { Fired }), interval : Nat, delay : Nat, max_fires : Nat,
      expires_at : Nat, executable : BOOLEAN, source : STRING, key : STRING ]

\* AutomationSpec::validate, after normalize
Valid(s) == s.max_fires > 0 /\ (s.listens = {} => s.interval > 0)

ASSUME AutomationAssumption ==
    /\ { MaxEvents, Late, LastTick, MaxCrashes } \subseteq Nat
    /\ SpecOf \in [ Automation -> AutomationSpec ]
    /\ \A a \in Automation : Valid(SpecOf[a])

\* A context is an event of the log, or Clock: that of a tick, which has none.
Clock == 0
Context == Nat

\* pending: the contexts of the delayed recheck, which are none or one.
Record ==
    [ state : { None, "active", "cancelled", "expired" }, cursor : Time, fires : Nat,
      pending : SUBSET Context, due : Nat ]

Absent == [ state |-> None, cursor |-> 0, fires |-> 0, pending |-> {}, due |-> 0 ]

Active(r) == r.state = "active"

Resting == [ stage |-> "rest", of |-> None, contexts |-> {}, jobs |-> {} ]

---------------------------------------------------------------------------
(***************************************************************************)
(* The clock and the timeline.                                              *)
(***************************************************************************)

Tick ==
    /\ now < LastTick
    /\ now' = now + 1
    /\ UNCHANGED << log, outside, requests, records, cancels, held, pass,
                    made, firedFor, repeated, revived, owed, crashes >>

Hears(a, event) == event.kind \in SpecOf[a].listens /\ event.start > records[a].cursor

\* Speech, for one, is appended after it began.
AppendEvent(kind, start) ==
    LET event == [ kind |-> kind, start |-> start ]
    IN  /\ outside < MaxEvents /\ outside' = outside + 1
        /\ start <= now /\ now <= start + Late
        /\ log' = Append(log, event)
        /\ owed' = [ a \in Automation |->
                       IF /\ Active(records[a]) /\ records[a].pending = {}
                          /\ Hears(a, event) /\ held[a] = Absent /\ pass.of # a
                       THEN owed[a] \cup { Len(log) + 1 } ELSE owed[a] ]
        /\ UNCHANGED << now, requests, records, cancels, held, pass,
                        made, firedFor, repeated, revived, crashes >>

---------------------------------------------------------------------------
(***************************************************************************)
(* create_automation and cancel_automation.                                 *)
(***************************************************************************)

unchangedByRequest ==
    UNCHANGED << now, log, outside, held, pass, made, firedFor, repeated, revived, owed, crashes >>

SameKey(a, b) == SpecOf[a].key # None /\ SpecOf[a].key = SpecOf[b].key

\* find_active_automation_by_idempotency_key_in_tx: nothing locks the key.
FindByKey(a) ==
    /\ requests[a] = "new"
    /\ requests' = [ requests EXCEPT ![a] =
                       IF \E b \in Automation : Active(records[b]) /\ SameKey(a, b)
                       THEN "answered" ELSE "keyless" ]
    /\ UNCHANGED << records, cancels >>
    /\ unchangedByRequest

\* Mutant: the source is not looked for again under its lock.
NeverTaken(a) == FALSE

\* find_active_agent_automation_by_source_in_tx, under the lock of the source job
SourceTaken(a) ==
    \E b \in Automation : Active(records[b]) /\ SpecOf[a].source # None
                          /\ SpecOf[b].source = SpecOf[a].source

Insert(a) ==
    /\ requests[a] = "keyless"
    /\ requests' = [ requests EXCEPT ![a] = "answered" ]
    /\ records' = IF SourceTaken(a) THEN records
                  ELSE [ records EXCEPT ![a] = [ Absent EXCEPT !.state = "active", !.cursor = now ] ]
    /\ UNCHANGED cancels
    /\ unchangedByRequest

\* cancel_automation reads the record, whatever its state, and writes it back whole.
BeginCancel(a) ==
    /\ records[a] # Absent /\ cancels[a].stage = "none"
    /\ cancels' = [ cancels EXCEPT ![a] = [ stage |-> "read", copy |-> records[a] ] ]
    /\ UNCHANGED << requests, records >>
    /\ unchangedByRequest

Cancel(a) ==
    /\ cancels[a].stage = "read"
    /\ records' = [ records EXCEPT ![a] = [ cancels[a].copy EXCEPT !.state = "cancelled" ] ]
    /\ cancels' = [ cancels EXCEPT ![a] = [ stage |-> "done", copy |-> Absent ] ]
    /\ UNCHANGED requests
    /\ unchangedByRequest

---------------------------------------------------------------------------
(***************************************************************************)
(* What the methods of a record make of it.                                 *)
(***************************************************************************)

MarkEvaluated(r) == [ r EXCEPT !.cursor = now, !.pending = {}, !.due = 0 ]

\* Mutant: firing leaves the cursor behind.
FiredInPlace(a, r, n) ==
    [ r EXCEPT !.fires = @ + n, !.pending = {}, !.due = 0,
               !.state = IF r.fires + n >= SpecOf[a].max_fires THEN "expired" ELSE @ ]

\* mark_fired, n times
MarkFired(a, r, n) ==
    [ MarkEvaluated(r) EXCEPT !.fires = @ + n,
               !.state = IF r.fires + n >= SpecOf[a].max_fires THEN "expired" ELSE @ ]

MarkPendingRecheck(a, r, c) ==
    [ r EXCEPT !.cursor = now, !.pending = { c }, !.due = now + SpecOf[a].delay ]

IsExpired(a, r) == r.fires >= SpecOf[a].max_fires \/ now >= SpecOf[a].expires_at

TickDue(a, r) == now - r.cursor >= SpecOf[a].interval

\* trigger_contexts
Contexts(a, r) ==
    IF SpecOf[a].listens = {} THEN { c \in { Clock } : TickDue(a, r) }
    ELSE { i \in DOMAIN log : log[i].kind \in SpecOf[a].listens /\ log[i].start > r.cursor }

\* condition_matches: which of the contexts match is open.
Matching(contexts) == SUBSET contexts

\* jobs_for_actions: a context without a job does not count.
MayFire(a, fired) == fired # {} => SpecOf[a].executable

Remaining(a, r) == SpecOf[a].max_fires - r.fires

---------------------------------------------------------------------------
(***************************************************************************)
(* run_stored_automations.                                                  *)
(***************************************************************************)

\* Mutant: only one record is listed.
OneOf(all) == IF all = {} THEN {} ELSE { CHOOSE a \in all : TRUE }

Listed(all) == all

Begin ==
    /\ pass = Resting
    /\ LET listed == Listed({ a \in Automation : Active(records[a]) })
       IN  held' = [ a \in Automation |-> IF a \in listed THEN records[a] ELSE Absent ]
    /\ pass' = [ Resting EXCEPT !.stage = "next" ]
    /\ unchangedByPass
    /\ UNCHANGED << log, records, made, firedFor, repeated, revived, owed, crashes >>

InHand(a) == pass.stage = "next" /\ held[a] # Absent

Dropped(a) == [ held EXCEPT ![a] = Absent ]

\* The record is saved as the pass made it, over whatever happened to it since.
Save(a, r) ==
    /\ records' = [ records EXCEPT ![a] = r ]
    /\ held' = Dropped(a)
    /\ revived' = IF records[a].state = "cancelled" /\ Active(r) THEN revived \cup { a } ELSE revived
    /\ unchangedByPass
    /\ UNCHANGED << log, made, firedFor, repeated, crashes >>

Expire(a) ==
    /\ InHand(a) /\ IsExpired(a, held[a])
    /\ Save(a, [ MarkEvaluated(held[a]) EXCEPT !.state = "expired" ])
    /\ UNCHANGED << pass, owed >>

Evaluated(a) == InHand(a) /\ ~IsExpired(a, held[a])

\* Nothing to judge: the record is left as it is.
LeaveAlone(a) ==
    /\ Evaluated(a)
    /\ IF held[a].pending # {} THEN now < held[a].due ELSE Contexts(a, held[a]) = {}
    /\ held' = Dropped(a)
    /\ unchangedByPass
    /\ UNCHANGED << log, records, pass, made, firedFor, repeated, revived, owed, crashes >>

Fire(a, fired) ==
    /\ Save(a, IF fired = {} THEN MarkEvaluated(held[a])
               ELSE MarkFired(a, held[a], Cardinality(fired)))
    /\ pass' = IF fired = {} THEN [ Resting EXCEPT !.stage = "next" ]
               ELSE [ Resting EXCEPT !.stage = "emit", !.of = a, !.jobs = fired ]

\* Contexts that are judged and do not fire are answered.
Answer(a, contexts) == owed' = [ owed EXCEPT ![a] = @ \ contexts ]

\* The delay is over: the condition is judged against what the room is now.
Recheck(a) ==
    /\ Evaluated(a) /\ held[a].pending # {} /\ now >= held[a].due
    /\ \E fired \in Matching(held[a].pending) :
         /\ MayFire(a, fired)
         /\ Fire(a, fired)
         /\ Answer(a, held[a].pending \ fired)

\* The contexts are loaded; the room's status is read for each of them.
Load(a) ==
    /\ Evaluated(a) /\ held[a].pending = {} /\ Contexts(a, held[a]) # {}
    /\ pass' = [ Resting EXCEPT !.stage = "judge", !.of = a, !.contexts = Contexts(a, held[a]) ]
    /\ unchangedByPass
    /\ UNCHANGED << log, records, held, made, firedFor, repeated, revived, owed, crashes >>

\* Those of the contexts that match fire, as far as the budget goes.
Judge(a) ==
    /\ pass.stage = "judge" /\ pass.of = a /\ SpecOf[a].delay = 0
    /\ \E fired \in Matching(pass.contexts) :
         /\ MayFire(a, fired)
         /\ Cardinality(fired) <= Remaining(a, held[a])
         /\ Fire(a, fired)
         /\ Answer(a, pass.contexts \ fired)

\* The first context that matches is kept for the recheck, the others are passed over.
Postpone(a) ==
    /\ pass.stage = "judge" /\ pass.of = a /\ SpecOf[a].delay > 0
    /\ \/ \E c \in pass.contexts :
            /\ Save(a, MarkPendingRecheck(a, held[a], c))
            /\ Answer(a, pass.contexts \ { c })
       \/ /\ Save(a, MarkEvaluated(held[a]))
          /\ Answer(a, pass.contexts)
    /\ pass' = [ Resting EXCEPT !.stage = "next" ]

\* create_job and the automation_fired event of each fire.
Emit(c) ==
    LET a == pass.of
    IN  /\ pass.stage = "emit" /\ c \in pass.jobs
        /\ pass' = IF pass.jobs = { c } THEN [ Resting EXCEPT !.stage = "next" ]
                   ELSE [ pass EXCEPT !.jobs = @ \ { c } ]
        /\ log' = Append(log, [ kind |-> Fired, start |-> now ])
        /\ made' = [ made EXCEPT ![a] = @ + 1 ]
        /\ firedFor' = [ firedFor EXCEPT ![a] = @ \cup ({ c } \ { Clock }) ]
        /\ repeated' = IF c \in firedFor[a] THEN repeated \cup { a } ELSE repeated
        /\ Answer(a, { c })
        /\ unchangedByPass
        /\ UNCHANGED << records, held, revived, crashes >>

End ==
    /\ pass.stage = "next" /\ \A a \in Automation : held[a] = Absent
    /\ pass' = Resting
    /\ unchangedByPass
    /\ UNCHANGED << log, records, held, made, firedFor, repeated, revived, owed, crashes >>

\* A crash, or an error of the database: the pass ends where it is, and the
\* fires that were saved but not yet emitted are lost.
BreakOff ==
    /\ pass # Resting /\ crashes < MaxCrashes
    /\ crashes' = crashes + 1
    /\ pass' = Resting
    /\ held' = [ a \in Automation |-> Absent ]
    /\ owed' = [ a \in Automation |-> IF a = pass.of THEN owed[a] \ pass.jobs ELSE owed[a] ]
    /\ unchangedByPass
    /\ UNCHANGED << log, records, made, firedFor, repeated, revived >>

Init ==
    /\ now = 0 /\ log = << >> /\ outside = 0
    /\ requests = [ a \in Automation |-> "new" ]
    /\ records = [ a \in Automation |-> Absent ]
    /\ cancels = [ a \in Automation |-> [ stage |-> "none", copy |-> Absent ] ]
    /\ held = [ a \in Automation |-> Absent ]
    /\ pass = Resting
    /\ made = [ a \in Automation |-> 0 ]
    /\ firedFor = [ a \in Automation |-> {} ]
    /\ repeated = {} /\ revived = {}
    /\ owed = [ a \in Automation |-> {} ]
    /\ crashes = 0

Evaluate ==
    \/ Begin \/ End
    \/ \E a \in Automation : Expire(a) \/ LeaveAlone(a) \/ Recheck(a) \/ Load(a) \/ Judge(a) \/ Postpone(a)
    \/ \E c \in pass.jobs : Emit(c)

Next ==
    \/ Tick \/ Evaluate \/ BreakOff
    \/ \E kind \in Kind, start \in Time : AppendEvent(kind, start)
    \/ \E a \in Automation : FindByKey(a) \/ Insert(a) \/ BeginCancel(a) \/ Cancel(a)

Spec == Init /\ [][Next]_vars

\* Time passes, and the evaluation job of every maintenance pass is executed.
FairSpec == Spec /\ WF_vars(Tick) /\ WF_vars(Evaluate)

---------------------------------------------------------------------------
(***************************************************************************)
(* Properties.                                                              *)
(***************************************************************************)

\* Every variable has its type.
TypeOK ==
    /\ now \in Time /\ log \in Seq([ kind : Kind \cup { Fired }, start : Time ])
    /\ outside \in 0 .. MaxEvents /\ crashes \in 0 .. MaxCrashes
    /\ requests \in [ Automation -> { "new", "keyless", "answered" } ]
    /\ records \in [ Automation -> Record ] /\ held \in [ Automation -> Record ]
    /\ cancels \in [ Automation -> [ stage : { "none", "read", "done" }, copy : Record ] ]
    /\ pass \in [ stage : { "rest", "next", "judge", "emit" }, of : Automation \cup { None },
                  contexts : SUBSET Context, jobs : SUBSET Context ]
    /\ made \in [ Automation -> Nat ]
    /\ firedFor \in [ Automation -> SUBSET Context ] /\ owed \in [ Automation -> SUBSET Context ]
    /\ repeated \subseteq Automation /\ revived \subseteq Automation

\* An automation fires at most max_fires times, and not twice for one event:
\* through passes that break off between the save and the jobs, cancellations
\* that write an older record back, and passes that write over a cancellation.
WithinBudget == repeated = {} /\ \A a \in Automation : made[a] <= SpecOf[a].max_fires

\* One agent task has at most one active automation, whatever creations race;
\* excepted is one that a pass wrote back over its cancellation.
OneActivePerSource ==
    \A a, b \in Automation \ revived :
      /\ Active(records[a]) /\ Active(records[b])
      /\ SpecOf[a].source = SpecOf[b].source /\ SpecOf[a].source # None
      => a = b

\* An event that reaches an active automation while no pass holds it and no
\* recheck is pending is answered: it fires, is turned down, or is lost with
\* the pass that had fired for it.  And an automation past its time expires.
EveryTriggerIsAnswered ==
    <>[] \A a \in Automation :
           Active(records[a]) => owed[a] = {} /\ now < SpecOf[a].expires_at
=============================================================================
