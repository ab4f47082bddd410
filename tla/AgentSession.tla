----------------------------- MODULE AgentSession -----------------------------
(***************************************************************************)
(* The agent sessions of voice channels and DMs and the jobs that select,   *)
(* start, resume and retire them.  Jobs of one route are serialized by      *)
(* their ordering key; a job that waits for its agent task holds no key, so *)
(* that other jobs of the route run meanwhile.  Thread messages, sunsets    *)
(* and the retirement pass hold no route key at all.                        *)
(*                                                                          *)
(* A request is one job, or the chain of jobs it becomes: a command the     *)
(* start job it creates, a thread message the resume job.  Every write of a *)
(* session is a whole row computed from a read before it: the two are steps *)
(* of their own, and what is read is kept in between (writes, thread).      *)
(***************************************************************************)
EXTENDS Naturals, FiniteSets

CONSTANTS
    Session,    \* session records, by number
    Earlier,    \* those that exist from the beginning
    Voice,      \* voice routes of one guild
    Dm,         \* DM routes
    Home,       \* the routes of those
    Request,    \* requests, by number
    Nobody,     \* no session, no route
    Delivery,   \* the text deliveries, of which one at a time writes a session
    MaxEvents   \* bound on deadlines, ended captures, changed threads, failures

Route == Voice \cup Dm

ASSUME SessionAssumption ==
    /\ Earlier \subseteq Session /\ Session \subseteq Nat /\ Request \subseteq Nat
    /\ Nobody \notin Session /\ Nobody \notin Route /\ Nobody \notin Request
    /\ Delivery \notin Request /\ Delivery # Nobody
    /\ Voice \cap Dm = {} /\ Home \in [ Earlier -> Route ] /\ MaxEvents \in Nat

VARIABLES
    sessions,   \* [Session -> AgentSessionRecord]
    requests,   \* [Request -> RequestJob]
    writes,     \* [Actor -> rows it has read and is about to write back]
    disputed,   \* routes on which a row out of date has put a session back
    events      \* events so far

vars == << sessions, requests, writes, disputed, events >>

Upkeep == Nobody    \* the retirement pass of the maintenance chain

Actor == Request \cup { Upkeep, Delivery }

\* late: max_active_until has passed; ended: so has the voice capture session it
\* is bound to.
AgentSessionRecord ==
    [ state : { "none", "starting", "active", "retired" }, route : Route \cup { Nobody },
      late : BOOLEAN, ended : BOOLEAN, thread : BOOLEAN ]

\* A row about to be written; was: the state of the row it was computed from.
WriteOf ==
    [ session : Session, was : { "starting", "active", "retired" }, row : AgentSessionRecord ]

\* task: the agent task the job waits for; thread: whether the record that the
\* resume job read had one; other: the session it found on the route.
RequestJob ==
    [ kind : { "none", "command", "dm", "thread", "start", "resume", "sunset" },
      step : { "none", "queued", "retire", "active", "starting", "write", "touch",
               "handoff", "waiting", "served", "dropped", "failed" },
      route : Route \cup { Nobody }, session : Session \cup { Nobody },
      task : { "none", "open", "answered", "complete", "failed" }, thread : BOOLEAN,
      other : Session \cup { Nobody } ]

Settled == { "served", "dropped", "failed" }
Running == { "retire", "active", "starting", "write", "touch", "handoff" }
Keyed   == { "command", "dm", "start", "resume" }

\* What the lookups by route find, active_ and starting_agent_session_for_route.
Selectable(s) == sessions[s].state \in { "starting", "active" } /\ ~sessions[s].late

Found(r, state) ==
    { s \in Session : Selectable(s) /\ sessions[s].route = r /\ sessions[s].state = state }

\* agent_session_is_current.
Current(s) == sessions[s].state = "active" /\ ~sessions[s].late

\* job_ordering_key: a keyed job runs alone on its route.
KeyHeld(r) ==
    \E q \in Request : /\ requests[q].kind \in Keyed /\ requests[q].step \in Running
                       /\ requests[q].route = r

Job(kind, step, r, s) ==
    [ kind |-> kind, step |-> step, route |-> r, session |-> s,
      task |-> "none", thread |-> FALSE, other |-> Nobody ]

\* Of a settled request only the outcome matters.
Settle(q, step) == requests' = [ requests EXCEPT ![q] = Job("none", step, Nobody, Nobody) ]

Update(q, new) == requests' = [ requests EXCEPT ![q] = new ]
Goes(q, step)  == Update(q, [ requests[q] EXCEPT !.step = step ])

\* A job whose agent task has ended ends like it.
Outcome(q) == Settle(q, IF requests[q].task = "complete" THEN "served" ELSE "failed")

\* With its session ready, a job creates its agent task, or ends like the one it has.
HandOff(q) ==
    \/ /\ requests[q].task = "none"
       /\ Update(q, [ requests[q] EXCEPT !.step = "waiting", !.task = "open" ])
    \/ requests[q].task # "none" /\ Outcome(q)

Event == events < MaxEvents /\ events' = events + 1
Write(s, new)  == sessions' = [ sessions EXCEPT ![s] = new ]

Fresh(s) == /\ sessions[s].state = "none"
            /\ \A t \in Session : t < s => sessions[t].state # "none"

NewRecord(state, r) ==
    [ state |-> state, route |-> r, late |-> FALSE, ended |-> FALSE, thread |-> FALSE ]

\* The deadline and the capture of a retired session are not looked at again.
Retired(rec) == [ rec EXCEPT !.state = "retired", !.late = FALSE, !.ended = FALSE ]

\* What touch_agent_session, set_agent_session_codex_session and start jobs write.
Touched(rec) == [ rec EXCEPT !.state = IF @ = "starting" THEN "active" ELSE @ ]

WriteLater(s, row) == [ session |-> s, was |-> sessions[s].state, row |-> row ]

\* retire_agent_session writes no row that it reads retired.
ToRetire(s) ==
    IF sessions[s].state = "retired" THEN {} ELSE { WriteLater(s, Retired(sessions[s])) }

Reads(a, set) == writes' = [ writes EXCEPT ![a] = set ]

\* Mutant: resume jobs have no ordering key.
UnclaimedOrResume(q, kind) ==
    /\ requests[q].kind = kind /\ requests[q].step = "queued"
    /\ kind \in Keyed \ { "resume" } => ~KeyHeld(requests[q].route)

Unclaimed(q, kind) ==
    /\ requests[q].kind = kind /\ requests[q].step = "queued"
    /\ kind \in Keyed => ~KeyHeld(requests[q].route)

---------------------------------------------------------------------------
(***************************************************************************)
(* Requests come in.                                                        *)
(***************************************************************************)

Submit(q) ==
    /\ requests[q].step = "none"
    /\ \A p \in Request : p < q => requests[p].step # "none"
    /\ \/ \E r \in Voice : Update(q, Job("command", "queued", r, Nobody))
       \/ \E r \in Dm : Update(q, Job("dm", "queued", r, Nobody))
       \/ \E s \in Session :
            /\ sessions[s].state # "none"
            /\ \/ sessions[s].thread /\ Update(q, Job("thread", "queued", Nobody, s))
               \/ Update(q, Job("sunset", "queued", Nobody, s))
               \/ \E r \in Route : Update(q, Job("resume", "queued", r, s))
    /\ UNCHANGED << sessions, writes, disputed, events >>

\* A job is cancelled before it runs, or fails between two of its steps.
Abandon(q) ==
    /\ requests[q].step \in { "queued", "waiting" } \cup Running /\ Event
    /\ Settle(q, "failed")
    /\ Reads(q, {})
    /\ UNCHANGED << sessions, disputed >>

\* An agent task that has answered sets its session's Codex session.
TaskAnswers(q) ==
    /\ requests[q].step = "waiting" /\ requests[q].task = "open"
    /\ Update(q, [ requests[q] EXCEPT !.task = "answered" ])
    /\ LET s == requests[q].session
       IN  Reads(q, { WriteLater(s, Touched(sessions[s])) })
    /\ UNCHANGED << sessions, disputed, events >>

\* The agent task ends, and with it the job; a start or resume job is queued by the
\* resolver for another look.
TaskSettles(q) ==
    /\ requests[q].step = "waiting" /\ writes[q] = {}
    /\ \E t \in { "complete", "failed" } :
         /\ t = "complete" => requests[q].task = "answered"
         /\ IF requests[q].kind \in { "start", "resume" }
            THEN Update(q, [ requests[q] EXCEPT !.step = "queued", !.task = t ])
            ELSE Settle(q, IF t = "complete" THEN "served" ELSE "failed")
    /\ UNCHANGED << sessions, writes, disputed, events >>

---------------------------------------------------------------------------
(***************************************************************************)
(* upsert_agent_session: the whole row is written, whatever has become of   *)
(* the session since it was read.                                           *)
(***************************************************************************)

\* The row puts its session on a route where it no longer is.
PutsBack(w) ==
    /\ w.row.state \in { "starting", "active" } /\ ~w.row.late
    /\ ~(Selectable(w.session) /\ sessions[w.session].route = w.row.route)

WriteBack(a) ==
    /\ \E w \in writes[a] :
         /\ Write(w.session, w.row)
         /\ Reads(a, writes[a] \ { w })
         /\ disputed' = IF PutsBack(w) THEN disputed \cup { w.row.route } ELSE disputed
    /\ UNCHANGED << requests, events >>

---------------------------------------------------------------------------
(***************************************************************************)
(* retire_due_agent_sessions: the rows are read once, then the due ones are *)
(* written back one by one as they were read.                               *)
(***************************************************************************)

\* Mutant: the end of the voice capture is not looked at.
DueByDeadline == { s \in Session : /\ sessions[s].state \in { "starting", "active" }
                                   /\ sessions[s].late }

DueNow == { s \in Session : /\ sessions[s].state \in { "starting", "active" }
                            /\ sessions[s].late \/ sessions[s].ended }

Listed == { WriteLater(s, Retired(sessions[s])) : s \in DueNow }

\* agent_session_retirement; a pass that finds nothing changes nothing.
RetirementPass ==
    /\ writes[Upkeep] = {} /\ Listed # {}
    /\ Reads(Upkeep, Listed)
    /\ UNCHANGED << sessions, requests, disputed, events >>

---------------------------------------------------------------------------
(***************************************************************************)
(* Selecting a session: agent_session_start_or_task_job and                 *)
(* ensure_dm_agent_session, which begin with a retirement pass.             *)
(***************************************************************************)

ClaimSelection(q) ==
    /\ Unclaimed(q, "command") \/ Unclaimed(q, "dm")
    /\ Goes(q, "retire")
    /\ Reads(q, Listed)
    /\ UNCHANGED << sessions, disputed, events >>

Selects(q, kind) ==
    /\ requests[q].kind = kind /\ requests[q].step = "retire" /\ writes[q] = {}
    /\ UNCHANGED << writes, disputed, events >>

\* A session that serves the route gets the request: a command's agent task at once,
\* a direct message's after the session is touched.
UseActive(q) ==
    /\ \E s \in Found(requests[q].route, "active") :
         \/ /\ Selects(q, "command")
            /\ Update(q, [ requests[q] EXCEPT !.step = "waiting", !.session = s, !.task = "open" ])
         \/ /\ Selects(q, "dm")
            /\ Update(q, [ requests[q] EXCEPT !.step = "touch", !.session = s ])
    /\ UNCHANGED sessions

BecomeStart(q, s) ==
    Update(q, [ requests[q] EXCEPT !.kind = "start", !.step = "queued", !.session = s ])

JoinStarting(q) ==
    /\ Selects(q, "command")
    /\ Found(requests[q].route, "active") = {}
    /\ \E s \in Found(requests[q].route, "starting") : BecomeStart(q, s)
    /\ UNCHANGED sessions

NewStarting(q) ==
    /\ Selects(q, "command")
    /\ Found(requests[q].route, "active") = {} /\ Found(requests[q].route, "starting") = {}
    /\ \E s \in Session :
         /\ Fresh(s)
         /\ Write(s, NewRecord("starting", requests[q].route))
         /\ BecomeStart(q, s)

NewDm(q) ==
    /\ Selects(q, "dm")
    /\ Found(requests[q].route, "active") = {}
    /\ \E s \in Session :
         /\ Fresh(s)
         /\ Write(s, NewRecord("active", requests[q].route))
         /\ Update(q, [ requests[q] EXCEPT !.step = "touch", !.session = s ])

\* touch_agent_session, of a session that was chosen before.
Touch(q) ==
    /\ requests[q].step = "touch"
    /\ LET s == requests[q].session
       IN  Reads(q, { WriteLater(s, Touched(sessions[s])) })
    /\ Goes(q, "handoff")
    /\ UNCHANGED << sessions, disputed, events >>

CreateTask(q) ==
    /\ requests[q].step = "handoff" /\ writes[q] = {}
    /\ HandOff(q)
    /\ UNCHANGED << sessions, writes, disputed, events >>

\* Mutant: the start job activates a session that was retired in the meantime.
StartAnyway(q) ==
    /\ Unclaimed(q, "start")
    /\ LET s == requests[q].session
       IN  Reads(q, { WriteLater(s, [ sessions[s] EXCEPT !.state = "active" ]) })
    /\ Goes(q, "handoff")
    /\ UNCHANGED << sessions, disputed, events >>

\* Mutant: the start job waits for a session that is not active.
StartWhenActive(q) ==
    /\ Unclaimed(q, "start")
    /\ LET s == requests[q].session
       IN  /\ sessions[s].state \in { "starting", "active" }
           /\ Reads(q, { WriteLater(s, Touched(sessions[s])) })
    /\ Goes(q, "handoff")
    /\ UNCHANGED << sessions, disputed, events >>

\* prepare_agent_session_start_job: the session, if it was read starting, becomes
\* active; with the session retired by then the request is dropped.
Start(q) ==
    /\ Unclaimed(q, "start")
    /\ LET s == requests[q].session
       IN  \/ /\ sessions[s].state = "starting"
              /\ Reads(q, { WriteLater(s, Touched(sessions[s])) })
              /\ Goes(q, "handoff")
           \/ /\ sessions[s].state = "active"
              /\ Goes(q, "handoff")
              /\ UNCHANGED writes
           \/ /\ sessions[s].state = "retired"
              /\ Settle(q, IF requests[q].task = "none" THEN "dropped" ELSE "served")
              /\ UNCHANGED writes
    /\ UNCHANGED << sessions, disputed, events >>

---------------------------------------------------------------------------
(***************************************************************************)
(* discord_text: a message in a managed thread, which holds the channel's   *)
(* key only.                                                                *)
(***************************************************************************)

\* A current session is to be touched and to get the task, any other to be resumed.
ThreadMessage(q) ==
    /\ Unclaimed(q, "thread")
    /\ LET s == requests[q].session
       IN  \/ ~sessions[s].thread /\ Settle(q, "dropped")
           \/ sessions[s].thread /\ Current(s) /\ Goes(q, "touch")
           \/ /\ sessions[s].thread /\ ~Current(s)
              /\ Update(q, [ requests[q] EXCEPT !.kind = "resume",
                                                !.route = sessions[s].route ])
    /\ UNCHANGED << sessions, writes, disputed, events >>

---------------------------------------------------------------------------
(***************************************************************************)
(* prepare_agent_session_resume_job, which runs from its first line each    *)
(* time the job is queued.                                                  *)
(***************************************************************************)

Resumable(q) ==
    LET rec == sessions[requests[q].session]
    IN  \/ rec.state = "retired"
        \/ rec.state = "active" /\ rec.route = requests[q].route

ClaimResume(q) ==
    /\ Unclaimed(q, "resume")
    /\ \/ ~Resumable(q) /\ Settle(q, "failed")
       \/ /\ Resumable(q)
          /\ Update(q, [ requests[q] EXCEPT !.step = "active",
                                            !.thread = sessions[requests[q].session].thread ])
    /\ UNCHANGED << sessions, writes, disputed, events >>

Looks(q) ==
    /\ requests[q].kind = "resume" /\ requests[q].step \in { "active", "starting" }
    /\ writes[q] = {}

\* Mutant: the takeover looks for an active session only.
OnlyActive(q) == "write"

\* The lookup of a starting session follows that of an active one.
AfterLookup(q) == IF requests[q].step = "active" THEN "starting" ELSE "write"

\* The route is looked up; of several sessions the latest is found.
LookUp(q) ==
    /\ Looks(q) /\ requests[q].other = Nobody
    /\ LET found == Found(requests[q].route, requests[q].step)
       IN  \/ \E s \in found \ { requests[q].session } :
                Update(q, [ requests[q] EXCEPT !.other = s ])
           \/ /\ found = {} \/ requests[q].session \in found
              /\ Goes(q, AfterLookup(q))
    /\ UNCHANGED << sessions, writes, disputed, events >>

\* retire_agent_session reads the session that was found and retires it.
TakeOver(q) ==
    /\ Looks(q) /\ requests[q].other # Nobody
    /\ Reads(q, ToRetire(requests[q].other))
    /\ Update(q, [ requests[q] EXCEPT !.step = AfterLookup(q), !.other = Nobody ])
    /\ UNCHANGED << sessions, disputed, events >>

\* A voice session stays in its guild and needs its thread, a DM its user.
Fits(q) ==
    LET home == sessions[requests[q].session].route
    IN  IF requests[q].route \in Voice THEN home \in Voice /\ requests[q].thread
        ELSE home = requests[q].route

\* A session that does not fit is not resumed, although the route has been taken
\* over by now; otherwise the record that was read is written back active.
WriteResume(q) ==
    /\ requests[q].kind = "resume" /\ requests[q].step = "write" /\ writes[q] = {}
    /\ LET r == requests[q].route  s == requests[q].session
       IN  \/ /\ ~Fits(q)
              /\ Settle(q, "failed")
              /\ UNCHANGED sessions
           \/ /\ Fits(q)
              /\ Write(s, [ NewRecord("active", r) EXCEPT !.thread = requests[q].thread ])
              /\ \/ HandOff(q)
                 \/ requests[q].task = "none" /\ Settle(q, "served")  \* without a message
    /\ UNCHANGED << writes, disputed, events >>

\* prepare_agent_session_sunset_job.
Sunset(q) ==
    /\ Unclaimed(q, "sunset")
    /\ Reads(q, ToRetire(requests[q].session))
    /\ Goes(q, "retire")
    /\ UNCHANGED << sessions, disputed, events >>

SunsetDone(q) == Selects(q, "sunset") /\ Settle(q, "served") /\ UNCHANGED sessions

---------------------------------------------------------------------------
(***************************************************************************)
(* Time, Discord, and the process.                                          *)
(***************************************************************************)

\* A deadline and a capture are over for every row that names them, those about to
\* be written included; a row that a resume has overtaken is over with the others.
Over(rec, late, ended) ==
    IF rec.state \in { "starting", "active" }
    THEN [ rec EXCEPT !.late = @ \/ late, !.ended = @ \/ ended ] ELSE rec

Ages(s, late, ended) ==
    /\ Write(s, Over(sessions[s], late, ended))
    /\ writes' = [ a \in Actor |->
         { [ w EXCEPT !.row = IF w.session = s THEN Over(@, late, ended) ELSE @ ]
             : w \in writes[a] } ]

Expire(s) ==
    /\ sessions[s].state \in { "starting", "active" } /\ ~sessions[s].late /\ Event
    /\ Ages(s, TRUE, FALSE)
    /\ UNCHANGED << requests, disputed >>

CaptureEnds(s) ==
    /\ sessions[s].state \in { "starting", "active" } /\ sessions[s].route \in Voice
    /\ ~sessions[s].ended /\ Event
    /\ Ages(s, FALSE, TRUE)
    /\ UNCHANGED << requests, disputed >>

\* The first text delivery of a session gives it a thread.
GetThread(s) ==
    /\ sessions[s].state \in { "active", "retired" } /\ sessions[s].route \in Voice
    /\ ~sessions[s].thread /\ writes[Delivery] = {} /\ Event
    /\ Reads(Delivery, { WriteLater(s, [ sessions[s] EXCEPT !.thread = TRUE ]) })
    /\ UNCHANGED << sessions, requests, disputed >>

\* mark_agent_session_thread_unavailable.
LoseThread(s) ==
    /\ sessions[s].thread /\ writes[Delivery] = {} /\ Event
    /\ Reads(Delivery, { WriteLater(s, [ sessions[s] EXCEPT !.thread = FALSE ]) })
    /\ UNCHANGED << sessions, requests, disputed >>

---------------------------------------------------------------------------
\* Records outlive the process: earlier sessions are retired, with a thread.
Init ==
    /\ sessions = [ s \in Session |->
         IF s \in Earlier
         THEN [ NewRecord("retired", Home[s]) EXCEPT !.thread = Home[s] \in Voice ]
         ELSE NewRecord("none", Nobody) ]
    /\ requests = [ q \in Request |-> Job("none", "none", Nobody, Nobody) ]
    /\ writes = [ a \in Actor |-> {} ]
    /\ disputed = {}
    /\ events = 0

Handler(q) ==
    \/ ClaimSelection(q) \/ UseActive(q) \/ JoinStarting(q) \/ NewStarting(q) \/ NewDm(q)
    \/ Start(q) \/ ThreadMessage(q) \/ Touch(q) \/ CreateTask(q)
    \/ Sunset(q) \/ SunsetDone(q)
    \/ ClaimResume(q) \/ LookUp(q) \/ TakeOver(q) \/ WriteResume(q)

World(s) == Expire(s) \/ CaptureEnds(s) \/ GetThread(s) \/ LoseThread(s)

Next ==
    \/ \E q \in Request : Submit(q) \/ Abandon(q) \/ TaskAnswers(q) \/ TaskSettles(q) \/ Handler(q)
    \/ \E a \in Actor : WriteBack(a)
    \/ RetirementPass
    \/ \E s \in Session : World(s)

Spec == Init /\ [][Next]_vars

\* Jobs are claimed and run, agent tasks end, and the maintenance chain goes on.
FairSpec ==
    /\ Spec
    /\ \A q \in Request : WF_vars(TaskSettles(q) \/ Handler(q) \/ WriteBack(q))
    /\ WF_vars(RetirementPass \/ WriteBack(Upkeep))
    /\ WF_vars(WriteBack(Delivery))

---------------------------------------------------------------------------
(***************************************************************************)
(* Properties.                                                              *)
(***************************************************************************)

\* Every variable has its type.
TypeOK ==
    /\ sessions \in [ Session -> AgentSessionRecord ]
    /\ requests \in [ Request -> RequestJob ]
    /\ writes \in [ Actor -> SUBSET WriteOf ]
    /\ disputed \subseteq Route
    /\ events \in Nat

\* "Exactly one active selectable session exists for a route": however commands,
\* starts, resumes, thread messages, sunsets and retirement passes interleave, no
\* route has two (job_ordering_key, prepare_agent_session_resume_job) unless a whole
\* row that was out of date has put a session back on it (upsert_agent_session).
OneSelectablePerRoute ==
    \A s, t \in Session :
        Selectable(s) /\ Selectable(t) /\ sessions[s].route = sessions[t].route
          => s = t \/ sessions[s].route \in disputed

On(r) == { s \in Session : Selectable(s) /\ sessions[s].route = r }

Serving(r) == IF On(r) = {} \/ r \in disputed THEN Nobody ELSE CHOOSE s \in On(r) : TRUE

Routes == INSTANCE RouteContract WITH serving <- [ r \in Route |-> Serving(r) ]

\* A route changes hands only by way of nobody: resume_agent_session and start jobs
\* retire the session that serves it before another one serves; a route is disputed
\* only where a row that was out of date puts a session back on it.
RoutesKeepContract == Routes!Spec

\* Every request is served, dropped or fails: start and resume jobs wait for their
\* route's ordering key and for one another without ever waiting for good.
RequestsSettle ==
    \A q \in Request : requests[q].step = "queued" ~> requests[q].step \in Settled

\* A session past its deadline, or whose voice capture has ended, does not stay
\* open: it is retired, or resumed (agent_session_retirement).
DueSessionsRetire ==
    \A s \in Session :
        sessions[s].state \in { "starting", "active" } /\ (sessions[s].late \/ sessions[s].ended)
          ~> ~sessions[s].late /\ ~sessions[s].ended

\* A retired session serves again only where a resume job writes it, or where a row
\* is written that was open when it was read: nothing that has seen it retired, a
\* start job, a message, a task's answer or a retirement pass, brings it back.
OnlyResumeRevives ==
    [][ \A s \in Session :
          sessions[s].state = "retired" /\ sessions'[s].state # "retired" =>
            \/ \E q \in Request : /\ requests[q].kind = "resume" /\ requests[q].step = "write"
                                  /\ requests[q].session = s
            \/ \E a \in Actor : \E w \in writes[a] : w.session = s /\ w.was # "retired" ]_vars
=============================================================================
