-------------------------- MODULE AgentSessionProofs --------------------------
(***************************************************************************)
(* No route has two open sessions unless a row that was out of date has put *)
(* one back on it, and routes change hands only by way of nobody: proved    *)
(* for any number of sessions, routes, requests and events.  What carries   *)
(* the invariant over the step in which a resume job writes the session     *)
(* back is what its two lookups have left of the route (Cleared), which     *)
(* holds because the ordering key of the route is exclusive (KeyExclusive)  *)
(* and because only the holder of the key turns a starting session active   *)
(* (Writes): none slips from the second lookup to the first.                *)
(***************************************************************************)
EXTENDS AgentSession, TLAPS

Holds(q) == requests[q].kind \in Keyed /\ requests[q].step \in Running

KeyExclusive ==
    \A p, q \in Request :
        Holds(p) /\ Holds(q) /\ requests[p].route = requests[q].route => p = q

\* DM sessions are never starting, so that a DM looks for an active one only; a
\* session gets its thread once it is active.
RowSound(rec) ==
    /\ rec.state \in { "none", "starting" } => rec.thread = FALSE
    /\ rec.state # "none" => rec.route \in Route
    /\ rec.state = "starting" => rec.route \in Voice

\* What a job of each kind is about.
Formed(q) ==
    /\ requests[q].kind \in { "thread", "start", "resume", "sunset" }
         \/ requests[q].step \in { "touch", "handoff", "waiting" }
         => requests[q].session \in Session
    /\ requests[q].kind = "command" => requests[q].route \in Voice
    /\ requests[q].kind = "dm" => requests[q].route \in Dm
    /\ requests[q].kind = "resume" =>
         requests[q].route \in Route /\ requests[q].step # "touch"
    /\ requests[q].step \notin { "active", "starting" } => requests[q].other = Nobody

\* A session that is touched, or has an agent task, is past its start.
Started(q) ==
    \/ requests[q].step \in { "touch", "waiting" }
    \/ requests[q].step = "handoff" /\ writes[q] = {}
    => sessions[requests[q].session].state \in { "active", "retired" }

\* The sessions that a job is about exist; one it is to start is of its route.
About(q) ==
    /\ requests[q].kind \in { "start", "resume", "sunset" } =>
         sessions[requests[q].session].state # "none"
    /\ requests[q].other # Nobody => sessions[requests[q].other].state # "none"
    /\ requests[q].kind = "start" /\ sessions[requests[q].session].state = "starting" =>
         sessions[requests[q].session].route = requests[q].route

Idle == { "none", "queued", "touch", "served", "dropped", "failed" }

Writing(q) ==
    /\ requests[q].step \in Idle => writes[q] = {}
    /\ \A w \in writes[q] :
         /\ requests[q].step = "handoff" => w.session = requests[q].session
         /\ requests[q].kind = "resume" /\ requests[q].step \in Running
              => w.row.state = "retired"

\* What a resume job may still find on its route: the session it resumes, the one
\* its lookup has found, and the one it is about to retire.
Left(q, s) ==
    \/ s = requests[q].session \/ s = requests[q].other
    \/ \E w \in writes[q] : w.session = s

LookedUp(q) ==
    \/ requests[q].step = "starting"
    \/ requests[q].step = "active" /\ requests[q].other # Nobody

LookedTwice(q) ==
    \/ requests[q].step = "write"
    \/ requests[q].step = "starting" /\ requests[q].other # Nobody

Cleared(q) ==
    requests[q].kind = "resume" /\ requests[q].route \notin disputed =>
        \A s \in Session : Selectable(s) /\ sessions[s].route = requests[q].route =>
            /\ LookedUp(q) /\ sessions[s].state = "active" => Left(q, s)
            /\ LookedTwice(q) => Left(q, s)

JobOK(q) == Formed(q) /\ Started(q) /\ About(q) /\ Writing(q) /\ Cleared(q)

\* A row about to be written never starts a session, nor opens one that was read
\* retired; only a job that holds the route's key makes a starting one active.
Writes(a) ==
    \A w \in writes[a] :
        /\ sessions[w.session].state # "none"
        /\ w.row.state \in { "active", "retired" } /\ w.row.route \in Route
        /\ w.was = "retired" => w.row.state = "retired"
        /\ sessions[w.session].state = "starting" /\ w.row.state = "active" =>
             a \in Request /\ Holds(a) /\ requests[a].route = sessions[w.session].route

Inv == /\ TypeOK /\ KeyExclusive /\ OneSelectablePerRoute
       /\ \A s \in Session : RowSound(sessions[s])
       /\ \A q \in Request : JobOK(q)
       /\ \A a \in Actor : Writes(a)

---------------------------------------------------------------------------
(***************************************************************************)
(* Types.                                                                   *)
(***************************************************************************)

Kinds == { "none", "command", "dm", "thread", "start", "resume", "sunset" }
Steps == { "none", "queued", "retire", "active", "starting", "write", "touch",
           "handoff", "waiting", "served", "dropped", "failed" }

LEMMA Actors == Request \subseteq Actor /\ Upkeep \in Actor /\ Delivery \in Actor
                /\ Upkeep \notin Request /\ Delivery \notin Request /\ Delivery # Upkeep
BY SessionAssumption DEF Actor, Upkeep

LEMMA JobType ==
    ASSUME NEW kind \in Kinds, NEW step \in Steps,
           NEW r \in Route \cup { Nobody }, NEW s \in Session \cup { Nobody }
    PROVE  /\ Job(kind, step, r, s) \in RequestJob
           /\ Job(kind, step, r, s).kind = kind /\ Job(kind, step, r, s).step = step
           /\ Job(kind, step, r, s).route = r /\ Job(kind, step, r, s).session = s
           /\ Job(kind, step, r, s).other = Nobody /\ Job(kind, step, r, s).task = "none"
BY DEF Job, RequestJob, Kinds, Steps

\* The other requests are as they were.
OthersKeep(q) == \A p \in Request \ { q } : requests'[p] = requests[p]

LEMMA UpdateJob ==
    ASSUME TypeOK, NEW q \in Request, NEW new, Update(q, new)
    PROVE  /\ OthersKeep(q) /\ requests'[q] = new
           /\ new \in RequestJob => requests' \in [ Request -> RequestJob ]
BY DEF TypeOK, Update, OthersKeep

LEMMA SettleJob ==
    ASSUME TypeOK, NEW q \in Request, NEW step \in Settled, Settle(q, step)
    PROVE  /\ OthersKeep(q) /\ requests' \in [ Request -> RequestJob ]
           /\ requests'[q].kind = "none" /\ requests'[q].step = step
           /\ requests'[q].other = Nobody
<1> DEFINE new == Job("none", step, Nobody, Nobody)
<1>1. new \in RequestJob /\ new.kind = "none" /\ new.step = step /\ new.other = Nobody
  BY JobType DEF Settled, Kinds, Steps
<1>2. Update(q, new)
  BY DEF Settle, Update
<1> HIDE DEF new
<1> QED BY <1>1, <1>2, UpdateJob

\* Requests that differ in their step, and perhaps their task, kind or session.
LEMMA GoesJob ==
    ASSUME TypeOK, NEW q \in Request, NEW step \in Steps, Goes(q, step)
    PROVE  /\ OthersKeep(q) /\ requests' \in [ Request -> RequestJob ]
           /\ requests'[q].kind = requests[q].kind /\ requests'[q].step = step
           /\ requests'[q].route = requests[q].route
           /\ requests'[q].session = requests[q].session
           /\ requests'[q].other = requests[q].other
<1> DEFINE new == [ requests[q] EXCEPT !.step = step ]
<1>1. /\ new \in RequestJob /\ new.kind = requests[q].kind /\ new.step = step
      /\ new.route = requests[q].route /\ new.session = requests[q].session
      /\ new.other = requests[q].other
  BY DEF TypeOK, RequestJob, Steps
<1>2. Update(q, new)
  BY DEF Goes
<1> HIDE DEF new
<1> QED BY <1>1, <1>2, UpdateJob

LEMMA ReadsType ==
    ASSUME TypeOK, NEW a \in Actor, NEW set \in SUBSET WriteOf, Reads(a, set)
    PROVE  /\ writes' \in [ Actor -> SUBSET WriteOf ] /\ writes'[a] = set
           /\ \A b \in Actor \ { a } : writes'[b] = writes[b]
BY DEF TypeOK, Reads

LEMMA WriteLaterType ==
    ASSUME TypeOK, NEW s \in Session, sessions[s].state # "none",
           NEW row \in AgentSessionRecord
    PROVE  /\ WriteLater(s, row) \in WriteOf
           /\ WriteLater(s, row).session = s /\ WriteLater(s, row).row = row
           /\ WriteLater(s, row).was = sessions[s].state
<1>1. sessions[s].state \in { "starting", "active", "retired" }
  BY DEF TypeOK, AgentSessionRecord
<1> QED BY <1>1 DEF WriteLater, WriteOf

LEMMA RetiredType ==
    ASSUME NEW rec \in AgentSessionRecord
    PROVE  /\ Retired(rec) \in AgentSessionRecord
           /\ Retired(rec).state = "retired" /\ Retired(rec).route = rec.route
BY DEF Retired, AgentSessionRecord

LEMMA TouchedType ==
    ASSUME NEW rec \in AgentSessionRecord
    PROVE  /\ Touched(rec) \in AgentSessionRecord
           /\ Touched(rec).state = IF rec.state = "starting" THEN "active" ELSE rec.state
           /\ Touched(rec).route = rec.route
BY DEF Touched, AgentSessionRecord

LEMMA NewRecordType ==
    ASSUME NEW r \in Route \cup { Nobody },
           NEW state \in { "none", "starting", "active", "retired" }
    PROVE  /\ NewRecord(state, r) \in AgentSessionRecord
           /\ NewRecord(state, r).state = state /\ NewRecord(state, r).route = r
           /\ NewRecord(state, r).thread = FALSE
BY DEF NewRecord, AgentSessionRecord

\* What a job reads to retire it.
LEMMA ToRetireType ==
    ASSUME TypeOK, NEW s \in Session, sessions[s].state # "none"
    PROVE  /\ ToRetire(s) \in SUBSET WriteOf
           /\ \A w \in ToRetire(s) : /\ w.session = s /\ w.row.state = "retired"
                                     /\ w.row.route = sessions[s].route
           /\ sessions[s].state # "retired" => \E w \in ToRetire(s) : w.session = s
<1>1. sessions[s] \in AgentSessionRecord
  BY DEF TypeOK
<1>2. /\ WriteLater(s, Retired(sessions[s])) \in WriteOf
      /\ WriteLater(s, Retired(sessions[s])).session = s
      /\ WriteLater(s, Retired(sessions[s])).row = Retired(sessions[s])
  BY <1>1, RetiredType, WriteLaterType
<1> QED BY <1>1, <1>2, RetiredType DEF ToRetire

LEMMA ListedType ==
    ASSUME Inv
    PROVE  /\ Listed \in SUBSET WriteOf
           /\ \A w \in Listed : /\ w.session \in Session /\ w.row.state = "retired"
                                /\ sessions[w.session].state # "none" /\ w.row.route \in Route
<1> SUFFICES ASSUME NEW w \in Listed
             PROVE  /\ w \in WriteOf /\ w.session \in Session /\ w.row.state = "retired"
                    /\ sessions[w.session].state # "none" /\ w.row.route \in Route
  OBVIOUS
<1>1. PICK s \in DueNow : w = WriteLater(s, Retired(sessions[s]))
  BY DEF Listed
<1>2. s \in Session /\ sessions[s].state # "none" /\ sessions[s] \in AgentSessionRecord
  BY <1>1 DEF DueNow, Inv, TypeOK
<1>3. sessions[s].route \in Route
  BY <1>2 DEF Inv, RowSound
<1> QED BY <1>1, <1>2, <1>3, RetiredType, WriteLaterType DEF Inv

---------------------------------------------------------------------------
(***************************************************************************)
(* A step of one request that touches no session.                           *)
(***************************************************************************)

KeepsKey(q) ==
    Holds(q)' => /\ requests'[q].route = requests[q].route
                 /\ Holds(q) \/ ~KeyHeld(requests[q].route)

LEMMA KeyStep ==
    ASSUME KeyExclusive, NEW q \in Request, OthersKeep(q), KeepsKey(q)
    PROVE  KeyExclusive'
BY DEF KeyExclusive, OthersKeep, KeepsKey, Holds, KeyHeld

OtherWritesKeep(a) == \A b \in Actor \ { a } : writes'[b] = writes[b]

LEMMA JobStep ==
    ASSUME Inv, TypeOK', NEW q \in Request, OthersKeep(q), OtherWritesKeep(q), KeepsKey(q),
           sessions' = sessions, disputed' = disputed,
           JobOK(q)', Writes(q)'
    PROVE  Inv'
<1>1. KeyExclusive'
  BY KeyStep DEF Inv
<1>2. OneSelectablePerRoute'
  BY DEF Inv, OneSelectablePerRoute, Selectable
<1>3. \A s \in Session : RowSound(sessions'[s])
  BY DEF Inv
<1>4. \A p \in Request : JobOK(p)'
  <2> SUFFICES ASSUME NEW p \in Request, p # q PROVE JobOK(p)'
    OBVIOUS
  <2>1. JobOK(p) /\ requests'[p] = requests[p] /\ writes'[p] = writes[p]
    BY Actors DEF Inv, OthersKeep, OtherWritesKeep
  <2>2. Formed(p)' /\ Started(p)' /\ About(p)' /\ Writing(p)'
    BY <2>1 DEF JobOK, Formed, Started, About, Writing
  <2>3. Cleared(p)'
    BY <2>1 DEF JobOK, Cleared, LookedUp, LookedTwice, Left, Selectable
  <2> QED BY <2>2, <2>3 DEF JobOK
<1>5. \A a \in Actor : Writes(a)'
  <2> SUFFICES ASSUME NEW a \in Actor, a # q PROVE Writes(a)'
    OBVIOUS
  <2>1. Writes(a) /\ writes'[a] = writes[a] /\ (a \in Request => requests'[a] = requests[a])
    BY DEF Inv, OthersKeep, OtherWritesKeep
  <2> QED BY <2>1 DEF Writes, Holds
<1> QED BY <1>1, <1>2, <1>3, <1>4, <1>5 DEF Inv

\* A request that writes nothing, takes no key and is no resume job under way.
LEMMA PlainJob ==
    ASSUME NEW q \in Request, Formed(q)', Started(q)', About(q)', writes'[q] = {},
           requests'[q].kind = "resume" => requests'[q].step \notin { "active", "starting", "write" }
    PROVE  JobOK(q)' /\ Writes(q)'
<1>1. Writing(q)' /\ Writes(q)'
  BY DEF Writing, Writes
<1>2. Cleared(q)'
  BY DEF Cleared, LookedUp, LookedTwice
<1> QED BY <1>1, <1>2 DEF JobOK

\* One that has ended, whatever it was.
LEMMA SettledStep ==
    ASSUME Inv, NEW q \in Request, NEW step \in Settled, Settle(q, step),
           writes' \in [ Actor -> SUBSET WriteOf ], OtherWritesKeep(q), writes'[q] = {},
           UNCHANGED << sessions, disputed >>, events' \in Nat
    PROVE  Inv'
<1> USE DEF Inv
<1>1. /\ OthersKeep(q) /\ requests' \in [ Request -> RequestJob ]
      /\ requests'[q].kind = "none" /\ requests'[q].step = step
      /\ requests'[q].other = Nobody
  BY SettleJob
<1>2. TypeOK'
  BY <1>1 DEF TypeOK
<1>3. Formed(q)' /\ Started(q)' /\ About(q)'
  BY <1>1 DEF Formed, Started, About, Settled
<1>4. KeepsKey(q)
  BY <1>1 DEF KeepsKey, Holds, Keyed
<1>5. JobOK(q)' /\ Writes(q)'
  BY <1>1, <1>3, PlainJob
<1> QED BY <1>1, <1>2, <1>4, <1>5, JobStep

LEMMA Unwritten ==
    ASSUME Inv, NEW q \in Request, UNCHANGED writes
    PROVE  /\ writes' \in [ Actor -> SUBSET WriteOf ] /\ OtherWritesKeep(q)
           /\ writes'[q] = writes[q]
BY DEF Inv, TypeOK, OtherWritesKeep

LEMMA IdleWrites ==
    ASSUME Inv, NEW q \in Request, requests[q].step \in Idle
    PROVE  writes[q] = {}
BY DEF Inv, JobOK, Writing

\* One that goes on to wait for its agent task.
LEMMA HandOffStep ==
    ASSUME Inv, NEW q \in Request, HandOff(q), UNCHANGED << sessions, writes, disputed, events >>,
           requests[q].step = "handoff", writes[q] = {}
    PROVE  Inv'
<1> USE DEF Inv
<1>0. /\ writes' \in [ Actor -> SUBSET WriteOf ] /\ OtherWritesKeep(q) /\ writes'[q] = {}
      /\ events' \in Nat
  BY Unwritten DEF TypeOK
<1>1. CASE Outcome(q)
  <2>1. PICK step \in Settled : Settle(q, step)
    BY <1>1 DEF Outcome, Settled
  <2> QED BY <1>0, <2>1, SettledStep
<1>2. CASE Update(q, [ requests[q] EXCEPT !.step = "waiting", !.task = "open" ])
  <2> DEFINE new == [ requests[q] EXCEPT !.step = "waiting", !.task = "open" ]
  <2>1. /\ new \in RequestJob /\ new.kind = requests[q].kind /\ new.step = "waiting"
        /\ new.route = requests[q].route /\ new.session = requests[q].session
        /\ new.other = requests[q].other
    BY DEF TypeOK, RequestJob
  <2>2. Update(q, new)
    BY <1>2
  <2> HIDE DEF new
  <2>3. OthersKeep(q) /\ requests' \in [ Request -> RequestJob ] /\ requests'[q] = new
    BY <2>1, <2>2, UpdateJob
  <2>4. TypeOK'
    BY <2>3, <1>0 DEF TypeOK
  <2>5. JobOK(q)
    BY DEF Inv
  <2>6. Formed(q)' /\ Started(q)' /\ About(q)'
    BY <2>1, <2>3, <2>5 DEF JobOK, Formed, Started, About
  <2>7. KeepsKey(q)
    BY <2>1, <2>3 DEF KeepsKey, Holds, Running
  <2>8. JobOK(q)' /\ Writes(q)'
    BY <1>0, <2>1, <2>3, <2>6, PlainJob
  <2> QED BY <1>0, <2>3, <2>4, <2>7, <2>8, JobStep
<1> QED BY <1>1, <1>2 DEF HandOff

---------------------------------------------------------------------------
(***************************************************************************)
(* The steps that touch no session.                                         *)
(***************************************************************************)

LEMMA InitInv == Init => Inv
<1> SUFFICES ASSUME Init PROVE Inv
  OBVIOUS
<1>1. ASSUME NEW s \in Session
      PROVE  /\ sessions[s] \in AgentSessionRecord /\ RowSound(sessions[s])
             /\ sessions[s].state \in { "none", "retired" }
  <2>1. CASE s \in Earlier
    <3> DEFINE b == Home[s] \in Voice
               rec == [ NewRecord("retired", Home[s]) EXCEPT !.thread = b ]
    <3>1. Home[s] \in Route /\ b \in BOOLEAN
      BY <2>1, SessionAssumption
    <3>2. sessions[s] = rec
      BY <2>1, SessionAssumption DEF Init
    <3> HIDE DEF b
    <3>3. rec \in AgentSessionRecord /\ rec.state = "retired" /\ rec.route \in Route
      BY <3>1 DEF NewRecord, AgentSessionRecord
    <3> QED BY <3>2, <3>3 DEF RowSound
  <2>2. CASE s \notin Earlier
    <3>1. sessions[s] = NewRecord("none", Nobody)
      BY <2>2 DEF Init
    <3>2. /\ NewRecord("none", Nobody) \in AgentSessionRecord
          /\ NewRecord("none", Nobody).state = "none"
          /\ NewRecord("none", Nobody).thread = FALSE
      BY NewRecordType
    <3> QED BY <3>1, <3>2 DEF RowSound
  <2> QED BY <2>1, <2>2
<1>2. sessions \in [ Session -> AgentSessionRecord ]
  <2>1. \A s \in Session : sessions[s] \in AgentSessionRecord
    BY <1>1
  <2> QED BY <2>1 DEF Init
<1> DEFINE job == Job("none", "none", Nobody, Nobody)
<1>3. job \in RequestJob /\ job.kind = "none" /\ job.step = "none" /\ job.other = Nobody
  BY JobType DEF Kinds, Steps
<1>4. requests = [ q \in Request |-> job ]
  BY DEF Init
<1> HIDE DEF job
<1>5. TypeOK
  BY <1>2, <1>3, <1>4 DEF TypeOK, Init
<1>6. \A a \in Actor : writes[a] = {} /\ Writes(a)
  BY DEF Init, Writes
<1>7. ASSUME NEW q \in Request PROVE JobOK(q)
  BY <1>3, <1>4, <1>6, Actors DEF JobOK, Formed, Started, About, Writing, Cleared
<1>8. KeyExclusive
  BY <1>3, <1>4 DEF KeyExclusive, Holds, Keyed
<1>9. OneSelectablePerRoute
  BY <1>1 DEF OneSelectablePerRoute, Selectable
<1> QED BY <1>1, <1>5, <1>6, <1>7, <1>8, <1>9 DEF Inv

LEMMA SubmitInv == ASSUME Inv, NEW q \in Request, Submit(q) PROVE Inv'
<1> USE DEF Inv
<1>1. PICK kind \in Kinds \ { "start" }, r \in Route \cup { Nobody }, s \in Session \cup { Nobody } :
        /\ Update(q, Job(kind, "queued", r, s))
        /\ kind \in { "thread", "resume", "sunset" } => s \in Session /\ sessions[s].state # "none"
        /\ kind = "command" => r \in Voice
        /\ kind = "dm" => r \in Dm
        /\ kind = "resume" => r \in Route
  BY DEF Submit, Kinds, Route
<1>2. /\ OthersKeep(q) /\ requests' \in [ Request -> RequestJob ]
      /\ requests'[q].kind = kind /\ requests'[q].step = "queued"
      /\ requests'[q].route = r /\ requests'[q].session = s /\ requests'[q].other = Nobody
  BY <1>1, JobType, UpdateJob DEF Steps
<1>3. writes[q] = {}
  BY IdleWrites DEF Submit, Idle
<1>4. UNCHANGED << sessions, writes, disputed, events >>
  BY DEF Submit
<1>5. TypeOK' /\ OtherWritesKeep(q) /\ writes'[q] = {}
  BY <1>2, <1>3, <1>4, Unwritten DEF TypeOK
<1>6. Formed(q)' /\ Started(q)' /\ About(q)' /\ KeepsKey(q)
  BY <1>1, <1>2, <1>4 DEF Formed, Started, About, KeepsKey, Holds, Running
<1>7. JobOK(q)' /\ Writes(q)'
  BY <1>2, <1>5, <1>6, PlainJob
<1> QED BY <1>2, <1>4, <1>5, <1>6, <1>7, JobStep

LEMMA AbandonInv == ASSUME Inv, NEW q \in Request, Abandon(q) PROVE Inv'
<1>1. Settle(q, "failed") /\ Reads(q, {}) /\ events' \in Nat
      /\ UNCHANGED << sessions, disputed >>
  BY DEF Abandon, Event, Inv, TypeOK
<1>2. /\ writes' \in [ Actor -> SUBSET WriteOf ] /\ OtherWritesKeep(q) /\ writes'[q] = {}
  BY <1>1, ReadsType, Actors DEF Inv, OtherWritesKeep
<1> QED BY <1>1, <1>2, SettledStep DEF Settled

\* The row of a session that is past its start, read to be touched.
LEMMA TouchWrites ==
    ASSUME Inv, NEW a \in Actor, NEW s \in Session, sessions[s].state \in { "active", "retired" },
           Reads(a, { WriteLater(s, Touched(sessions[s])) }), sessions' = sessions
    PROVE  /\ writes' \in [ Actor -> SUBSET WriteOf ] /\ OtherWritesKeep(a)
           /\ \A w \in writes'[a] : w.session = s
           /\ writes'[a] # {} /\ Writes(a)'
<1>1. sessions[s] \in AgentSessionRecord /\ sessions[s].route \in Route
  BY DEF Inv, TypeOK, RowSound
<1> DEFINE w == WriteLater(s, Touched(sessions[s]))
<1>2. /\ w \in WriteOf /\ w.session = s /\ w.row.state = sessions[s].state
      /\ w.row.route = sessions[s].route /\ w.was = sessions[s].state
  BY <1>1, TouchedType, WriteLaterType DEF Inv
<1>3. Reads(a, { w })
  OBVIOUS
<1> HIDE DEF w
<1>4. /\ writes' \in [ Actor -> SUBSET WriteOf ] /\ writes'[a] = { w } /\ OtherWritesKeep(a)
  BY <1>2, <1>3, ReadsType DEF Inv, OtherWritesKeep
<1>5. \A v \in writes'[a] : v = w
  BY <1>4
<1>6. /\ w.was = "retired" => w.row.state = "retired"
      /\ w.row.state \in { "active", "retired" } /\ w.row.route \in Route
      /\ sessions'[w.session].state \in { "active", "retired" }
  BY <1>1, <1>2
<1>7. Writes(a)'
  BY <1>5, <1>6 DEF Writes
<1> QED BY <1>2, <1>4, <1>5, <1>7

LEMMA TaskAnswersInv == ASSUME Inv, NEW q \in Request, TaskAnswers(q) PROVE Inv'
<1> USE DEF Inv
<1> DEFINE s == requests[q].session
           new == [ requests[q] EXCEPT !.task = "answered" ]
<1>1. requests[q].step = "waiting" /\ JobOK(q)
  BY DEF TaskAnswers
<1>2. s \in Session /\ sessions[s].state \in { "active", "retired" }
  BY <1>1 DEF JobOK, Formed, Started
<1>3. /\ new \in RequestJob /\ new.kind = requests[q].kind /\ new.step = "waiting"
      /\ new.route = requests[q].route /\ new.session = s
      /\ new.other = requests[q].other
  BY <1>1 DEF TypeOK, RequestJob
<1>4. Update(q, new) /\ Reads(q, { WriteLater(s, Touched(sessions[s])) })
      /\ UNCHANGED << sessions, disputed, events >>
  BY DEF TaskAnswers
<1> HIDE DEF new
<1>5. OthersKeep(q) /\ requests' \in [ Request -> RequestJob ] /\ requests'[q] = new
  BY <1>3, <1>4, UpdateJob
<1>6. /\ writes' \in [ Actor -> SUBSET WriteOf ] /\ OtherWritesKeep(q) /\ Writes(q)'
  BY <1>2, <1>4, TouchWrites, Actors
<1>7. TypeOK'
  BY <1>4, <1>5, <1>6 DEF TypeOK
<1>8. Formed(q)' /\ Started(q)' /\ About(q)' /\ KeepsKey(q)
  BY <1>1, <1>3, <1>4, <1>5
     DEF JobOK, Formed, Started, About, KeepsKey, Holds, Running
<1>9. Writing(q)' /\ Cleared(q)'
  BY <1>3, <1>5 DEF Writing, Idle, Running, Cleared, LookedUp, LookedTwice
<1> QED BY <1>4, <1>5, <1>6, <1>7, <1>8, <1>9, JobStep DEF JobOK

LEMMA TaskSettlesInv == ASSUME Inv, NEW q \in Request, TaskSettles(q) PROVE Inv'
<1> USE DEF Inv
<1>0. /\ requests[q].step = "waiting" /\ writes[q] = {} /\ JobOK(q)
      /\ UNCHANGED << sessions, writes, disputed, events >>
  BY DEF TaskSettles
<1>1. /\ writes' \in [ Actor -> SUBSET WriteOf ] /\ OtherWritesKeep(q) /\ writes'[q] = {}
      /\ events' \in Nat
  BY <1>0, Unwritten DEF TypeOK
<1>2. CASE \E step \in Settled : Settle(q, step)
  BY <1>0, <1>1, <1>2, SettledStep
<1>3. ASSUME NEW t \in { "complete", "failed" },
             Update(q, [ requests[q] EXCEPT !.step = "queued", !.task = t ])
      PROVE  Inv'
  <2> DEFINE new == [ requests[q] EXCEPT !.step = "queued", !.task = t ]
  <2>1. /\ new \in RequestJob /\ new.kind = requests[q].kind /\ new.step = "queued"
        /\ new.route = requests[q].route /\ new.session = requests[q].session
        /\ new.other = requests[q].other
    BY DEF TypeOK, RequestJob
  <2>2. Update(q, new)
    BY <1>3
  <2> HIDE DEF new
  <2>3. OthersKeep(q) /\ requests' \in [ Request -> RequestJob ] /\ requests'[q] = new
    BY <2>1, <2>2, UpdateJob
  <2>4. TypeOK'
    BY <1>0, <1>1, <2>3 DEF TypeOK
  <2>5. Formed(q)' /\ Started(q)' /\ About(q)' /\ KeepsKey(q)
    BY <1>0, <2>1, <2>3 DEF JobOK, Formed, Started, About, KeepsKey, Holds, Running
  <2>6. JobOK(q)' /\ Writes(q)'
    BY <1>1, <2>1, <2>3, <2>5, PlainJob
  <2> QED BY <1>0, <1>1, <2>3, <2>4, <2>5, <2>6, JobStep
<1> QED BY <1>2, <1>3 DEF TaskSettles, Settled

---------------------------------------------------------------------------
(***************************************************************************)
(* The handlers that only read sessions.                                    *)
(***************************************************************************)

\* Rows that are about to be written retired.
LEMMA RetiringWrites ==
    ASSUME Inv, NEW a \in Actor, NEW set \in SUBSET WriteOf, Reads(a, set), sessions' = sessions,
           \A w \in set : /\ w.row.state = "retired" /\ w.row.route \in Route
                          /\ sessions[w.session].state # "none"
    PROVE  /\ writes' \in [ Actor -> SUBSET WriteOf ] /\ OtherWritesKeep(a)
           /\ writes'[a] = set /\ Writes(a)'
<1>1. /\ writes' \in [ Actor -> SUBSET WriteOf ] /\ writes'[a] = set /\ OtherWritesKeep(a)
  BY ReadsType DEF Inv, OtherWritesKeep
<1> QED BY <1>1 DEF Writes

\* A step that touches neither sessions nor requests and reads new rows.
LEMMA QuietWrites ==
    ASSUME Inv, NEW a \in Actor, UNCHANGED << sessions, requests, disputed >>, events' \in Nat,
           a \notin Request, writes' \in [ Actor -> SUBSET WriteOf ], OtherWritesKeep(a), Writes(a)'
    PROVE  Inv'
<1> USE DEF Inv
<1>1. TypeOK'
  BY DEF TypeOK
<1>2. KeyExclusive' /\ OneSelectablePerRoute'
  BY DEF KeyExclusive, Holds, OneSelectablePerRoute, Selectable
<1>3. \A s \in Session : RowSound(sessions'[s])
  OBVIOUS
<1>4. ASSUME NEW p \in Request PROVE JobOK(p)'
  <2>1. JobOK(p) /\ writes'[p] = writes[p]
    BY Actors DEF OtherWritesKeep
  <2> QED BY <2>1 DEF JobOK, Formed, Started, About, Writing, Cleared, LookedUp,
                      LookedTwice, Left, Selectable
<1>5. ASSUME NEW b \in Actor, b # a PROVE Writes(b)'
  <2>1. Writes(b) /\ writes'[b] = writes[b]
    BY <1>5 DEF OtherWritesKeep
  <2> QED BY <2>1 DEF Writes, Holds
<1> QED BY <1>1, <1>2, <1>3, <1>4, <1>5

LEMMA RetirementPassInv == ASSUME Inv, RetirementPass PROVE Inv'
<1> USE DEF Inv
<1>1. /\ Reads(Upkeep, Listed) /\ UNCHANGED << sessions, requests, disputed, events >>
  BY DEF RetirementPass
<1>2. /\ writes' \in [ Actor -> SUBSET WriteOf ] /\ OtherWritesKeep(Upkeep) /\ Writes(Upkeep)'
  BY <1>1, ListedType, RetiringWrites, Actors
<1> QED BY <1>1, <1>2, QuietWrites, Actors DEF TypeOK

LEMMA ClaimSelectionInv == ASSUME Inv, NEW q \in Request, ClaimSelection(q) PROVE Inv'
<1> USE DEF Inv
<1>1. /\ requests[q].kind \in { "command", "dm" } /\ requests[q].step = "queued"
      /\ ~KeyHeld(requests[q].route) /\ Goes(q, "retire") /\ Reads(q, Listed)
      /\ UNCHANGED << sessions, disputed, events >> /\ JobOK(q)
  BY DEF ClaimSelection, Unclaimed, Keyed
<1>2. /\ OthersKeep(q) /\ requests' \in [ Request -> RequestJob ]
      /\ requests'[q].kind = requests[q].kind /\ requests'[q].step = "retire"
      /\ requests'[q].route = requests[q].route
      /\ requests'[q].session = requests[q].session
      /\ requests'[q].other = requests[q].other
  BY <1>1, GoesJob DEF Steps
<1>3. /\ writes' \in [ Actor -> SUBSET WriteOf ] /\ OtherWritesKeep(q) /\ Writes(q)'
  BY <1>1, ListedType, RetiringWrites, Actors
<1>4. TypeOK'
  BY <1>1, <1>2, <1>3 DEF TypeOK
<1>5. Formed(q)' /\ Started(q)' /\ About(q)' /\ KeepsKey(q)
  BY <1>1, <1>2 DEF JobOK, Formed, Started, About, KeepsKey
<1>6. Writing(q)' /\ Cleared(q)'
  BY <1>1, <1>2 DEF Writing, Idle, Cleared
<1> QED BY <1>1, <1>2, <1>3, <1>4, <1>5, <1>6, JobStep DEF JobOK

\* A job that goes on without writing, to a step that claims nothing of the route.
LEMMA PlainStep ==
    ASSUME Inv, NEW q \in Request, NEW new \in RequestJob, Update(q, new),
           UNCHANGED << sessions, writes, disputed, events >>, writes[q] = {},
           new.step \in Running => /\ new.route = requests[q].route /\ new.kind = requests[q].kind
                                   /\ requests[q].step \in Running \/ ~KeyHeld(new.route)
                                        \/ new.kind \notin Keyed,
           Formed(q)', Started(q)', About(q)',
           new.kind = "resume" => new.step \notin { "active", "starting", "write" }
    PROVE  Inv'
<1> USE DEF Inv
<1>1. OthersKeep(q) /\ requests' \in [ Request -> RequestJob ] /\ requests'[q] = new
  BY UpdateJob
<1>2. /\ writes' \in [ Actor -> SUBSET WriteOf ] /\ OtherWritesKeep(q) /\ writes'[q] = {}
  BY Unwritten
<1>3. TypeOK'
  BY <1>1, <1>2 DEF TypeOK
<1>4. KeepsKey(q)
  BY <1>1 DEF KeepsKey, Holds
<1>5. JobOK(q)' /\ Writes(q)'
  BY <1>1, <1>2, PlainJob
<1> QED BY <1>1, <1>2, <1>3, <1>4, <1>5, JobStep

LEMMA UseActiveInv == ASSUME Inv, NEW q \in Request, UseActive(q) PROVE Inv'
<1> USE DEF Inv
<1>1. PICK s \in Found(requests[q].route, "active") :
        \/ /\ Selects(q, "command")
           /\ Update(q, [ requests[q] EXCEPT !.step = "waiting", !.session = s, !.task = "open" ])
        \/ /\ Selects(q, "dm")
           /\ Update(q, [ requests[q] EXCEPT !.step = "touch", !.session = s ])
  BY DEF UseActive
<1>2. s \in Session /\ sessions[s].state = "active"
  BY <1>1 DEF Found
<1>3. /\ requests[q].kind \in { "command", "dm" } /\ requests[q].step = "retire" /\ writes[q] = {}
      /\ UNCHANGED << sessions, writes, disputed, events >> /\ JobOK(q)
  BY <1>1 DEF Selects, UseActive
<1>4. PICK new \in RequestJob :
        /\ Update(q, new) /\ new.kind = requests[q].kind /\ new.session = s
        /\ new.route = requests[q].route /\ new.other = requests[q].other
        /\ new.step \in { "waiting", "touch" }
  <2>1. CASE Update(q, [ requests[q] EXCEPT !.step = "waiting", !.session = s, !.task = "open" ])
    <3> DEFINE new == [ requests[q] EXCEPT !.step = "waiting", !.session = s, !.task = "open" ]
    <3>1. /\ new \in RequestJob /\ new.kind = requests[q].kind /\ new.session = s
          /\ new.route = requests[q].route /\ new.other = requests[q].other
          /\ new.step = "waiting"
      BY <1>2 DEF TypeOK, RequestJob
    <3> QED BY <2>1, <3>1
  <2>2. CASE Update(q, [ requests[q] EXCEPT !.step = "touch", !.session = s ])
    <3> DEFINE new == [ requests[q] EXCEPT !.step = "touch", !.session = s ]
    <3>1. /\ new \in RequestJob /\ new.kind = requests[q].kind /\ new.session = s
          /\ new.route = requests[q].route /\ new.other = requests[q].other
          /\ new.step = "touch"
      BY <1>2 DEF TypeOK, RequestJob
    <3> QED BY <2>2, <3>1
  <2> QED BY <1>1, <2>1, <2>2
<1>5. requests'[q] = new
  BY <1>4, UpdateJob
<1>6. Formed(q)' /\ Started(q)' /\ About(q)'
  BY <1>2, <1>3, <1>4, <1>5 DEF JobOK, Formed, Started, About
<1> QED BY <1>3, <1>4, <1>6, PlainStep DEF Running

LEMMA JoinStartingInv == ASSUME Inv, NEW q \in Request, JoinStarting(q) PROVE Inv'
<1> USE DEF Inv
<1>1. PICK s \in Found(requests[q].route, "starting") : BecomeStart(q, s)
  BY DEF JoinStarting
<1>2. s \in Session /\ sessions[s].state = "starting" /\ sessions[s].route = requests[q].route
  BY <1>1 DEF Found
<1>3. /\ requests[q].kind = "command" /\ requests[q].step = "retire" /\ writes[q] = {}
      /\ UNCHANGED << sessions, writes, disputed, events >> /\ JobOK(q)
  BY DEF Selects, JoinStarting
<1> DEFINE new == [ requests[q] EXCEPT !.kind = "start", !.step = "queued", !.session = s ]
<1>4. /\ new \in RequestJob /\ new.kind = "start" /\ new.session = s /\ new.step = "queued"
      /\ new.route = requests[q].route /\ new.other = requests[q].other
  BY <1>2 DEF TypeOK, RequestJob
<1>5. Update(q, new)
  BY <1>1 DEF BecomeStart
<1> HIDE DEF new
<1>6. requests'[q] = new
  BY <1>5, UpdateJob
<1>7. Formed(q)' /\ Started(q)' /\ About(q)'
  BY <1>2, <1>3, <1>4, <1>6 DEF JobOK, Formed, Started, About
<1> QED BY <1>3, <1>4, <1>5, <1>7, PlainStep DEF Running

LEMMA ThreadMessageInv == ASSUME Inv, NEW q \in Request, ThreadMessage(q) PROVE Inv'
<1> USE DEF Inv
<1> DEFINE s == requests[q].session
<1>1. /\ requests[q].kind = "thread" /\ requests[q].step = "queued" /\ writes[q] = {}
      /\ UNCHANGED << sessions, writes, disputed, events >> /\ JobOK(q)
  BY IdleWrites DEF ThreadMessage, Unclaimed, Idle
<1>2. s \in Session /\ sessions[s] \in AgentSessionRecord /\ RowSound(sessions[s])
  BY <1>1 DEF JobOK, Formed, TypeOK
<1>3. CASE Settle(q, "dropped")
  BY <1>1, <1>3, Unwritten, SettledStep DEF Settled, TypeOK
<1>4. CASE Current(s) /\ Goes(q, "touch")
  <2> DEFINE new == [ requests[q] EXCEPT !.step = "touch" ]
  <2>1. /\ new \in RequestJob /\ new.kind = "thread" /\ new.session = s /\ new.step = "touch"
        /\ new.route = requests[q].route /\ new.other = requests[q].other
    BY <1>1 DEF TypeOK, RequestJob
  <2>2. Update(q, new)
    BY <1>4 DEF Goes
  <2> HIDE DEF new
  <2>3. requests'[q] = new
    BY <2>2, UpdateJob
  <2>4. Formed(q)' /\ Started(q)' /\ About(q)'
    BY <1>1, <1>4, <2>1, <2>3 DEF JobOK, Formed, Started, About, Current
  <2> QED BY <1>1, <2>1, <2>2, <2>4, PlainStep DEF Running, Keyed
<1>5. CASE /\ sessions[s].thread
           /\ Update(q, [ requests[q] EXCEPT !.kind = "resume", !.route = sessions[s].route ])
  <2> DEFINE r == sessions[s].route
             new == [ requests[q] EXCEPT !.kind = "resume", !.route = r ]
  <2>1. r \in Route /\ sessions[s].state # "none"
    BY <1>2, <1>5 DEF RowSound, AgentSessionRecord
  <2>2. Update(q, new)
    BY <1>5
  <2> HIDE DEF r
  <2>3. /\ new \in RequestJob /\ new.kind = "resume" /\ new.session = s /\ new.step = "queued"
        /\ new.route = r /\ new.other = requests[q].other
    BY <1>1, <2>1 DEF TypeOK, RequestJob
  <2> HIDE DEF new
  <2>4. requests'[q] = new
    BY <2>2, UpdateJob
  <2>5. Formed(q)' /\ Started(q)' /\ About(q)'
    BY <1>1, <1>2, <2>1, <2>3, <2>4 DEF JobOK, Formed, Started, About
  <2> QED BY <1>1, <2>2, <2>3, <2>5, PlainStep DEF Running
<1> QED BY <1>3, <1>4, <1>5 DEF ThreadMessage

LEMMA CreateTaskInv == ASSUME Inv, NEW q \in Request, CreateTask(q) PROVE Inv'
BY HandOffStep DEF CreateTask

LEMMA SunsetDoneInv == ASSUME Inv, NEW q \in Request, SunsetDone(q) PROVE Inv'
<1>1. /\ Settle(q, "served") /\ writes[q] = {} /\ UNCHANGED << sessions, writes, disputed, events >>
  BY DEF SunsetDone, Selects
<1> QED BY <1>1, Unwritten, SettledStep DEF Settled, Inv, TypeOK

\* A keyed or sunset job at its first step reads the session it is about.
LEMMA ReadingStep ==
    ASSUME Inv, NEW q \in Request, NEW step \in { "handoff", "retire" }, Goes(q, step),
           UNCHANGED << sessions, disputed, events >>,
           requests[q].step \in { "queued", "touch" },
           requests[q].kind \in Keyed => Holds(q) \/ ~KeyHeld(requests[q].route),
           writes' \in [ Actor -> SUBSET WriteOf ], OtherWritesKeep(q),
           step = "handoff" =>
             /\ requests[q].session \in Session
             /\ writes'[q] = {} =>
                  sessions[requests[q].session].state \in { "active", "retired" },
           \A w \in writes'[q] :
             /\ w.session = requests[q].session
             /\ sessions[w.session].state # "none"
             /\ w.row.state \in { "active", "retired" } /\ w.row.route \in Route
             /\ w.was = "retired" => w.row.state = "retired"
             /\ requests[q].kind = "resume" => w.row.state = "retired"
             /\ sessions[w.session].state = "starting" /\ w.row.state = "active" =>
                  requests[q].kind = "start" /\ step = "handoff"
    PROVE  Inv'
<1> USE DEF Inv
<1>1. /\ OthersKeep(q) /\ requests' \in [ Request -> RequestJob ]
      /\ requests'[q].kind = requests[q].kind /\ requests'[q].step = step
      /\ requests'[q].route = requests[q].route
      /\ requests'[q].session = requests[q].session
      /\ requests'[q].other = requests[q].other
  BY GoesJob DEF Steps
<1>2. TypeOK' /\ JobOK(q)
  BY <1>1 DEF TypeOK
<1>3. Formed(q)' /\ Started(q)' /\ About(q)'
  BY <1>1, <1>2 DEF JobOK, Formed, Started, About
<1>4. KeepsKey(q)
  BY <1>1 DEF KeepsKey, Holds
<1>5. Writing(q)' /\ Cleared(q)'
  BY <1>1 DEF Writing, Idle, Cleared, LookedUp, LookedTwice
<1>6. Writes(q)'
  BY <1>1, <1>2 DEF Writes, Holds, Keyed, Running, JobOK, About
<1> QED BY <1>1, <1>2, <1>3, <1>4, <1>5, <1>6, JobStep DEF JobOK

LEMMA StartInv == ASSUME Inv, NEW q \in Request, Start(q) PROVE Inv'
<1> USE DEF Inv
<1> DEFINE s == requests[q].session
<1>1. /\ requests[q].kind = "start" /\ requests[q].step = "queued" /\ writes[q] = {} /\ JobOK(q)
      /\ ~KeyHeld(requests[q].route) /\ UNCHANGED << sessions, disputed, events >>
  BY IdleWrites DEF Start, Unclaimed, Idle, Keyed
<1>2. s \in Session /\ sessions[s] \in AgentSessionRecord /\ RowSound(sessions[s])
  BY <1>1 DEF JobOK, Formed, TypeOK
<1>3. CASE /\ sessions[s].state = "starting" /\ Goes(q, "handoff")
           /\ Reads(q, { WriteLater(s, Touched(sessions[s])) })
  <2> DEFINE w == WriteLater(s, Touched(sessions[s]))
  <2>1. /\ w \in WriteOf /\ w.session = s /\ w.row.state = "active"
        /\ w.row.route \in Route /\ w.was = "starting"
    BY <1>2, <1>3, TouchedType, WriteLaterType DEF RowSound
  <2>2. Reads(q, { w })
    BY <1>3
  <2> HIDE DEF w
  <2>3. /\ writes' \in [ Actor -> SUBSET WriteOf ] /\ writes'[q] = { w } /\ OtherWritesKeep(q)
    BY <2>1, <2>2, ReadsType, Actors DEF OtherWritesKeep
  <2> QED BY <1>1, <1>2, <1>3, <2>1, <2>3, ReadingStep
<1>4. CASE sessions[s].state = "active" /\ Goes(q, "handoff") /\ UNCHANGED writes
  BY <1>1, <1>2, <1>4, Unwritten, ReadingStep
<1>5. CASE \E step \in Settled : Settle(q, step) /\ UNCHANGED writes
  BY <1>1, <1>5, Unwritten, SettledStep DEF TypeOK
<1> QED BY <1>3, <1>4, <1>5 DEF Start, Settled

LEMMA TouchInv == ASSUME Inv, NEW q \in Request, Touch(q) PROVE Inv'
<1> USE DEF Inv
<1> DEFINE s == requests[q].session
<1>1. /\ requests[q].step = "touch" /\ JobOK(q) /\ UNCHANGED << sessions, disputed, events >>
      /\ Goes(q, "handoff") /\ Reads(q, { WriteLater(s, Touched(sessions[s])) })
  BY DEF Touch
<1>2. s \in Session /\ sessions[s].state \in { "active", "retired" }
  BY <1>1 DEF JobOK, Formed, Started
<1>3. requests[q].kind \in Keyed => Holds(q)
  BY <1>1 DEF Holds, Running
<1>4. requests[q].kind # "resume"
  BY <1>1 DEF JobOK, Formed
<1>5. /\ writes' \in [ Actor -> SUBSET WriteOf ] /\ OtherWritesKeep(q)
      /\ \A w \in writes'[q] : w.session = s
      /\ writes'[q] # {} /\ Writes(q)'
  BY <1>1, <1>2, TouchWrites, Actors
<1>6. \A w \in writes'[q] : /\ w.row.state \in { "active", "retired" } /\ w.row.route \in Route
                            /\ w.was = "retired" => w.row.state = "retired"
  BY <1>5 DEF Writes
<1> QED BY <1>1, <1>2, <1>3, <1>4, <1>5, <1>6, ReadingStep

LEMMA SunsetInv == ASSUME Inv, NEW q \in Request, Sunset(q) PROVE Inv'
<1> USE DEF Inv
<1> DEFINE s == requests[q].session
<1>1. /\ requests[q].kind = "sunset" /\ requests[q].step = "queued" /\ JobOK(q)
      /\ UNCHANGED << sessions, disputed, events >>
      /\ Goes(q, "retire") /\ Reads(q, ToRetire(s))
  BY DEF Sunset, Unclaimed
<1>2. s \in Session /\ sessions[s].state # "none" /\ sessions[s].route \in Route
  BY <1>1 DEF JobOK, Formed, About, RowSound
<1>3. /\ writes' \in [ Actor -> SUBSET WriteOf ] /\ writes'[q] = ToRetire(s) /\ OtherWritesKeep(q)
  BY <1>1, <1>2, ToRetireType, ReadsType, Actors DEF OtherWritesKeep
<1> QED BY <1>1, <1>2, <1>3, ToRetireType, ReadingStep DEF Keyed

---------------------------------------------------------------------------
(***************************************************************************)
(* A resume job and its route.                                              *)
(***************************************************************************)

\* A step of a resume job that holds the key of its route.
LEMMA ResumeStep ==
    ASSUME Inv, NEW q \in Request, NEW new \in RequestJob, Update(q, new),
           UNCHANGED << sessions, disputed, events >>,
           writes' \in [ Actor -> SUBSET WriteOf ], OtherWritesKeep(q),
           requests[q].kind = "resume", requests[q].step \in { "queued", "active", "starting" },
           Holds(q) \/ ~KeyHeld(requests[q].route),
           new.kind = "resume", new.step \in { "active", "starting", "write" },
           new.route = requests[q].route, new.session = requests[q].session,
           new.step = "write" => new.other = Nobody,
           new.other # Nobody => sessions[new.other].state # "none",
           \A w \in writes'[q] : /\ w.row.state = "retired" /\ w.row.route \in Route
                                 /\ sessions[w.session].state # "none",
           Cleared(q)'
    PROVE  Inv'
<1> USE DEF Inv
<1>1. OthersKeep(q) /\ requests' \in [ Request -> RequestJob ] /\ requests'[q] = new
  BY UpdateJob
<1>2. TypeOK' /\ JobOK(q)
  BY <1>1 DEF TypeOK
<1>3. Formed(q)' /\ Started(q)' /\ About(q)'
  BY <1>1, <1>2 DEF JobOK, Formed, Started, About
<1>4. KeepsKey(q)
  BY <1>1 DEF KeepsKey, Holds
<1>5. Writing(q)' /\ Writes(q)'
  BY <1>1 DEF Writing, Writes, Idle
<1> QED BY <1>1, <1>2, <1>3, <1>4, <1>5, JobStep DEF JobOK

LEMMA ClaimResumeInv == ASSUME Inv, NEW q \in Request, ClaimResume(q) PROVE Inv'
<1> USE DEF Inv
<1> DEFINE s == requests[q].session
<1>1. /\ requests[q].kind = "resume" /\ requests[q].step = "queued" /\ writes[q] = {} /\ JobOK(q)
      /\ ~KeyHeld(requests[q].route) /\ UNCHANGED << sessions, writes, disputed, events >>
  BY IdleWrites DEF ClaimResume, Unclaimed, Idle, Keyed
<1>2. s \in Session /\ sessions[s] \in AgentSessionRecord
  BY <1>1 DEF JobOK, Formed, TypeOK
<1>3. CASE Settle(q, "failed")
  BY <1>1, <1>3, Unwritten, SettledStep DEF Settled, TypeOK
<1>4. CASE Update(q, [ requests[q] EXCEPT !.step = "active", !.thread = sessions[s].thread ])
  <2> DEFINE b == sessions[s].thread
             new == [ requests[q] EXCEPT !.step = "active", !.thread = b ]
  <2>1. b \in BOOLEAN
    BY <1>2 DEF AgentSessionRecord
  <2>2. Update(q, new)
    BY <1>4
  <2> HIDE DEF b
  <2>3. /\ new \in RequestJob /\ new.kind = "resume" /\ new.step = "active"
        /\ new.route = requests[q].route /\ new.session = requests[q].session
        /\ new.other = requests[q].other
    BY <1>1, <2>1 DEF TypeOK, RequestJob
  <2> HIDE DEF new
  <2>4. requests'[q] = new /\ new.other = Nobody
    BY <1>1, <2>2, <2>3, UpdateJob DEF JobOK, Formed
  <2>5. Cleared(q)'
    BY <2>3, <2>4 DEF Cleared, LookedUp, LookedTwice
  <2> QED BY <1>1, <2>2, <2>3, <2>4, <2>5, Unwritten, ResumeStep
<1> QED BY <1>3, <1>4 DEF ClaimResume

\* A lookup of a route that is not disputed finds whoever is on it.
LEMMA LookUpInv == ASSUME Inv, NEW q \in Request, LookUp(q) PROVE Inv'
<1> USE DEF Inv
<1> DEFINE r == requests[q].route
           found == Found(r, requests[q].step)
<1>1. /\ requests[q].kind = "resume" /\ requests[q].step \in { "active", "starting" }
      /\ writes[q] = {} /\ requests[q].other = Nobody /\ JobOK(q)
      /\ UNCHANGED << sessions, writes, disputed, events >>
  BY DEF LookUp, Looks
<1>2. Holds(q) /\ Cleared(q)
  BY <1>1 DEF Holds, Keyed, Running, JobOK
<1>3. ASSUME NEW s \in found, r \notin disputed
      PROVE  \A t \in Session : Selectable(t) /\ sessions[t].route = r => t = s
  BY <1>3 DEF Found, OneSelectablePerRoute
<1>4. CASE \E s \in found \ { requests[q].session } :
             Update(q, [ requests[q] EXCEPT !.other = s ])
  <2>1. PICK s \in found \ { requests[q].session } :
             Update(q, [ requests[q] EXCEPT !.other = s ])
    BY <1>4
  <2> DEFINE new == [ requests[q] EXCEPT !.other = s ]
  <2>2. s \in Session /\ sessions[s].state # "none"
    BY <1>1, <2>1 DEF Found
  <2>3. /\ new \in RequestJob /\ new.kind = "resume" /\ new.step = requests[q].step
        /\ new.route = r /\ new.session = requests[q].session /\ new.other = s
    BY <1>1, <2>2 DEF TypeOK, RequestJob
  <2>4. Update(q, new)
    BY <2>1
  <2> HIDE DEF new
  <2>5. requests'[q] = new
    BY <2>4, UpdateJob
  <2>6. Cleared(q)'
    BY <1>1, <1>3, <2>1, <2>3, <2>5 DEF Cleared, Left, Selectable
  <2> QED BY <1>1, <1>2, <2>2, <2>3, <2>4, <2>6, Unwritten, ResumeStep
<1>5. CASE (found = {} \/ requests[q].session \in found) /\ Goes(q, AfterLookup(q))
  <2> DEFINE step == AfterLookup(q)
             new == [ requests[q] EXCEPT !.step = step ]
  <2>1. step = IF requests[q].step = "active" THEN "starting" ELSE "write"
    BY DEF AfterLookup
  <2>2. Update(q, new)
    BY <1>5 DEF Goes
  <2> HIDE DEF step
  <2>3. /\ new \in RequestJob /\ new.kind = "resume" /\ new.step = step
        /\ new.route = r /\ new.session = requests[q].session /\ new.other = Nobody
    BY <1>1, <2>1 DEF TypeOK, RequestJob
  <2> HIDE DEF new
  <2>4. requests'[q] = new
    BY <2>2, UpdateJob
  <2>5. Cleared(q)'
    <3> SUFFICES ASSUME r \notin disputed, NEW s \in Session, Selectable(s), sessions[s].route = r
                 PROVE  /\ LookedUp(q)' /\ sessions[s].state = "active" => Left(q, s)'
                        /\ LookedTwice(q)' => Left(q, s)'
      BY <1>1, <2>3, <2>4 DEF Cleared, Selectable
    <3>1. CASE requests[q].session \in found
      <4>1. s = requests[q].session
        BY <1>3, <3>1
      <4> QED BY <2>3, <2>4, <4>1 DEF Left
    <3>2. CASE found = {} /\ requests[q].step = "active"
      <4>1. sessions[s].state # "active"
        BY <3>2 DEF Found
      <4>2. ~LookedTwice(q)'
        BY <2>1, <2>3, <2>4, <3>2 DEF LookedTwice
      <4> QED BY <4>1, <4>2
    <3>3. CASE found = {} /\ requests[q].step = "starting"
      <4>1. sessions[s].state = "active"
        BY <3>3 DEF Found, Selectable
      <4> HIDE DEF found, step, new
      <4>0. LookedUp(q)
        BY <3>3 DEF LookedUp
      <4>2. Left(q, s)
        BY <1>1, <1>2, <4>0, <4>1 DEF Cleared
      <4>3. s = requests[q].session
        BY <1>1, <4>2, SessionAssumption DEF Left
      <4> QED BY <2>3, <2>4, <4>3 DEF Left
    <3> QED BY <1>1, <1>5, <3>1, <3>2, <3>3
  <2> QED BY <1>1, <1>2, <2>1, <2>2, <2>3, <2>5, Unwritten, ResumeStep
<1> QED BY <1>4, <1>5 DEF LookUp

LEMMA TakeOverInv == ASSUME Inv, NEW q \in Request, TakeOver(q) PROVE Inv'
<1> USE DEF Inv
<1> DEFINE r == requests[q].route
           t == requests[q].other
<1>1. /\ requests[q].kind = "resume" /\ requests[q].step \in { "active", "starting" }
      /\ writes[q] = {} /\ t # Nobody /\ JobOK(q)
      /\ UNCHANGED << sessions, disputed, events >>
      /\ Reads(q, ToRetire(t))
      /\ Update(q, [ requests[q] EXCEPT !.step = AfterLookup(q), !.other = Nobody ])
  BY DEF TakeOver, Looks
<1>2. Holds(q) /\ Cleared(q)
  BY <1>1 DEF Holds, Keyed, Running, JobOK
<1>3. t \in Session /\ sessions[t].state # "none" /\ sessions[t].route \in Route
  BY <1>1 DEF JobOK, About, TypeOK, RequestJob, RowSound
<1>4. /\ writes' \in [ Actor -> SUBSET WriteOf ] /\ writes'[q] = ToRetire(t) /\ OtherWritesKeep(q)
  BY <1>1, <1>3, ToRetireType, ReadsType, Actors DEF OtherWritesKeep
<1> DEFINE step == AfterLookup(q)
           new == [ requests[q] EXCEPT !.step = step, !.other = Nobody ]
<1>5. step = IF requests[q].step = "active" THEN "starting" ELSE "write"
  BY DEF AfterLookup
<1>6. Update(q, new)
  BY <1>1
<1> HIDE DEF step
<1>7. /\ new \in RequestJob /\ new.kind = "resume" /\ new.step = step
      /\ new.route = r /\ new.session = requests[q].session /\ new.other = Nobody
  BY <1>1, <1>5 DEF TypeOK, RequestJob
<1> HIDE DEF new
<1>8. requests'[q] = new
  BY <1>6, UpdateJob
<1>9. Cleared(q)'
  <2> SUFFICES ASSUME r \notin disputed, NEW s \in Session, Selectable(s), sessions[s].route = r
               PROVE  /\ LookedUp(q)' /\ sessions[s].state = "active" => Left(q, s)'
                      /\ LookedTwice(q)' => Left(q, s)'
    BY <1>1, <1>7, <1>8 DEF Cleared, Selectable
  <2>1. s = t => Left(q, s)'
    BY <1>3, <1>4, ToRetireType DEF Left, Selectable
  <2>2. Left(q, s) => Left(q, s)'
    BY <1>1, <1>7, <1>8, <2>1 DEF Left
  <2>3. LookedUp(q) /\ (requests[q].step = "starting" => LookedTwice(q))
    BY <1>1 DEF LookedUp, LookedTwice
  <2>4. LookedTwice(q)' => LookedTwice(q)
    BY <1>1, <1>5, <1>7, <1>8, <2>3 DEF LookedTwice
  <2> QED BY <1>1, <1>2, <2>2, <2>3, <2>4 DEF Cleared
<1> QED BY <1>1, <1>2, <1>3, <1>4, <1>5, <1>6, <1>7, <1>9, ToRetireType, ResumeStep

---------------------------------------------------------------------------
(***************************************************************************)
(* The handlers that open a session while they hold the key of its route.   *)
(***************************************************************************)

\* Sessions go on: they exist, and are not started again.
Evolves ==
    \A s \in Session :
        /\ sessions[s].state # "none" => sessions'[s].state # "none"
        /\ sessions'[s].state = "starting" =>
             \/ sessions[s].state = "none"
             \/ sessions[s].state = "starting" /\ sessions'[s].route = sessions[s].route

\* What does not depend on the lookups is kept.
LEMMA EvolveStep ==
    ASSUME Inv, TypeOK', Evolves, NEW p \in Request,
           requests'[p] = requests[p], writes'[p] = writes[p]
    PROVE  Formed(p)' /\ Started(p)' /\ About(p)' /\ Writing(p)' /\ Writes(p)'
<1> USE DEF Inv
<1>1. JobOK(p) /\ Writes(p) /\ p \in Actor
  BY Actors
<1>2. Formed(p)' /\ Writing(p)'
  BY <1>1 DEF JobOK, Formed, Writing
<1>3. \A s \in Session : sessions[s].state \in { "active", "retired" } =>
                           sessions'[s].state \in { "active", "retired" }
  BY DEF Evolves, TypeOK, AgentSessionRecord
<1>4. Started(p)' /\ About(p)'
  BY <1>1, <1>3 DEF JobOK, Started, About, Formed, Evolves, TypeOK, RequestJob
<1>5. Writes(p)'
  BY <1>1 DEF Writes, Holds, Evolves, TypeOK, WriteOf
<1> QED BY <1>2, <1>4, <1>5

LEMMA OpenInv ==
    ASSUME Inv, TypeOK',
           NEW q \in Request, OthersKeep(q), OtherWritesKeep(q), writes'[q] = {},
           KeepsKey(q), Holds(q), disputed' = disputed,
           NEW x \in Session, NEW new \in AgentSessionRecord, Write(x, new), RowSound(new),
           new.state \in { "starting", "active" }, new.route = requests[q].route,
           new.state = "starting" => sessions[x].state = "none",
           requests[q].route \notin disputed =>
             \A s \in Session \ { x } : Selectable(s) => sessions[s].route # requests[q].route,
           Formed(q)', Started(q)', About(q)',
           requests'[q].step \notin { "active", "starting", "write" }
    PROVE  Inv'
<1> USE DEF Inv
<1>1. sessions'[x] = new /\ \A s \in Session \ { x } : sessions'[s] = sessions[s]
  BY DEF TypeOK, Write
<1>2. Evolves
  BY <1>1 DEF Evolves
<1>3. KeyExclusive'
  BY KeyStep
<1>4. OneSelectablePerRoute'
  BY <1>1 DEF OneSelectablePerRoute, Selectable
<1>5. \A s \in Session : RowSound(sessions'[s])
  BY <1>1
<1>6. ASSUME NEW p \in Request, p # q PROVE JobOK(p)'
  <2>1. requests'[p] = requests[p] /\ writes'[p] = writes[p] /\ JobOK(p)
    BY <1>6, Actors DEF OthersKeep, OtherWritesKeep
  <2>2. Formed(p)' /\ Started(p)' /\ About(p)' /\ Writing(p)'
    BY <1>2, <2>1, EvolveStep
  <2>3. Cleared(p)'
    <3> SUFFICES ASSUME requests[p].kind = "resume", requests[p].route \notin disputed,
                        LookedUp(p) \/ LookedTwice(p),
                        NEW s \in Session, Selectable(s)', sessions'[s].route = requests[p].route
                 PROVE  /\ LookedUp(p) /\ sessions'[s].state = "active" => Left(p, s)
                        /\ LookedTwice(p) => Left(p, s)
      BY <2>1 DEF Cleared, LookedUp, LookedTwice, Left
    <3>1. Holds(p)
      BY DEF LookedUp, LookedTwice, Holds, Keyed, Running
    <3>2. requests[p].route # requests[q].route
      BY <1>6, <3>1 DEF KeyExclusive
    <3>3. s # x /\ sessions'[s] = sessions[s] /\ Selectable(s)
      BY <1>1, <3>2 DEF Selectable
    <3> QED BY <2>1, <3>3 DEF JobOK, Cleared
  <2> QED BY <2>2, <2>3 DEF JobOK
<1>7. JobOK(q)' /\ Writes(q)'
  BY PlainJob
<1>8. ASSUME NEW a \in Actor, a # q PROVE Writes(a)'
  <2>1. writes'[a] = writes[a] /\ Writes(a) /\ (a \in Request => requests'[a] = requests[a])
    BY <1>8 DEF OthersKeep, OtherWritesKeep
  <2> QED BY <1>2, <2>1 DEF Writes, Holds, Evolves, TypeOK, WriteOf
<1> QED BY <1>3, <1>4, <1>5, <1>6, <1>7, <1>8

LEMMA NewStartingInv == ASSUME Inv, NEW q \in Request, NewStarting(q) PROVE Inv'
<1> USE DEF Inv
<1> DEFINE r == requests[q].route
<1>1. PICK x \in Session : /\ Fresh(x) /\ Write(x, NewRecord("starting", r)) /\ BecomeStart(q, x)
  BY DEF NewStarting
<1>2. /\ requests[q].kind = "command" /\ requests[q].step = "retire" /\ writes[q] = {} /\ JobOK(q)
      /\ Found(r, "active") = {} /\ Found(r, "starting") = {}
      /\ UNCHANGED << writes, disputed, events >>
  BY DEF NewStarting, Selects
<1>3. r \in Voice /\ r \in Route
  BY <1>2 DEF JobOK, Formed, Route
<1> DEFINE new == NewRecord("starting", r)
           job == [ requests[q] EXCEPT !.kind = "start", !.step = "queued", !.session = x ]
<1>4. /\ new \in AgentSessionRecord /\ new.state = "starting" /\ new.route = r
      /\ new.thread = FALSE
  BY <1>3, NewRecordType
<1>5. /\ job \in RequestJob /\ job.kind = "start" /\ job.session = x /\ job.step = "queued"
      /\ job.route = r /\ job.other = requests[q].other
  BY DEF TypeOK, RequestJob
<1>6. Update(q, job) /\ Write(x, new)
  BY <1>1 DEF BecomeStart
<1> HIDE DEF new, job
<1>7. OthersKeep(q) /\ requests' \in [ Request -> RequestJob ] /\ requests'[q] = job
  BY <1>5, <1>6, UpdateJob
<1>8. sessions'[x] = new /\ sessions' \in [ Session -> AgentSessionRecord ]
  BY <1>4, <1>6 DEF TypeOK, Write
<1>9. TypeOK'
  BY <1>2, <1>7, <1>8 DEF TypeOK
<1>10. RowSound(new)
  BY <1>3, <1>4 DEF RowSound
<1>11. Holds(q) /\ KeepsKey(q)
  BY <1>2, <1>5, <1>7 DEF Holds, KeepsKey, Keyed, Running
<1>12. Formed(q)' /\ Started(q)' /\ About(q)'
  BY <1>2, <1>4, <1>5, <1>7, <1>8 DEF JobOK, Formed, Started, About
<1>13. sessions[x].state = "none"
  BY <1>1 DEF Fresh
<1>14. \A s \in Session \ { x } : Selectable(s) => sessions[s].route # r
  BY <1>2 DEF Found, Selectable
<1> QED BY <1>2, <1>4, <1>5, <1>6, <1>7, <1>9, <1>10, <1>11, <1>12, <1>13, <1>14,
           Unwritten, OpenInv

LEMMA NewDmInv == ASSUME Inv, NEW q \in Request, NewDm(q) PROVE Inv'
<1> USE DEF Inv
<1> DEFINE r == requests[q].route
<1>1. PICK x \in Session :
        /\ Fresh(x) /\ Write(x, NewRecord("active", r))
        /\ Update(q, [ requests[q] EXCEPT !.step = "touch", !.session = x ])
  BY DEF NewDm
<1>2. /\ requests[q].kind = "dm" /\ requests[q].step = "retire" /\ writes[q] = {} /\ JobOK(q)
      /\ Found(r, "active") = {} /\ UNCHANGED << writes, disputed, events >>
  BY DEF NewDm, Selects
<1>3. r \in Dm /\ r \in Route /\ r \notin Voice
  BY <1>2, SessionAssumption DEF JobOK, Formed, Route
<1> DEFINE new == NewRecord("active", r)
           job == [ requests[q] EXCEPT !.step = "touch", !.session = x ]
<1>4. /\ new \in AgentSessionRecord /\ new.state = "active" /\ new.route = r
      /\ new.thread = FALSE
  BY <1>3, NewRecordType
<1>5. /\ job \in RequestJob /\ job.kind = "dm" /\ job.session = x /\ job.step = "touch"
      /\ job.route = r /\ job.other = requests[q].other
  BY <1>2 DEF TypeOK, RequestJob
<1>6. Update(q, job) /\ Write(x, new)
  BY <1>1
<1> HIDE DEF new, job
<1>7. OthersKeep(q) /\ requests' \in [ Request -> RequestJob ] /\ requests'[q] = job
  BY <1>5, <1>6, UpdateJob
<1>8. sessions'[x] = new /\ sessions' \in [ Session -> AgentSessionRecord ]
  BY <1>4, <1>6 DEF TypeOK, Write
<1>9. TypeOK'
  BY <1>2, <1>7, <1>8 DEF TypeOK
<1>10. RowSound(new)
  BY <1>3, <1>4 DEF RowSound
<1>11. Holds(q) /\ KeepsKey(q)
  BY <1>2, <1>5, <1>7 DEF Holds, KeepsKey, Keyed, Running
<1>12. Formed(q)' /\ Started(q)' /\ About(q)'
  BY <1>2, <1>4, <1>5, <1>7, <1>8 DEF JobOK, Formed, Started, About
<1>13. \A s \in Session \ { x } : Selectable(s) => sessions[s].route # r
  BY <1>2, <1>3 DEF Found, Selectable, RowSound
<1> QED BY <1>2, <1>4, <1>5, <1>6, <1>7, <1>9, <1>10, <1>11, <1>12, <1>13, Unwritten, OpenInv

LEMMA WriteResumeInv == ASSUME Inv, NEW q \in Request, WriteResume(q) PROVE Inv'
<1> USE DEF Inv
<1> DEFINE r == requests[q].route
           x == requests[q].session
<1>1. /\ requests[q].kind = "resume" /\ requests[q].step = "write" /\ writes[q] = {} /\ JobOK(q)
      /\ UNCHANGED << writes, disputed, events >>
  BY DEF WriteResume
<1>2. x \in Session /\ r \in Route /\ requests[q].other = Nobody /\ Holds(q)
  BY <1>1 DEF JobOK, Formed, Holds, Keyed, Running
<1>3. CASE Settle(q, "failed") /\ UNCHANGED sessions
  BY <1>1, <1>3, Unwritten, SettledStep DEF Settled, TypeOK
<1>4. CASE /\ Write(x, [ NewRecord("active", r) EXCEPT !.thread = requests[q].thread ])
           /\ \/ HandOff(q)
              \/ requests[q].task = "none" /\ Settle(q, "served")
  <2> DEFINE b   == requests[q].thread
             new == [ NewRecord("active", r) EXCEPT !.thread = b ]
  <2>1. b \in BOOLEAN
    BY DEF TypeOK, RequestJob
  <2>2. Write(x, new)
    BY <1>4
  <2> HIDE DEF b
  <2>3. new \in AgentSessionRecord /\ new.state = "active" /\ new.route = r
    BY <1>2, <2>1 DEF NewRecord, AgentSessionRecord
  <2> HIDE DEF new
  <2>4. sessions'[x] = new /\ sessions' \in [ Session -> AgentSessionRecord ]
    BY <1>2, <2>2, <2>3 DEF TypeOK, Write
  <2>5. RowSound(new)
    BY <1>2, <2>3 DEF RowSound
  <2>6. r \notin disputed =>
          \A s \in Session \ { x } : Selectable(s) => sessions[s].route # r
    <3> SUFFICES ASSUME r \notin disputed, NEW s \in Session, Selectable(s), sessions[s].route = r
                 PROVE  s = x
      OBVIOUS
    <3>1. LookedTwice(q)
      BY <1>1 DEF LookedTwice
    <3>2. Left(q, s)
      BY <1>1, <3>1 DEF JobOK, Cleared
    <3> QED BY <1>1, <1>2, <3>2, SessionAssumption DEF Left
  <2>7. /\ OthersKeep(q) /\ requests' \in [ Request -> RequestJob ]
        /\ Formed(q)' /\ Started(q)' /\ About(q)'
        /\ requests'[q].step \notin Running
    <3>1. CASE \E step \in Settled : Settle(q, step)
      <4>1. PICK step \in Settled : Settle(q, step)
        BY <3>1
      <4>2. /\ OthersKeep(q) /\ requests' \in [ Request -> RequestJob ]
            /\ requests'[q].kind = "none" /\ requests'[q].step = step
            /\ requests'[q].other = Nobody
        BY <4>1, SettleJob
      <4> QED BY <4>2 DEF Formed, Started, About, Settled, Running
    <3>2. CASE Update(q, [ requests[q] EXCEPT !.step = "waiting", !.task = "open" ])
      <4> DEFINE job == [ requests[q] EXCEPT !.step = "waiting", !.task = "open" ]
      <4>1. /\ job \in RequestJob /\ job.kind = "resume" /\ job.step = "waiting"
            /\ job.route = r /\ job.session = x /\ job.other = Nobody
        BY <1>1, <1>2 DEF TypeOK, RequestJob
      <4>2. Update(q, job)
        BY <3>2
      <4> HIDE DEF job
      <4>3. OthersKeep(q) /\ requests' \in [ Request -> RequestJob ] /\ requests'[q] = job
        BY <4>1, <4>2, UpdateJob
      <4> QED BY <1>2, <2>3, <2>4, <4>1, <4>3 DEF Formed, Started, About, Running
    <3> QED BY <1>4, <3>1, <3>2 DEF HandOff, Outcome, Settled
  <2>8. TypeOK'
    BY <1>1, <2>4, <2>7 DEF TypeOK
  <2>9. KeepsKey(q)
    BY <2>7 DEF KeepsKey, Holds
  <2> QED BY <1>1, <1>2, <2>2, <2>3, <2>5, <2>6, <2>7, <2>8, <2>9, Unwritten, OpenInv DEF Running
<1> QED BY <1>3, <1>4 DEF WriteResume

---------------------------------------------------------------------------
(***************************************************************************)
(* Rows written back, deadlines, and deliveries.                            *)
(***************************************************************************)

LEMMA WriteBackInv == ASSUME Inv, NEW a \in Actor, WriteBack(a) PROVE Inv'
<1> USE DEF Inv
<1>1. PICK w \in writes[a] :
        /\ Write(w.session, w.row) /\ Reads(a, writes[a] \ { w })
        /\ disputed' = IF PutsBack(w) THEN disputed \cup { w.row.route } ELSE disputed
  BY DEF WriteBack
<1>2. UNCHANGED << requests, events >>
  BY DEF WriteBack
<1> DEFINE x == w.session
<1>3. w \in WriteOf /\ x \in Session /\ w.row \in AgentSessionRecord
  BY <1>1 DEF TypeOK, WriteOf
<1>4. Writes(a)
  OBVIOUS
<1>5. /\ sessions[x].state # "none" /\ w.row.state \in { "active", "retired" }
      /\ w.row.route \in Route
      /\ sessions[x].state = "starting" /\ w.row.state = "active" =>
           a \in Request /\ Holds(a) /\ requests[a].route = sessions[x].route
  BY <1>1, <1>4 DEF Writes
<1>6. sessions'[x] = w.row /\ \A s \in Session \ { x } : sessions'[s] = sessions[s]
  BY <1>1, <1>3 DEF TypeOK, Write
<1>7. sessions' \in [ Session -> AgentSessionRecord ]
  BY <1>1, <1>3 DEF TypeOK, Write
<1>8. writes[a] \ { w } \in SUBSET WriteOf
  BY DEF TypeOK
<1>9. /\ writes' \in [ Actor -> SUBSET WriteOf ] /\ writes'[a] = writes[a] \ { w }
      /\ OtherWritesKeep(a)
  BY <1>1, <1>8, ReadsType DEF OtherWritesKeep
<1>10. disputed \subseteq disputed' /\ disputed' \subseteq Route
  BY <1>1, <1>5 DEF TypeOK
<1>11. TypeOK'
  BY <1>2, <1>7, <1>9, <1>10 DEF TypeOK
<1>12. KeyExclusive'
  BY <1>2 DEF KeyExclusive, Holds
<1>13. ASSUME Selectable(x)', w.row.route \notin disputed'
       PROVE  Selectable(x) /\ sessions[x].route = w.row.route /\ w.row.state = "active"
  BY <1>1, <1>3, <1>5, <1>6, <1>13 DEF PutsBack, Selectable, AgentSessionRecord
<1>14. OneSelectablePerRoute'
  <2> SUFFICES ASSUME NEW s \in Session, NEW t \in Session, Selectable(s)', Selectable(t)',
                      sessions'[s].route = sessions'[t].route,
                      sessions'[s].route \notin disputed'
               PROVE  s = t
    BY DEF OneSelectablePerRoute
  <2>1. Selectable(s) /\ sessions[s].route = sessions'[s].route
    BY <1>6, <1>13 DEF Selectable
  <2>2. Selectable(t) /\ sessions[t].route = sessions'[t].route
    BY <1>6, <1>13 DEF Selectable
  <2>3. sessions[s].route \notin disputed
    BY <1>10, <2>1
  <2> QED BY <2>1, <2>2, <2>3 DEF OneSelectablePerRoute
<1>15. \A s \in Session : RowSound(sessions'[s])
  BY <1>5, <1>6 DEF RowSound
<1>16. Evolves
  BY <1>5, <1>6 DEF Evolves
<1>17. ASSUME NEW p \in Request PROVE JobOK(p)'
  <2>0. JobOK(p) /\ writes'[p] \subseteq writes[p] /\ requests'[p] = requests[p]
    BY <1>2, <1>9, Actors DEF OtherWritesKeep
  <2>1. Formed(p)' /\ Writing(p)'
    BY <2>0 DEF JobOK, Formed, Writing
  <2>2. \A s \in Session : sessions[s].state \in { "active", "retired" } =>
                             sessions'[s].state \in { "active", "retired" }
    BY <1>5, <1>6
  <2>3. About(p)'
    BY <1>16, <2>0 DEF JobOK, Formed, About, Evolves, TypeOK, RequestJob
  <2>4. Started(p)'
    <3>1. CASE p = a /\ requests[p].step = "handoff"
      <4>1. x = requests[p].session
        BY <1>1, <2>0, <3>1 DEF JobOK, Writing
      <4> QED BY <1>5, <1>6, <2>0, <3>1, <4>1 DEF Started
    <3>2. CASE p # a /\ requests[p].step = "handoff"
      <4>1. writes'[p] = writes[p]
        BY <1>9, <3>2, Actors DEF OtherWritesKeep
      <4> QED BY <2>0, <2>2, <3>2, <4>1 DEF JobOK, Formed, Started
    <3>3. CASE requests[p].step # "handoff"
      BY <2>0, <2>2, <3>3 DEF JobOK, Formed, Started
    <3> QED BY <3>1, <3>2, <3>3
  <2>5. Cleared(p)'
    <3> SUFFICES ASSUME requests[p].kind = "resume", requests[p].route \notin disputed',
                        LookedUp(p) \/ LookedTwice(p),
                        NEW s \in Session, Selectable(s)', sessions'[s].route = requests[p].route
                 PROVE  /\ LookedUp(p) /\ sessions'[s].state = "active" => Left(p, s)'
                        /\ LookedTwice(p) => Left(p, s)'
      BY <2>0 DEF Cleared, LookedUp, LookedTwice
    <3>1. requests[p].route \notin disputed /\ Holds(p)
      BY <1>10 DEF LookedUp, LookedTwice, Holds, Keyed, Running
    <3>2. p = a => w.row.state = "retired"
      BY <1>1, <2>0, <3>1 DEF JobOK, Writing, Holds
    <3>3. CASE s = x
      <4>1. Selectable(x) /\ sessions[x].route = requests[p].route /\ w.row.state = "active"
        BY <1>6, <1>13, <3>3
      <4>2. sessions[x].state = "active"
        <5>1. CASE sessions[x].state = "starting"
          <6>1. a \in Request /\ Holds(a) /\ requests[a].route = requests[p].route
            BY <1>5, <4>1, <5>1
          <6>2. a = p
            BY <3>1, <6>1 DEF KeyExclusive
          <6> QED BY <3>2, <4>1, <6>2
        <5> QED BY <4>1, <5>1 DEF Selectable
      <4>3. p # a /\ writes'[p] = writes[p]
        BY <1>9, <3>2, <4>1, Actors DEF OtherWritesKeep
      <4>4. Left(p, x) => Left(p, x)'
        BY <2>0, <4>3 DEF Left
      <4> QED BY <2>0, <3>1, <3>3, <4>1, <4>2, <4>4 DEF JobOK, Cleared
    <3>4. CASE s # x
      <4>1. sessions'[s] = sessions[s] /\ Selectable(s)
        BY <1>6, <3>4 DEF Selectable
      <4>2. \A v \in writes[p] : v.session = s => v \in writes'[p]
        BY <1>9, <3>4, Actors DEF OtherWritesKeep
      <4>3. Left(p, s) => Left(p, s)'
        BY <2>0, <4>2 DEF Left
      <4> QED BY <2>0, <3>1, <4>1, <4>3 DEF JobOK, Cleared
    <3> QED BY <3>3, <3>4
  <2> QED BY <2>1, <2>3, <2>4, <2>5 DEF JobOK
<1>18. ASSUME NEW b \in Actor PROVE Writes(b)'
  <2>1. Writes(b) /\ writes'[b] \subseteq writes[b]
    BY <1>9 DEF OtherWritesKeep
  <2> QED BY <1>2, <1>16, <2>1 DEF Writes, Holds, Evolves, TypeOK, WriteOf
<1> QED BY <1>11, <1>12, <1>14, <1>15, <1>17, <1>18

\* A deadline or a capture ends: no row changes in its state or its route, and none
\* becomes selectable.
LEMMA OverType ==
    ASSUME NEW rec \in AgentSessionRecord, NEW late \in BOOLEAN, NEW ended \in BOOLEAN
    PROVE  /\ Over(rec, late, ended) \in AgentSessionRecord
           /\ Over(rec, late, ended).state = rec.state
           /\ Over(rec, late, ended).route = rec.route
           /\ Over(rec, late, ended).thread = rec.thread
           /\ rec.late => Over(rec, late, ended).late
BY DEF Over, AgentSessionRecord

LEMMA AgesInv ==
    ASSUME Inv, NEW x \in Session, NEW late \in BOOLEAN, NEW ended \in BOOLEAN,
           Ages(x, late, ended), UNCHANGED << requests, disputed >>, events' \in Nat
    PROVE  Inv'
<1> USE DEF Inv
<1> DEFINE aged(w) == [ w EXCEPT !.row = IF w.session = x THEN Over(@, late, ended) ELSE @ ]
<1>1. /\ sessions'[x] = Over(sessions[x], late, ended)
      /\ \A s \in Session \ { x } : sessions'[s] = sessions[s]
      /\ DOMAIN sessions' = Session /\ sessions' = [ s \in Session |-> sessions'[s] ]
      /\ \A a \in Actor : writes'[a] = { aged(w) : w \in writes[a] }
      /\ writes' = [ a \in Actor |-> writes'[a] ]
  BY DEF TypeOK, Ages, Write
<1>2. \A s \in Session : /\ sessions'[s] \in AgentSessionRecord
                         /\ sessions'[s].state = sessions[s].state
                         /\ sessions'[s].route = sessions[s].route
                         /\ sessions'[s].thread = sessions[s].thread
                         /\ Selectable(s)' => Selectable(s)
  BY <1>1, OverType DEF TypeOK, Selectable, AgentSessionRecord
<1>3. ASSUME NEW w \in WriteOf
      PROVE  /\ aged(w) \in WriteOf /\ aged(w).session = w.session /\ aged(w).was = w.was
             /\ aged(w).row.state = w.row.state /\ aged(w).row.route = w.row.route
  <2>1. w.row \in AgentSessionRecord
    BY DEF WriteOf
  <2> QED BY <2>1, OverType DEF WriteOf
<1>4. \A a \in Actor : writes[a] \subseteq WriteOf
  BY DEF TypeOK
<1> HIDE DEF aged
<1>5. \A a \in Actor : writes'[a] \subseteq WriteOf
  BY <1>1, <1>3, <1>4
<1>6. TypeOK'
  BY <1>1, <1>2, <1>5 DEF TypeOK
<1>7. KeyExclusive' /\ OneSelectablePerRoute'
  BY <1>2 DEF KeyExclusive, Holds, OneSelectablePerRoute
<1>8. \A s \in Session : RowSound(sessions'[s])
  BY <1>2 DEF RowSound
<1>9. ASSUME NEW a \in Actor
      PROVE  /\ writes[a] = {} <=> writes'[a] = {}
             /\ \A w \in writes[a] : \E v \in writes'[a] : v.session = w.session
             /\ \A v \in writes'[a] : \E w \in writes[a] :
                  /\ w.session = v.session /\ w.was = v.was
                  /\ w.row.state = v.row.state /\ w.row.route = v.row.route
  BY <1>1, <1>3, <1>4
<1>10. ASSUME NEW p \in Request PROVE JobOK(p)'
  <2>1. JobOK(p) /\ p \in Actor /\ requests'[p] = requests[p]
    BY Actors
  <2>2. Formed(p)' /\ Started(p)' /\ About(p)'
    BY <1>2, <1>9, <2>1 DEF JobOK, Formed, Started, About, TypeOK, RequestJob
  <2>3. Writing(p)'
    BY <1>9, <2>1 DEF JobOK, Writing
  <2>4. \A s \in Session : Left(p, s) => Left(p, s)'
    BY <1>9, <2>1 DEF Left
  <2>5. Cleared(p)'
    BY <1>2, <2>1, <2>4 DEF JobOK, Cleared, LookedUp, LookedTwice
  <2> QED BY <2>2, <2>3, <2>5 DEF JobOK
<1>11. ASSUME NEW a \in Actor PROVE Writes(a)'
  <2>1. Writes(a)
    OBVIOUS
  <2>2. ASSUME NEW v \in writes'[a]
        PROVE  /\ sessions'[v.session].state # "none"
               /\ v.row.state \in { "active", "retired" } /\ v.row.route \in Route
               /\ v.was = "retired" => v.row.state = "retired"
               /\ sessions'[v.session].state = "starting" /\ v.row.state = "active" =>
                    a \in Request /\ Holds(a)' /\ requests'[a].route = sessions'[v.session].route
    <3>1. PICK w \in writes[a] : /\ w.session = v.session /\ w.was = v.was
                                 /\ w.row.state = v.row.state /\ w.row.route = v.row.route
      BY <1>9
    <3>2. w.session \in Session
      BY <1>4 DEF WriteOf
    <3> QED BY <1>2, <2>1, <3>1, <3>2 DEF Writes, Holds
  <2> QED BY <2>2 DEF Writes
<1> QED BY <1>6, <1>7, <1>8, <1>10, <1>11

\* The delivery reads a row of a session that is past its start.
LEMMA DeliveryWrites ==
    ASSUME Inv, NEW s \in Session, sessions[s].state \in { "active", "retired" },
           NEW row \in AgentSessionRecord, row.state = sessions[s].state,
           row.route = sessions[s].route, Reads(Delivery, { WriteLater(s, row) }),
           UNCHANGED << sessions, requests, disputed >>, events' \in Nat
    PROVE  Inv'
<1> DEFINE w == WriteLater(s, row)
<1>1. w \in WriteOf /\ w.session = s /\ w.row = row /\ w.was = sessions[s].state
  BY WriteLaterType DEF Inv
<1>2. sessions[s].route \in Route
  BY DEF Inv, RowSound
<1>3. Reads(Delivery, { w })
  OBVIOUS
<1> HIDE DEF w
<1>4. /\ writes' \in [ Actor -> SUBSET WriteOf ] /\ writes'[Delivery] = { w }
      /\ OtherWritesKeep(Delivery)
  BY <1>1, <1>3, ReadsType, Actors DEF Inv, OtherWritesKeep
<1>5. Writes(Delivery)'
  BY <1>1, <1>2, <1>4 DEF Writes
<1> QED BY <1>4, <1>5, QuietWrites, Actors

LEMMA WorldInv == ASSUME Inv, NEW s \in Session, World(s) PROVE Inv'
<1>1. events \in Nat /\ sessions[s] \in AgentSessionRecord /\ RowSound(sessions[s])
  BY DEF Inv, TypeOK
<1>2. CASE Expire(s)
  <2>1. Ages(s, TRUE, FALSE) /\ UNCHANGED << requests, disputed >> /\ events' = events + 1
    BY <1>2 DEF Expire, Event
  <2>2. events' \in Nat
    BY <1>1, <2>1
  <2> QED BY <2>1, <2>2, AgesInv
<1>3. CASE CaptureEnds(s)
  <2>1. Ages(s, FALSE, TRUE) /\ UNCHANGED << requests, disputed >> /\ events' = events + 1
    BY <1>3 DEF CaptureEnds, Event
  <2>2. events' \in Nat
    BY <1>1, <2>1
  <2> QED BY <2>1, <2>2, AgesInv
<1>4. CASE GetThread(s)
  <2>1. /\ [ sessions[s] EXCEPT !.thread = TRUE ] \in AgentSessionRecord
        /\ [ sessions[s] EXCEPT !.thread = TRUE ].state = sessions[s].state
        /\ [ sessions[s] EXCEPT !.thread = TRUE ].route = sessions[s].route
    BY <1>1 DEF AgentSessionRecord
  <2>3. /\ Reads(Delivery, { WriteLater(s, [ sessions[s] EXCEPT !.thread = TRUE ]) })
        /\ UNCHANGED << sessions, requests, disputed >> /\ events' = events + 1
        /\ sessions[s].state \in { "active", "retired" }
    BY <1>4 DEF GetThread, Event
  <2>4. events' \in Nat
    BY <1>1, <2>3
  <2> QED BY <2>1, <2>3, <2>4, DeliveryWrites
<1>5. CASE LoseThread(s)
  <2>1. /\ [ sessions[s] EXCEPT !.thread = FALSE ] \in AgentSessionRecord
        /\ [ sessions[s] EXCEPT !.thread = FALSE ].state = sessions[s].state
        /\ [ sessions[s] EXCEPT !.thread = FALSE ].route = sessions[s].route
    BY <1>1 DEF AgentSessionRecord
  <2>2. sessions[s].state \in { "active", "retired" }
    BY <1>1, <1>5 DEF LoseThread, RowSound, AgentSessionRecord
  <2>3. /\ Reads(Delivery, { WriteLater(s, [ sessions[s] EXCEPT !.thread = FALSE ]) })
        /\ UNCHANGED << sessions, requests, disputed >> /\ events' = events + 1
        /\ sessions[s].thread
    BY <1>5 DEF LoseThread, Event
  <2>4. events' \in Nat
    BY <1>1, <2>3
  <2> QED BY <2>1, <2>2, <2>3, <2>4, DeliveryWrites
<1> QED BY <1>2, <1>3, <1>4, <1>5 DEF World

---------------------------------------------------------------------------
(***************************************************************************)
(* The invariant, and what follows from it.                                 *)
(***************************************************************************)

LEMMA NextInv == Inv /\ Next => Inv'
<1> SUFFICES ASSUME Inv, Next PROVE Inv'
  OBVIOUS
<1>1. ASSUME NEW q \in Request, Submit(q) \/ Abandon(q) \/ TaskAnswers(q) \/ TaskSettles(q)
      PROVE  Inv'
  BY <1>1, SubmitInv, AbandonInv, TaskAnswersInv, TaskSettlesInv
<1>2. ASSUME NEW q \in Request, Handler(q) PROVE Inv'
  BY <1>2, ClaimSelectionInv, UseActiveInv, JoinStartingInv, NewStartingInv, NewDmInv,
     StartInv, ThreadMessageInv, TouchInv, CreateTaskInv, SunsetInv, SunsetDoneInv,
     ClaimResumeInv, LookUpInv, TakeOverInv, WriteResumeInv DEF Handler
<1> QED BY <1>1, <1>2, WriteBackInv, RetirementPassInv, WorldInv DEF Next

LEMMA StepInv == Inv /\ [Next]_vars => Inv'
<1>1. Inv /\ UNCHANGED vars => Inv'
  BY DEF vars, Inv, TypeOK, KeyExclusive, Holds, OneSelectablePerRoute, Selectable, JobOK,
         Formed, Started, About, Writing, Cleared, LookedUp, LookedTwice, Left, Writes
<1> QED BY <1>1, NextInv

LEMMA Invariant == Spec => []Inv
BY InitInv, StepInv, PTL DEF Spec

\* Every variable has its type.
THEOREM TypeCorrect == Spec => []TypeOK
<1>1. Inv => TypeOK
  BY DEF Inv
<1> QED BY <1>1, Invariant, PTL

\* No route has two selectable sessions unless a whole row that was out of date has
\* put one back on it: agent_session_start_or_task_job, prepare_agent_session_*_job.
THEOREM OneSessionPerRoute == Spec => []OneSelectablePerRoute
<1>1. Inv => OneSelectablePerRoute
  BY DEF Inv
<1> QED BY <1>1, Invariant, PTL

\* A step changes at most one session, opening a retired one only where a resume job
\* writes it back, or a row that was read open; it opens a second session on a route
\* only where that is disputed from then on.
Revives(s) ==
    \/ \E q \in Request : /\ requests[q].kind = "resume" /\ requests[q].step = "write"
                          /\ requests[q].session = s
    \/ \E a \in Actor : \E w \in writes[a] : w.session = s /\ w.was # "retired"

OneChanges ==
    \E x \in Session :
        /\ \A s \in Session \ { x } : sessions'[s] = sessions[s]
        /\ sessions[x].state = "retired" /\ sessions'[x].state # "retired" => Revives(x)
        /\ \/ disputed' = disputed
           \/ \E r \in Route : disputed' = disputed \cup { r } /\ x \in On(r)' /\ x \notin On(r)

NothingChanges == sessions' = sessions /\ disputed' = disputed

LEMMA WriteChanges ==
    ASSUME Inv, NEW x \in Session, NEW new, Write(x, new), disputed' = disputed,
           sessions[x].state = "retired" /\ new.state # "retired" => Revives(x)
    PROVE  OneChanges
BY DEF Inv, TypeOK, Write, OneChanges

LEMMA WriteBackChanges == ASSUME Inv, NEW a \in Actor, WriteBack(a) PROVE OneChanges
<1> USE DEF Inv
<1>1. PICK w \in writes[a] :
        /\ Write(w.session, w.row)
        /\ disputed' = IF PutsBack(w) THEN disputed \cup { w.row.route } ELSE disputed
  BY DEF WriteBack
<1> DEFINE x == w.session
<1>2. w \in WriteOf /\ x \in Session /\ w.row \in AgentSessionRecord /\ w.row.route \in Route
  BY <1>1 DEF TypeOK, WriteOf, Writes
<1>3. sessions'[x] = w.row /\ \A s \in Session \ { x } : sessions'[s] = sessions[s]
  BY <1>1, <1>2 DEF TypeOK, Write
<1>4. w.row.state # "retired" => w.was # "retired"
  BY <1>1 DEF Writes
<1>5. sessions[x].state = "retired" /\ sessions'[x].state # "retired" => Revives(x)
  BY <1>1, <1>3, <1>4 DEF Revives
<1>6. PutsBack(w) => x \in On(w.row.route)' /\ x \notin On(w.row.route)
  BY <1>2, <1>3 DEF PutsBack, On, Selectable
<1> QED BY <1>1, <1>2, <1>3, <1>5, <1>6 DEF OneChanges

LEMMA StepChanges == Inv /\ [Next]_vars => OneChanges \/ NothingChanges
<1> SUFFICES ASSUME Inv, [Next]_vars PROVE OneChanges \/ NothingChanges
  OBVIOUS
<1>1. ASSUME NEW a \in Actor, WriteBack(a) PROVE OneChanges
  BY <1>1, WriteBackChanges
<1>2. ASSUME NEW q \in Request, NewStarting(q) \/ NewDm(q) PROVE OneChanges
  <2>1. PICK x \in Session, state \in { "starting", "active" } :
          Fresh(x) /\ Write(x, NewRecord(state, requests[q].route))
    BY <1>2 DEF NewStarting, NewDm
  <2>2. sessions[x].state = "none" /\ disputed' = disputed
    BY <1>2, <2>1 DEF Fresh, NewStarting, NewDm, Selects
  <2> QED BY <2>1, <2>2, WriteChanges
<1>3. ASSUME NEW q \in Request, WriteResume(q) PROVE OneChanges \/ NothingChanges
  <2> DEFINE x   == requests[q].session
             new == [ NewRecord("active", requests[q].route) EXCEPT !.thread = requests[q].thread ]
  <2>1. CASE Write(x, new)
    <3>1. x \in Session /\ Revives(x) /\ disputed' = disputed
      BY <1>3 DEF WriteResume, Inv, JobOK, Formed, Revives
    <3> HIDE DEF new
    <3> QED BY <2>1, <3>1, WriteChanges
  <2> QED BY <1>3, <2>1 DEF WriteResume, NothingChanges
<1>4. ASSUME NEW s \in Session, World(s) PROVE OneChanges \/ NothingChanges
  <2>1. CASE \E late, ended \in BOOLEAN : Ages(s, late, ended) /\ disputed' = disputed
    <3>1. PICK late, ended \in BOOLEAN : Ages(s, late, ended) /\ disputed' = disputed
      BY <2>1
    <3>2. Write(s, Over(sessions[s], late, ended))
      BY <3>1 DEF Ages
    <3>3. Over(sessions[s], late, ended).state = sessions[s].state
      BY <3>1, OverType DEF Inv, TypeOK
    <3> QED BY <3>1, <3>2, <3>3, WriteChanges
  <2> QED BY <1>4, <2>1 DEF World, Expire, CaptureEnds, GetThread, LoseThread, NothingChanges
<1>5. ASSUME NEW q \in Request, Handler(q) PROVE OneChanges \/ NothingChanges
  BY <1>2, <1>3, <1>5
     DEF Handler, NothingChanges, ClaimSelection, UseActive, JoinStarting, Selects, Start,
         ThreadMessage, Touch, CreateTask, Sunset, SunsetDone, ClaimResume, LookUp, TakeOver
<1>6. ASSUME NEW q \in Request, Submit(q) \/ Abandon(q) \/ TaskAnswers(q) \/ TaskSettles(q)
      PROVE  NothingChanges
  BY <1>6 DEF Submit, Abandon, TaskAnswers, TaskSettles, NothingChanges
<1>7. RetirementPass \/ UNCHANGED vars => NothingChanges
  BY DEF RetirementPass, vars, NothingChanges
<1> QED BY <1>1, <1>4, <1>5, <1>6, <1>7 DEF Next

\* A retired session serves again only by the write of a resume job, or of a row that
\* was open when it was read: no start job, message, task's answer or retirement pass
\* that has seen it retired brings it back (upsert_agent_session).
THEOREM RetiredStaysRetired == Spec => OnlyResumeRevives
<1>1. OneChanges \/ NothingChanges =>
        \A s \in Session :
          sessions[s].state = "retired" /\ sessions'[s].state # "retired" =>
            \/ \E q \in Request : /\ requests[q].kind = "resume" /\ requests[q].step = "write"
                                  /\ requests[q].session = s
            \/ \E a \in Actor : \E w \in writes[a] : w.session = s /\ w.was # "retired"
  BY DEF OneChanges, NothingChanges, Revives
<1> QED BY <1>1, Invariant, StepChanges, PTL DEF Spec, OnlyResumeRevives

---------------------------------------------------------------------------
(***************************************************************************)
(* The refinement.                                                          *)
(***************************************************************************)

LEMMA ServingIs ==
    ASSUME OneSelectablePerRoute, NEW r \in Route
    PROVE  /\ r \in disputed \/ On(r) = {} => Serving(r) = Nobody
           /\ r \notin disputed => \A s \in On(r) : Serving(r) = s
<1>1. r \notin disputed => \A s, t \in On(r) : s = t
  BY DEF OneSelectablePerRoute, On
<1> QED BY <1>1 DEF Serving

LEMMA ServingIsNext ==
    ASSUME OneSelectablePerRoute', NEW r \in Route
    PROVE  /\ r \in disputed' \/ On(r)' = {} => Serving(r)' = Nobody
           /\ r \notin disputed' => \A s \in On(r)' : Serving(r)' = s
<1>1. r \notin disputed' => \A s, t \in On(r)' : s = t
  BY DEF OneSelectablePerRoute, On
<1> QED BY <1>1 DEF Serving

LEMMA OnStep ==
    ASSUME NEW x \in Session, \A s \in Session \ { x } : sessions'[s] = sessions[s],
           NEW r \in Route
    PROVE  \A s \in Session \ { x } : s \in On(r)' <=> s \in On(r)
BY DEF On, Selectable

\* A step that changes session x at most, seen from each route that stays undisputed.
LEMMA RouteStep ==
    ASSUME Inv, Inv', NEW x \in Session, \A s \in Session \ { x } : sessions'[s] = sessions[s],
           disputed \subseteq disputed', NEW r \in Route
    PROVE  /\ Serving(r) = x => x \in On(r) /\ r \notin disputed
           /\ r \notin disputed' =>
                /\ x \notin On(r) /\ x \in On(r)' => Serving(r) = Nobody /\ Serving(r)' = x
                /\ x \in On(r) /\ x \notin On(r)' => Serving(r) = x /\ Serving(r)' = Nobody
                /\ (x \in On(r) <=> x \in On(r)') => Serving(r)' = Serving(r)
<1>1. OneSelectablePerRoute /\ OneSelectablePerRoute'
  BY DEF Inv
<1>2. \A s \in Session \ { x } : s \in On(r)' <=> s \in On(r)
  BY OnStep
<1>3. On(r) \subseteq Session /\ On(r)' \subseteq Session
  BY DEF On
<1>4. /\ r \in disputed \/ On(r) = {} => Serving(r) = Nobody
      /\ r \notin disputed => \A s \in On(r) : Serving(r) = s
  BY <1>1, ServingIs
<1>5. /\ r \in disputed' \/ On(r)' = {} => Serving(r)' = Nobody
      /\ r \notin disputed' => \A s \in On(r)' : Serving(r)' = s
  BY <1>1, ServingIsNext
<1>6. Serving(r) = x => x \in On(r) /\ r \notin disputed
  BY <1>3, <1>4, SessionAssumption
<1>7. ASSUME r \notin disputed'
      PROVE  /\ x \notin On(r) /\ x \in On(r)' => Serving(r) = Nobody /\ Serving(r)' = x
             /\ x \in On(r) /\ x \notin On(r)' => Serving(r) = x /\ Serving(r)' = Nobody
             /\ (x \in On(r) <=> x \in On(r)') => Serving(r)' = Serving(r)
  <2>1. \A s, t \in On(r) : s = t
    BY <1>1, <1>7 DEF OneSelectablePerRoute, On
  <2>2. \A s, t \in On(r)' : s = t
    BY <1>1, <1>7 DEF OneSelectablePerRoute, On
  <2>3. x \notin On(r) /\ x \in On(r)' => On(r) = {}
    BY <1>2, <1>3, <2>2
  <2>4. x \in On(r) /\ x \notin On(r)' => On(r)' = {}
    BY <1>2, <1>3, <2>1
  <2>5. CASE x \in On(r) <=> x \in On(r)'
    <3>1. On(r)' = On(r)
      BY <1>2, <1>3, <2>5
    <3>2. CASE On(r) = {}
      BY <1>4, <1>5, <3>1, <3>2
    <3>3. CASE On(r) # {}
      BY <1>4, <1>5, <1>7, <3>1, <3>3
    <3> QED BY <2>5, <3>2, <3>3
  <2> QED BY <1>4, <1>5, <1>7, <2>3, <2>4, <2>5
<1> QED BY <1>6, <1>7

LEMMA ServingStep ==
    Inv /\ Inv' /\ (OneChanges \/ NothingChanges)
      => [Routes!Next]_<< [ r \in Route |-> Serving(r) ], disputed >>
<1> SUFFICES ASSUME Inv, Inv', OneChanges \/ NothingChanges
             PROVE  [Routes!Next]_<< [ r \in Route |-> Serving(r) ], disputed >>
  OBVIOUS
<1> DEFINE old == [ r \in Route |-> Serving(r) ]
           new == [ r \in Route |-> Serving(r)' ]
<1>1. CASE NothingChanges
  <2>1. ASSUME NEW r \in Route PROVE Serving(r)' = Serving(r)
    <3>1. On(r)' = On(r) /\ disputed' = disputed
      BY <1>1 DEF NothingChanges, On, Selectable
    <3> QED BY <3>1 DEF Serving
  <2> QED BY <1>1, <2>1 DEF NothingChanges
<1>2. CASE OneChanges
  <2>0. PICK x \in Session :
          /\ \A s \in Session \ { x } : sessions'[s] = sessions[s]
          /\ \/ disputed' = disputed
             \/ \E r \in Route : disputed' = disputed \cup { r } /\ x \in On(r)' /\ x \notin On(r)
    BY <1>2 DEF OneChanges
  <2>1. \A r \in Route :
          /\ Serving(r) = x => x \in On(r) /\ r \notin disputed
          /\ r \notin disputed' =>
               /\ x \notin On(r) /\ x \in On(r)' => Serving(r) = Nobody /\ Serving(r)' = x
               /\ x \in On(r) /\ x \notin On(r)' => Serving(r) = x /\ Serving(r)' = Nobody
               /\ (x \in On(r) <=> x \in On(r)') => Serving(r)' = Serving(r)
    BY <2>0, RouteStep
  <2>2. \A r \in Route : /\ r \in disputed => Serving(r) = Nobody
                         /\ r \in disputed' => Serving(r)' = Nobody
    BY DEF Serving
  <2>3. \A r, t \in Route : /\ x \in On(r)' /\ x \in On(t)' => r = t
                            /\ x \in On(r) /\ x \in On(t) => r = t
    BY DEF On
  <2>4. CASE \E r \in Route : disputed' = disputed \cup { r } /\ x \in On(r)' /\ x \notin On(r)
    <3>1. PICK r \in Route : disputed' = disputed \cup { r } /\ x \in On(r)' /\ x \notin On(r)
      BY <2>4
    <3>2. ASSUME NEW q \in Route
          PROVE  Serving(q)' = IF q = r \/ Serving(q) = x THEN Nobody ELSE Serving(q)
      BY <2>1, <2>2, <2>3, <3>1
    <3>3. new = [ q \in Route |-> IF q = r \/ old[q] = x THEN Nobody ELSE old[q] ]
      BY <3>2
    <3>4. old[r] # x
      BY <2>1, <3>1
    <3>5. Routes!Return(r, x)
      BY <3>1, <3>3, <3>4 DEF Routes!Return
    <3> QED BY <3>5 DEF Routes!Next
  <2>5. CASE disputed' = disputed /\ \E r \in Route \ disputed : x \notin On(r) /\ x \in On(r)'
    <3>1. PICK r \in Route \ disputed : x \notin On(r) /\ x \in On(r)'
      BY <2>5
    <3>2. ASSUME NEW q \in Route
          PROVE  Serving(q)' = IF q = r THEN x
                               ELSE IF Serving(q) = x THEN Nobody ELSE Serving(q)
      BY <2>1, <2>2, <2>3, <2>5, <3>1
    <3>3. new = [ q \in Route |-> IF q = r THEN x ELSE IF old[q] = x THEN Nobody ELSE old[q] ]
      BY <3>2
    <3>4. old[r] = Nobody
      BY <2>1, <2>5, <3>1
    <3>5. Routes!Open(r, x)
      BY <2>5, <3>1, <3>3, <3>4 DEF Routes!Open
    <3> QED BY <3>5 DEF Routes!Next
  <2>6. CASE /\ disputed' = disputed
             /\ ~ \E r \in Route \ disputed : x \notin On(r) /\ x \in On(r)'
             /\ \E r \in Route \ disputed : x \in On(r) /\ x \notin On(r)'
    <3>1. PICK r \in Route \ disputed : x \in On(r) /\ x \notin On(r)'
      BY <2>6
    <3>2. ASSUME NEW q \in Route
          PROVE  Serving(q)' = IF q = r THEN Nobody ELSE Serving(q)
      BY <2>1, <2>2, <2>3, <2>6, <3>1
    <3>3. new = [ old EXCEPT ![r] = Nobody ]
      BY <3>2
    <3>4. Routes!Close(r)
      BY <2>6, <3>3 DEF Routes!Close
    <3> QED BY <3>4 DEF Routes!Next
  <2>7. CASE disputed' = disputed /\ \A r \in Route \ disputed : x \in On(r) <=> x \in On(r)'
    <3>1. \A r \in Route : Serving(r)' = Serving(r)
      BY <2>1, <2>2, <2>7
    <3> QED BY <2>7, <3>1
  <2> QED BY <2>0, <2>4, <2>5, <2>6, <2>7
<1> QED BY <1>1, <1>2

LEMMA InitServing == Init => Routes!Init
<1> SUFFICES ASSUME Init PROVE Routes!Init
  OBVIOUS
<1>1. \A s \in Session : ~Selectable(s)
  BY DEF Init, Selectable, NewRecord
<1>2. \A r \in Route : On(r) = {}
  BY <1>1 DEF On
<1> QED BY <1>2 DEF Init, Routes!Init, Serving

\* The sessions of a route implement what RouteContract promises: a route is served
\* by one session or by nobody, and passes from one to another only by way of nobody,
\* until a row that was out of date puts a session back on it.
THEOREM SessionsImplementRoutes == Spec => RoutesKeepContract
<1>1. Spec => Routes!Spec
  BY InitServing, Invariant, StepChanges, ServingStep, PTL DEF Spec, Routes!Spec
<1> QED BY <1>1 DEF RoutesKeepContract
=============================================================================
