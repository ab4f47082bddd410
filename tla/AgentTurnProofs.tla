---------------------------- MODULE AgentTurnProofs ----------------------------
(***************************************************************************)
(* Proofs that the variables have their types, that an answered task is not *)
(* run again and does not end failed, that a cancellation is kept, and that *)
(* what a session says is read in one place.                                *)
(*                                                                         *)
(* The argument for the task: once it has submitted a text, a Codex process *)
(* still runs for it, or has returned for the current attempt - its result  *)
(* or its error is on the row, and the typing stop of that attempt exists - *)
(* or the row is settled.  A handler that finds that never prepares another *)
(* process.  For the deliveries: whatever is sent to a thread that lives is *)
(* sent to the thread the session has.                                      *)
(***************************************************************************)
EXTENDS AgentTurn, TLAPS

-----------------------------------------------------------------------------
(* The inductive invariants. *)

\* The values the variables take; those of the copy and the history are CopyInv's.
TaskTypeOK ==
    /\ row \in Task /\ start \in [ Attempt -> Typing ] /\ stop \in [ Attempt -> Typing ]
    /\ stage \in { "idle", "prepare", "preflight", "codex", "plain", "infra" }
    /\ noticed \in BOOLEAN /\ restarts \in Nat

CoreTypeOK == TaskTypeOK /\ DeliveryTypeOK

\* The attempt that the row names has come back: its result, or its error and a
\* typing stop, are there.
Returned ==
    \/ row.outcome
    \/ row.error # "none" /\ row.attempts \in Attempt /\ stop[row.attempts] # Gone

TurnInv ==
    /\ CoreTypeOK
    /\ stage # "idle" => row.state \in { "running", "cancel_requested", "cancelled" }
    /\ stage \in { "preflight", "codex", "plain", "infra" } =>
         row.error = "none" /\ ~row.outcome /\ row.attempts \in Attempt
    /\ ~row.outcome => \A b \in Attempt : stop[b] # Gone => b <= row.attempts
    /\ Submitted => \/ stage = "idle" /\ row.state \in Terminal \cup { "cancel_requested" }
                    \/ stage = "codex"
                    \/ Returned

\* A thread that a delivery could not reach is gone, and every text on its way to,
\* or read in, a thread that lives is in the thread of the session.
DeliveryInv ==
    \A d \in Delivery :
      /\ delivery[d].create = "complete" => delivery[d].own \in Thread
      /\ delivery[d].lost \subseteq dead
      /\ delivery[d].send = "unavailable" => delivery[d].to \in dead
      /\ delivery[d].send \in { "queued", "complete" } =>
           /\ delivery[d].to \in Thread
           /\ delivery[d].to \notin dead => target = delivery[d].to

\* A task that bears a cancellation is not completed, unless by a restart.
FlagIsKept == row.cancel /\ row.state = "complete" => restarts > 0

Inv == TurnInv /\ DeliveryInv /\ AnswerSurvivesFailure /\ FlagIsKept

\* A cancellation that counts is on the row, and a worker in preflight holds a copy of
\* a row that none had reached, of the same attempt.
CopyInv ==
    /\ copy \in Task /\ cancelled \in BOOLEAN
    /\ cancelled => row.cancel
    /\ stage = "preflight" =>
         /\ ~cancelled /\ ~copy.cancel /\ copy.state = "running"
         /\ copy.error = "none" /\ ~copy.outcome /\ copy.attempts = row.attempts

-----------------------------------------------------------------------------
(* The records the actions write. *)

\* A row in another state.
LEMMA StateRow ==
    ASSUME NEW r \in Task, NEW s \in JobState
    PROVE  /\ [ r EXCEPT !.state = s ] \in Task /\ [ r EXCEPT !.state = s ].state = s
           /\ [ r EXCEPT !.state = s ].error = r.error /\ [ r EXCEPT !.state = s ].cancel = r.cancel
           /\ [ r EXCEPT !.state = s ].attempts = r.attempts
           /\ [ r EXCEPT !.state = s ].outcome = r.outcome
BY DEF Task

\* What the handler works on is a row, and differs from the stored one in its error.
LEMMA ReadRow ==
    ASSUME row \in Task
    PROVE  /\ Read \in Task /\ Read.state = row.state /\ Read.attempts = row.attempts
           /\ Read.outcome = row.outcome /\ Read.cancel = row.cancel
           /\ Read.error # "none" => Read = row
           /\ Read.error \in { row.error, "none" }
BY DEF Read, Task

\* A row that is put to wait, or stays settled.
LEMMA WaitRow ==
    ASSUME NEW r \in Task, WaitAs(r)
    PROVE  /\ row' \in Task /\ row'.error = r.error /\ row'.attempts = r.attempts
           /\ row'.outcome = r.outcome /\ row'.cancel = r.cancel
           /\ row'.state = IF r.state \in Terminal THEN r.state ELSE "waiting"
<1>1. "waiting" \in JobState
  BY DEF JobState
<1> QED BY <1>1, StateRow DEF WaitAs

\* The states a handler writes are states of a job.
LEMMA States ==
    /\ { "running", "queued", "waiting", "complete", "failed", "cancelled", "cancel_requested" }
         \subseteq JobState
    /\ Terminal \subseteq JobState /\ { "complete", "failed", "cancelled" } \subseteq Terminal
    /\ \A s \in { "running", "queued", "waiting", "cancel_requested" } : s \notin Terminal
BY DEF JobState, Terminal

\* The typing whose stop was asked for last is that of one attempt.
LEMMA LastIsOne ==
    ASSUME CoreTypeOK, TurnAssumption, NEW a \in LastStop
    PROVE  /\ a \in Attempt /\ stop[a] # Gone /\ (CHOOSE b \in LastStop : TRUE) = a
           /\ a + 1 \in 0 .. Tries
<1>1. \A b \in LastStop : b = a
  BY DEF LastStop, Attempt
<1>2. (CHOOSE b \in LastStop : TRUE) \in LastStop
  OBVIOUS
<1> QED BY <1>1, <1>2, TurnAssumption DEF LastStop, Attempt

\* Once an attempt has returned the handler finds its result or its error.
LEMMA ReturnedIsSeen ==
    ASSUME CoreTypeOK, Returned, ~row.outcome => \A b \in Attempt : stop[b] # Gone => b <= row.attempts
    PROVE  HasOutcome
<1>1. CASE row.outcome
  BY <1>1, ReadRow DEF HasOutcome, CoreTypeOK, TaskTypeOK
<1>2. CASE ~row.outcome
  <2>1. row.error # "none" /\ row.attempts \in Attempt /\ stop[row.attempts] # Gone
    BY <1>2 DEF Returned
  <2>2. \A a \in LastStop : row.attempts <= a
    BY <2>1 DEF LastStop
  <2>3. ~ErrorIsOld
    <3>1. \A a \in LastStop : a \in Nat
      BY DEF LastStop, Attempt
    <3>2. row.attempts \in Nat
      BY <2>1 DEF Attempt
    <3> QED BY <2>2, <3>1, <3>2 DEF ErrorIsOld
  <2> QED BY <2>1, <2>3 DEF Read, HasOutcome
<1> QED BY <1>1, <1>2

-----------------------------------------------------------------------------
(* Every step keeps the types. *)

\* What is created and sent for a delivery.
LEMMA DeliveryRecords ==
    ASSUME DeliveryTypeOK, DeliveryAssumption, NEW d \in Delivery
    PROVE  /\ delivery[d] \in DeliveryJob /\ Blank \in DeliveryJob
           /\ Unreached(d) \subseteq Thread \cup { NoThread }
           /\ Repaired(d) \in Thread \cup { NoThread }
<1>1. delivery[d] \in DeliveryJob
  BY DEF DeliveryTypeOK
<1>2. Blank \in DeliveryJob
  BY DEF Blank, DeliveryJob, ChildState
<1>3. Unreached(d) \subseteq Thread \cup { NoThread }
  BY <1>1 DEF Unreached, DeliveryJob
<1>4. Repaired(d) \in Thread \cup { NoThread }
  BY DEF Repaired, DeliveryTypeOK
<1> QED BY <1>1, <1>2, <1>3, <1>4

\* One that is sent, and one that asks for a thread.
LEMMA SentRecord ==
    ASSUME NEW r \in DeliveryJob, NEW lost \in SUBSET Thread, NEW t \in Thread
    PROVE  [ r EXCEPT !.state = "waiting", !.send = "queued", !.to = t, !.lost = lost ]
             \in DeliveryJob
<1> DEFINE one == [ r EXCEPT !.state = "waiting", !.send = "queued" ]
<1>1. one \in DeliveryJob
  BY DEF DeliveryJob, ChildState
<1>2. [ r EXCEPT !.state = "waiting", !.send = "queued", !.to = t, !.lost = lost ]
        = [ one EXCEPT !.to = t, !.lost = lost ]
  BY DEF DeliveryJob
<1> HIDE DEF one
<1> QED BY <1>1, <1>2 DEF DeliveryJob

-----------------------------------------------------------------------------
(* The deliveries keep their types and their invariant. *)

Posted == DeliveryTypeOK /\ DeliveryInv

\* What is known of one delivery when the target is t.
Sound(r, t) ==
    /\ r.create = "complete" => r.own \in Thread
    /\ r.lost \subseteq dead
    /\ r.send = "unavailable" => r.to \in dead
    /\ r.send \in { "queued", "complete" } => r.to \in Thread /\ (r.to \notin dead => t = r.to)

\* A delivery that is written keeps the invariant, if it is sound, and if the
\* session changes its thread only when it has none or a lost one.
LEMMA UpdateKeeps ==
    ASSUME Posted, NEW d \in Delivery, NEW r \in DeliveryJob, Update(d, r), dead' = dead,
           made \subseteq made', made' \subseteq Thread, target' \in Thread \cup { NoThread },
           target' = target \/ target \in dead \cup { NoThread },
           Sound(r, target'), DeliveryAssumption
    PROVE  Posted'
<1>1. /\ delivery' = [ delivery EXCEPT ![d] = r ] /\ delivery \in [ Delivery -> DeliveryJob ]
      /\ dead \subseteq made
  BY DEF Update, Posted, DeliveryTypeOK
<1>2. DeliveryTypeOK'
  BY <1>1 DEF DeliveryTypeOK
<1>3. ASSUME NEW e \in Delivery \ { d } PROVE delivery'[e] = delivery[e] /\ Sound(delivery[e], target')
  <2>1. delivery'[e] = delivery[e]
    BY <1>1
  <2>2. Sound(delivery[e], target)
    BY DEF Posted, DeliveryInv, Sound
  <2>3. NoThread \notin Thread
    BY DEF DeliveryAssumption
  <2> QED BY <2>1, <2>2, <2>3 DEF Sound
<1>4. delivery'[d] = r
  BY <1>1
<1>5. \A e \in Delivery : Sound(delivery'[e], target')
  BY <1>3, <1>4
<1>6. DeliveryInv'
  BY <1>5 DEF DeliveryInv, Sound
<1> QED BY <1>2, <1>6 DEF Posted

\* A step that writes no delivery keeps the invariant, if the session only forgets a
\* lost thread, or Discord loses one.
LEMMA TargetKeeps ==
    ASSUME Posted, delivery' = delivery, made' = made,
           dead \subseteq dead', dead' \subseteq made,
           target' = target \/ (target' = NoThread /\ target \in dead),
           DeliveryAssumption
    PROVE  Posted'
<1>1. DeliveryTypeOK'
  BY DEF Posted, DeliveryTypeOK
<1>2. NoThread \notin Thread
  BY DEF DeliveryAssumption
<1>3. DeliveryInv'
  BY <1>2 DEF Posted, DeliveryInv
<1> QED BY <1>1, <1>3 DEF Posted

\* What a delivery could not reach is lost, and so is a thread it makes the session
\* forget.
LEMMA UnreachedIsLost ==
    ASSUME Posted, NEW d \in Delivery, DeliveryAssumption
    PROVE  /\ Unreached(d) \subseteq dead /\ Unreached(d) \in SUBSET Thread
           /\ Repaired(d) \in Thread \cup { NoThread }
           /\ Repaired(d) = target \/ (Repaired(d) = NoThread /\ target \in dead)
<1>1. Unreached(d) \subseteq dead
  BY DEF Posted, DeliveryInv, Unreached
<1>2. dead \subseteq Thread
  BY DEF Posted, DeliveryTypeOK
<1> QED BY <1>1, <1>2 DEF Repaired, Posted, DeliveryTypeOK

\* A new delivery has sent nothing.
LEMMA BlankIsSound == \A t : Sound(Blank, t)
BY DEF Sound, Blank, Gone

LEMMA SubmitKeeps ==
    ASSUME Posted, NEW d \in Delivery, Submit(d), target' = target, made' = made, dead' = dead,
           DeliveryAssumption
    PROVE  Posted'
<1> DEFINE r == [ Blank EXCEPT !.state = "queued" ]
<1>1. r \in DeliveryJob /\ Sound(r, target')
  BY DEF Blank, DeliveryJob, ChildState, Sound, Gone
<1>2. Update(d, r)
  BY DEF Submit
<1>3. made' \subseteq Thread /\ target' \in Thread \cup { NoThread }
  BY DEF Posted, DeliveryTypeOK
<1> HIDE DEF r
<1> QED BY <1>1, <1>2, <1>3, UpdateKeeps

\* A delivery that goes on is the same but for its state.
LEMMA ResumeKeeps ==
    ASSUME Posted, NEW d \in Delivery, ResumeDelivery(d), DeliveryAssumption
    PROVE  Posted'
<1> DEFINE r == [ delivery[d] EXCEPT !.state = "queued" ]
<1>1. delivery[d] \in DeliveryJob /\ Sound(delivery[d], target)
  BY DEF Posted, DeliveryTypeOK, DeliveryInv, Sound
<1>2. r \in DeliveryJob /\ Sound(r, target)
  BY <1>1 DEF DeliveryJob, Sound
<1>3. /\ Update(d, r) /\ target' = target /\ made' = made /\ dead' = dead
      /\ made \subseteq Thread /\ target \in Thread \cup { NoThread }
  BY DEF ResumeDelivery, Posted, DeliveryTypeOK
<1> HIDE DEF r
<1> QED BY <1>2, <1>3, UpdateKeeps

\* A thread that is created is a thread.
LEMMA CreateKeeps ==
    ASSUME Posted, NEW d \in Delivery, CreateSettles(d), DeliveryAssumption
    PROVE  Posted'
<1>1. /\ delivery[d] \in DeliveryJob /\ Sound(delivery[d], target)
      /\ made \subseteq Thread /\ target \in Thread \cup { NoThread }
      /\ target' = target /\ dead' = dead
  BY DEF Posted, DeliveryTypeOK, DeliveryInv, Sound, CreateSettles
<1>2. CASE Update(d, [ delivery[d] EXCEPT !.create = "failed" ]) /\ made' = made
  <2> DEFINE r == [ delivery[d] EXCEPT !.create = "failed" ]
  <2>1. r \in DeliveryJob /\ Sound(r, target)
    BY <1>1 DEF DeliveryJob, ChildState, Sound
  <2> HIDE DEF r
  <2> QED BY <1>1, <1>2, <2>1, UpdateKeeps DEF r
<1>3. CASE ~(Fresh \subseteq made)
  <2> DEFINE t == CHOOSE f \in Fresh : f \notin made
             r == [ delivery[d] EXCEPT !.create = "complete", !.own = t ]
  <2>1. t \in Thread
    BY <1>3 DEF Thread
  <2>2. CASE Update(d, r) /\ made' = made \cup { t }
    <3> HIDE DEF t
    <3>1. r \in DeliveryJob /\ Sound(r, target)
      BY <1>1, <2>1 DEF DeliveryJob, ChildState, Sound
    <3> HIDE DEF r
    <3> QED BY <1>1, <2>1, <2>2, <3>1, UpdateKeeps
  <2> QED BY <1>2, <2>2 DEF CreateSettles
<1> QED BY <1>2, <1>3 DEF CreateSettles

\* A text that is posted is in the thread it was sent to.
LEMMA SendKeeps ==
    ASSUME Posted, NEW d \in Delivery, SendSettles(d), DeliveryAssumption
    PROVE  Posted'
<1>1. /\ delivery[d] \in DeliveryJob /\ Sound(delivery[d], target)
      /\ made \subseteq Thread /\ target \in Thread \cup { NoThread }
      /\ target' = target /\ dead' = dead /\ made' = made
  BY DEF Posted, DeliveryTypeOK, DeliveryInv, Sound, SendSettles
<1>2. PICK s \in { IF delivery[d].to \in dead THEN "unavailable" ELSE "complete", "failed" } :
        Update(d, [ delivery[d] EXCEPT !.send = s ])
  BY DEF SendSettles
<1> DEFINE r == [ delivery[d] EXCEPT !.send = s ]
<1>3. delivery[d].send = "queued"
  BY DEF SendSettles
<1>4. r \in DeliveryJob
  BY <1>1 DEF DeliveryJob, ChildState
<1>5. Sound(r, target)
  BY <1>1, <1>3 DEF DeliveryJob, Sound
<1> HIDE DEF r
<1> QED BY <1>1, <1>2, <1>4, <1>5, UpdateKeeps DEF r

\* A settled delivery is read where its last text went.
LEMMA SettleKeeps ==
    ASSUME Posted, NEW d \in Delivery, NEW s \in { "failed", "complete" }, Settle(d, s),
           s = "complete" => delivery[d].send = "complete",
           target' = Repaired(d), made' = made, dead' = dead, DeliveryAssumption
    PROVE  Posted'
<1>1. delivery[d] \in DeliveryJob /\ Sound(delivery[d], target) /\ made \subseteq Thread
  BY DEF Posted, DeliveryTypeOK, DeliveryInv, Sound
<1>2. /\ Repaired(d) \in Thread \cup { NoThread }
      /\ Repaired(d) = target \/ (Repaired(d) = NoThread /\ target \in dead)
  BY UnreachedIsLost
<1>3. CASE s = "failed"
  <2> DEFINE r == [ Blank EXCEPT !.state = s ]
  <2>1. r \in DeliveryJob /\ Sound(r, target')
    BY <1>3 DEF Blank, DeliveryJob, ChildState, Sound, Gone
  <2>2. Update(d, r)
    BY <1>3 DEF Settle
  <2> HIDE DEF r
  <2> QED BY <1>1, <1>2, <2>1, <2>2, UpdateKeeps
<1>4. CASE s = "complete"
  <2> DEFINE to == delivery[d].to
             r  == [ Blank EXCEPT !.state = s, !.send = "complete", !.to = to ]
  <2>1. to \in Thread /\ (to \notin dead => target = to)
    BY <1>1, <1>4 DEF Sound
  <2>2. to \notin dead => target' = to
    BY <1>2, <2>1
  <2>3. Update(d, r)
    BY <1>4 DEF Settle
  <2> HIDE DEF to
  <2>4. r \in DeliveryJob /\ Sound(r, target')
    BY <1>4, <2>1, <2>2 DEF Blank, DeliveryJob, ChildState, Sound, Gone
  <2> HIDE DEF r
  <2> QED BY <1>1, <1>2, <2>3, <2>4, UpdateKeeps
<1> QED BY <1>3, <1>4

\* A delivery sends to the thread that the session has from then on.
LEMMA SendToKeeps ==
    ASSUME Posted, NEW d \in Delivery, SendTo(d, target'), target' \in Thread,
           target' = target \/ target \in dead \cup { NoThread },
           made' = made, dead' = dead, DeliveryAssumption
    PROVE  Posted'
<1> DEFINE lost == Unreached(d)
<1>1. PICK t \in Thread : t = target'
  OBVIOUS
<1> DEFINE r == [ delivery[d] EXCEPT !.state = "waiting", !.send = "queued", !.to = t,
                                     !.lost = lost ]
<1>2. lost \in SUBSET Thread /\ lost \subseteq dead
  BY UnreachedIsLost
<1>3. delivery[d] \in DeliveryJob /\ Sound(delivery[d], target) /\ made \subseteq Thread
  BY DEF Posted, DeliveryTypeOK, DeliveryInv, Sound
<1>4. Update(d, r)
  BY <1>1 DEF SendTo
<1> HIDE DEF lost
<1>5. r \in DeliveryJob
  BY <1>2, <1>3, SentRecord
<1>6. Sound(r, target')
  BY <1>1, <1>2, <1>3 DEF DeliveryJob, Sound
<1> HIDE DEF r
<1> QED BY <1>3, <1>4, <1>5, <1>6, UpdateKeeps

\* A delivery that asks for a thread has sent nothing that could be read.
LEMMA AskKeeps ==
    ASSUME Posted, NEW d \in Delivery, AskForThread(d), DeliveryAssumption
    PROVE  Posted'
<1> DEFINE lost == Unreached(d)
           one  == [ delivery[d] EXCEPT !.state = "waiting", !.create = "queued" ]
           r    == [ one EXCEPT !.lost = lost, !.send = Gone ]
<1>1. /\ lost \in SUBSET Thread /\ lost \subseteq dead
      /\ Repaired(d) = target \/ (Repaired(d) = NoThread /\ target \in dead)
  BY UnreachedIsLost
<1>2. /\ delivery[d] \in DeliveryJob /\ Sound(delivery[d], target) /\ made \subseteq Thread
      /\ target' = NoThread /\ target \in dead \cup { NoThread } /\ made' = made /\ dead' = dead
  BY <1>1 DEF Posted, DeliveryTypeOK, DeliveryInv, Sound, AskForThread
<1>3. one \in DeliveryJob
  BY <1>2 DEF DeliveryJob, ChildState
<1>4. Update(d, r)
  BY <1>2 DEF AskForThread, DeliveryJob
<1> HIDE DEF lost
<1>5. r.create = "queued" /\ r.lost = lost /\ r.send = Gone /\ r \in DeliveryJob
  BY <1>1, <1>2, <1>3 DEF DeliveryJob, ChildState
<1> HIDE DEF r
<1>6. Sound(r, target')
  BY <1>1, <1>5 DEF Sound, Gone
<1> QED BY <1>2, <1>4, <1>5, <1>6, UpdateKeeps

\* Every step of a delivery keeps the invariant, and submits nothing.
LEMMA TurnOfDelivery ==
    ASSUME Posted, NEW d \in Delivery, DeliveryTurn(d), DeliveryAssumption
    PROVE  Posted' /\ (Answered' => Answered)
<1>0. /\ delivery[d] \in DeliveryJob /\ delivery \in [ Delivery -> DeliveryJob ]
      /\ NoThread \notin Thread
  BY DEF Posted, DeliveryTypeOK, DeliveryAssumption
<1>1. Posted'
  <2>1. CASE DependencyFailed(d)
    BY <2>1, SettleKeeps DEF DependencyFailed
  <2>2. CASE Delivered(d)
    BY <2>2, SettleKeeps DEF Delivered
  <2>3. CASE SendToSession(d)
    <3>1. /\ target' \in Thread /\ target' = target /\ SendTo(d, target')
          /\ made' = made /\ dead' = dead
      BY <2>3, UnreachedIsLost DEF SendToSession
    <3> QED BY <3>1, SendToKeeps
  <2>4. CASE SendToCreated(d)
    <3>1. /\ target' = delivery[d].own /\ SendTo(d, target')
          /\ made' = made /\ dead' = dead /\ Repaired(d) = NoThread
      BY <2>4 DEF SendToCreated
    <3>2. target' \in Thread
      BY <2>4, <3>1 DEF SendToCreated, Posted, DeliveryInv
    <3>3. target \in dead \cup { NoThread }
      BY <3>1, UnreachedIsLost
    <3> QED BY <3>1, <3>2, <3>3, SendToKeeps
  <2>5. CASE AskForThread(d)
    BY <2>5, AskKeeps
  <2>6. CASE ResumeDelivery(d)
    BY <2>6, ResumeKeeps
  <2>7. CASE CreateSettles(d)
    BY <2>7, CreateKeeps
  <2>8. CASE SendSettles(d)
    BY <2>8, SendKeeps
  <2> QED BY <2>1, <2>2, <2>3, <2>4, <2>5, <2>6, <2>7, <2>8
          DEF DeliveryTurn, HandleDelivery, ChildStep
<1>2. ASSUME NEW e \in Delivery \ { d } PROVE delivery'[e] = delivery[e]
  <2>1. CASE DependencyFailed(d) \/ Delivered(d)
    BY <1>0, <2>1 DEF DependencyFailed, Delivered, Settle, Update
  <2>2. CASE SendToSession(d) \/ SendToCreated(d) \/ AskForThread(d)
    BY <1>0, <2>2 DEF SendToSession, SendToCreated, AskForThread, SendTo, Update
  <2>3. CASE ResumeDelivery(d) \/ CreateSettles(d) \/ SendSettles(d)
    BY <1>0, <2>3 DEF ResumeDelivery, CreateSettles, SendSettles, Update
  <2> QED BY <2>1, <2>2, <2>3 DEF DeliveryTurn, HandleDelivery, ChildStep
<1>3. ASSUME delivery[d].state = Gone PROVE delivery'[d].state = Gone
  <2>1. CreateSettles(d) \/ SendSettles(d)
    BY <1>3 DEF DeliveryTurn, HandleDelivery, ChildStep, DependencyFailed, Delivered,
           SendToSession, SendToCreated, AskForThread, ResumeDelivery, Prepares, NeedsTarget, Gone
  <2>2. CASE SendSettles(d)
    BY <1>0, <1>3, <2>2 DEF SendSettles, Update, DeliveryJob
  <2>3. CASE CreateSettles(d)
    <3>1. CASE Update(d, [ delivery[d] EXCEPT !.create = "failed" ])
      BY <1>0, <1>3, <3>1 DEF Update, DeliveryJob
    <3>2. ASSUME NEW t, Update(d, [ delivery[d] EXCEPT !.create = "complete", !.own = t ])
          PROVE  delivery'[d].state = Gone
      BY <1>0, <1>3, <3>2 DEF Update, DeliveryJob
    <3> QED BY <2>3, <3>1, <3>2 DEF CreateSettles
  <2> QED BY <2>1, <2>2, <2>3
<1>4. Answered' => Answered
  BY <1>2, <1>3 DEF Answered
<1> QED BY <1>1, <1>4

-----------------------------------------------------------------------------
(* Every step of the task keeps the invariant. *)

Assumptions == TurnAssumption /\ DeliveryAssumption

\* What is submitted depends on the deliveries and the notice alone.
LEMMA SubmittedStays ==
    ASSUME delivery' = delivery, noticed' = noticed PROVE Submitted' = Submitted
BY DEF Submitted, Answered

\* A step of the task that writes no delivery keeps what was posted.
LEMMA PostedStays ==
    ASSUME Posted, UNCHANGED deliveryVars PROVE Posted'
BY DEF Posted, DeliveryTypeOK, DeliveryInv, deliveryVars

\* A step that leaves the handler, or starts it, and writes a row with the same
\* result: nothing is submitted, and the row is put where it may be.
LEMMA RowStep ==
    ASSUME Inv, NEW r \in Task, row' = r,
           r.error = row.error, r.attempts = row.attempts, r.outcome = row.outcome,
           start' \in [ Attempt -> Typing ], stop' \in [ Attempt -> Typing ],
           \A a \in Attempt : stop'[a] = Gone <=> stop[a] = Gone,
           stage' \in { "idle", "prepare" }, noticed' = noticed, restarts' \in Nat,
           Posted', delivery' = delivery,
           stage' # "idle" => r.state \in { "running", "cancel_requested", "cancelled" },
           Submitted => (stage' = "idle" /\ r.state \in Terminal \cup { "cancel_requested" }) \/ Returned,
           AnswerSurvivesFailure', FlagIsKept'
    PROVE  Inv'
<1>1. TaskTypeOK'
  BY DEF Inv, TurnInv, CoreTypeOK, TaskTypeOK
<1>2. CoreTypeOK'
  BY <1>1 DEF Posted, CoreTypeOK
<1>3. Submitted' = Submitted
  BY SubmittedStays
<1>4. Returned => Returned'
  BY DEF Returned
<1>5. TurnInv'
  BY <1>2, <1>3, <1>4 DEF Inv, TurnInv
<1> QED BY <1>5 DEF Inv, Posted

\* What the invariant says of the types and the deliveries.
LEMMA InvParts == Inv => CoreTypeOK /\ TaskTypeOK /\ Posted /\ TurnInv
BY DEF Inv, TurnInv, Posted, CoreTypeOK

LEMMA ClaimKeeps == ASSUME Inv, Claim PROVE Inv'
<1> DEFINE r == [ row EXCEPT !.state = "running" ]
<1>1. /\ r \in Task /\ r.state = "running" /\ r.error = row.error /\ r.attempts = row.attempts
      /\ r.outcome = row.outcome /\ row' = r
  BY InvParts, StateRow, States DEF Claim, TaskTypeOK
<1> HIDE DEF r
<1>2. /\ stage' = "prepare" /\ start' = start /\ stop' = stop /\ noticed' = noticed
      /\ restarts' = restarts /\ UNCHANGED deliveryVars /\ row.state = "queued" /\ stage = "idle"
  BY DEF Claim
<1>3. Posted' /\ delivery' = delivery
  BY <1>2, InvParts, PostedStays DEF deliveryVars
<1>4. Submitted => Returned
  BY <1>2 DEF Inv, TurnInv, Terminal
<1>5. AnswerSurvivesFailure' /\ FlagIsKept'
  BY <1>1 DEF AnswerSurvivesFailure, FlagIsKept
<1> QED BY <1>1, <1>2, <1>3, <1>4, <1>5, RowStep, InvParts DEF TaskTypeOK

LEMMA ResumeTaskKeeps == ASSUME Inv, Resume PROVE Inv'
<1> DEFINE r == [ row EXCEPT !.state = "queued" ]
<1>1. /\ r \in Task /\ r.state = "queued" /\ r.error = row.error /\ r.attempts = row.attempts
      /\ r.outcome = row.outcome /\ row' = r
  BY InvParts, StateRow, States DEF Resume, TaskTypeOK
<1> HIDE DEF r
<1>2. /\ stage' = "idle" /\ start' = start /\ stop' = stop /\ noticed' = noticed
      /\ restarts' = restarts /\ UNCHANGED deliveryVars /\ row.state = "waiting" /\ stage = "idle"
  BY DEF Resume
<1>3. Posted' /\ delivery' = delivery
  BY <1>2, InvParts, PostedStays DEF deliveryVars
<1>4. Submitted => Returned
  BY <1>2 DEF Inv, TurnInv, Terminal
<1>5. AnswerSurvivesFailure' /\ FlagIsKept'
  BY <1>1 DEF AnswerSurvivesFailure, FlagIsKept
<1> QED BY <1>1, <1>2, <1>3, <1>4, <1>5, RowStep, InvParts DEF TaskTypeOK

\* Typing that settles, or is cancelled, changes nothing else.
LEMMA TypingKeeps ==
    ASSUME Inv, row' = row, stage' = stage, noticed' = noticed, restarts' = restarts,
           start' \in [ Attempt -> Typing ], stop' \in [ Attempt -> Typing ],
           \A a \in Attempt : stop'[a] = Gone <=> stop[a] = Gone,
           \A a \in Attempt : /\ start[a] \in { "failed", "cancelled" } => start'[a] = start[a]
                              /\ stop[a] \in { "failed", "cancelled" } => stop'[a] = stop[a],
           Posted', delivery' = delivery
    PROVE  Inv'
<1>1. TaskTypeOK'
  BY InvParts DEF TaskTypeOK
<1>2. CoreTypeOK'
  BY <1>1 DEF Posted, CoreTypeOK
<1>3. Submitted' = Submitted /\ (Returned => Returned')
  BY SubmittedStays DEF Returned
<1>4. TurnInv'
  BY <1>2, <1>3 DEF Inv, TurnInv
<1>5. AnswerSurvivesFailure' /\ FlagIsKept'
  BY <1>3 DEF Inv, AnswerSurvivesFailure, FlagIsKept
<1> QED BY <1>4, <1>5 DEF Inv, Posted

LEMMA StartSettlesKeeps ==
    ASSUME Inv, Assumptions, NEW a \in Attempt, StartSettles(a) PROVE Inv'
<1>1. start \in [ Attempt -> Typing ] /\ stop \in [ Attempt -> Typing ] /\ start[a] = "queued"
  BY InvParts DEF TaskTypeOK, StartSettles
<1>2. PICK s \in Typing : start' = [ start EXCEPT ![a] = s ]
  BY DEF StartSettles, Typing
<1>3. /\ row' = row /\ stop' = stop /\ stage' = stage /\ noticed' = noticed
      /\ restarts' = restarts /\ delivery' = delivery /\ made' = made /\ dead' = dead
      /\ target' = target \/ (target' = NoThread /\ target \in dead)
  BY DEF StartSettles
<1>4. Posted'
  <2>1. dead' \subseteq made /\ dead \subseteq dead'
    BY <1>3, InvParts DEF Posted, DeliveryTypeOK
  <2> QED BY <1>3, <2>1, TargetKeeps, InvParts DEF Assumptions
<1>5. /\ start' \in [ Attempt -> Typing ]
      /\ \A b \in Attempt : start[b] \in { "failed", "cancelled" } => start'[b] = start[b]
  BY <1>1, <1>2
<1> QED BY <1>1, <1>3, <1>4, <1>5, TypingKeeps

LEMMA StopSettlesKeeps ==
    ASSUME Inv, NEW a \in Attempt, StopSettles(a) PROVE Inv'
<1>1. start \in [ Attempt -> Typing ] /\ stop \in [ Attempt -> Typing ] /\ stop[a] = "queued"
  BY InvParts DEF TaskTypeOK, StopSettles
<1>2. PICK s \in { "complete", "failed" } : stop' = [ stop EXCEPT ![a] = s ]
  BY DEF StopSettles
<1>3. /\ row' = row /\ start' = start /\ stage' = stage /\ noticed' = noticed
      /\ restarts' = restarts /\ UNCHANGED deliveryVars
  BY DEF StopSettles
<1>4. Posted' /\ delivery' = delivery
  BY <1>3, InvParts, PostedStays DEF deliveryVars
<1>5. /\ stop' \in [ Attempt -> Typing ]
      /\ \A b \in Attempt : stop'[b] = Gone <=> stop[b] = Gone
      /\ \A b \in Attempt : stop[b] \in { "failed", "cancelled" } => stop'[b] = stop[b]
  BY <1>1, <1>2 DEF Typing, Gone
<1> QED BY <1>1, <1>3, <1>4, <1>5, TypingKeeps

\* A handler that leaves: its row may still hold the result of the attempt.
LEMMA LeaveKeeps ==
    ASSUME Inv, row' \in Task, stage' = "idle",
           start' \in [ Attempt -> Typing ], stop' \in [ Attempt -> Typing ],
           noticed' \in BOOLEAN, restarts' \in Nat, Posted',
           ~row'.outcome => \A b \in Attempt : stop'[b] # Gone => b <= row'.attempts,
           Submitted' => row'.state \in Terminal \cup { "cancel_requested" } \/ Returned',
           AnswerSurvivesFailure', FlagIsKept'
    PROVE  Inv'
<1>1. TaskTypeOK'
  BY InvParts DEF TaskTypeOK
<1>2. CoreTypeOK'
  BY <1>1 DEF Posted, CoreTypeOK
<1>3. TurnInv'
  BY <1>2 DEF TurnInv
<1> QED BY <1>3 DEF Inv, Posted

\* What a handler that prepares knows: while nothing came back, nothing was submitted.
LEMMA Prepared ==
    ASSUME Inv, stage = "prepare"
    PROVE  /\ ~HasOutcome => ~Submitted
           /\ row.state \in { "running", "cancel_requested", "cancelled" }
           /\ Submitted => Returned
           /\ Read \in Task /\ Read.state = row.state /\ Read.attempts = row.attempts
           /\ Read.outcome = row.outcome /\ Read.cancel = row.cancel
           /\ ~row.outcome => \A b \in Attempt : stop[b] # Gone => b <= row.attempts
<1>1. CoreTypeOK /\ row \in Task
  BY InvParts DEF TaskTypeOK
<1>2. /\ Submitted => Returned
      /\ row.state \in { "running", "cancel_requested", "cancelled" }
      /\ ~row.outcome => \A b \in Attempt : stop[b] # Gone => b <= row.attempts
  BY DEF Inv, TurnInv
<1> QED BY <1>1, <1>2, ReadRow, ReturnedIsSeen

\* An attempt that is left of a task is one of its attempts.
LEMMA AttemptLeft ==
    ASSUME TurnAssumption, NEW r \in Task, r.attempts < Tries PROVE r.attempts \in Attempt
BY TurnAssumption DEF Task, Attempt

LEMMA StartTypingKeeps == ASSUME Inv, Assumptions, StartTyping PROVE Inv'
<1>1. /\ stage = "prepare" /\ ~HasOutcome /\ WaitAs(Read) /\ stage' = "idle"
      /\ start' = [ start EXCEPT ![Read.attempts] = "queued" ] /\ stop' = stop
      /\ noticed' = noticed /\ restarts' = restarts /\ UNCHANGED deliveryVars
  BY DEF StartTyping, Leave
<1>2. /\ row' \in Task /\ row'.attempts = row.attempts /\ row'.outcome = row.outcome
      /\ row'.state \in { "cancelled", "waiting" }
  <2>1. row'.state = IF row.state \in Terminal THEN row.state ELSE "waiting"
    BY <1>1, Prepared, WaitRow
  <2> QED BY <1>1, <2>1, Prepared, WaitRow, States
<1>3. Posted' /\ ~Submitted'
  BY <1>1, Prepared, SubmittedStays, PostedStays, InvParts DEF deliveryVars
<1>4. start' \in [ Attempt -> Typing ] /\ stop' \in [ Attempt -> Typing ]
  BY <1>1, InvParts DEF TaskTypeOK, Typing
<1>5. AnswerSurvivesFailure' /\ FlagIsKept'
  BY <1>2, <1>3 DEF AnswerSurvivesFailure, FlagIsKept
<1>6. ~row'.outcome => \A b \in Attempt : stop'[b] # Gone => b <= row'.attempts
  BY <1>1, <1>2, Prepared
<1> QED BY <1>1, <1>2, <1>3, <1>4, <1>5, <1>6, LeaveKeeps, InvParts DEF TaskTypeOK

LEMMA StartFailedKeeps == ASSUME Inv, Assumptions, StartFailed PROVE Inv'
<1>1. /\ stage = "prepare" /\ ~HasOutcome /\ Read.attempts < Tries
      /\ start[Read.attempts] \in { "failed", "cancelled" }
      /\ row' = [ Read EXCEPT !.state = "failed" ] /\ stage' = "idle"
      /\ start' = start /\ stop' = stop
      /\ noticed' = noticed /\ restarts' = restarts /\ UNCHANGED deliveryVars
  BY DEF StartFailed, Leave, PutBack
<1>2. /\ row' \in Task /\ row'.attempts = row.attempts /\ row'.outcome = row.outcome
      /\ row'.state = "failed"
  BY <1>1, Prepared, StateRow, States
<1>3. Posted' /\ ~Submitted'
  BY <1>1, Prepared, SubmittedStays, PostedStays, InvParts DEF deliveryVars
<1>4. AnswerSurvivesFailure' /\ FlagIsKept'
  BY <1>2, <1>3 DEF AnswerSurvivesFailure, FlagIsKept
<1>5. ~row'.outcome => \A b \in Attempt : stop'[b] # Gone => b <= row'.attempts
  BY <1>1, <1>2, Prepared
<1> QED BY <1>1, <1>2, <1>3, <1>4, <1>5, LeaveKeeps, InvParts DEF TaskTypeOK

LEMMA CheckKeeps == ASSUME Inv, Assumptions, CheckTask PROVE Inv'
<1>1. /\ stage = "prepare" /\ ~HasOutcome /\ Read.attempts < Tries /\ row' = Read
      /\ start' = [ start EXCEPT ![Read.attempts] = "complete" ] /\ stop' = stop
      /\ stage' \in { "preflight", "plain" }
      /\ noticed' = noticed /\ restarts' = restarts
      /\ delivery' = delivery /\ made' = made /\ dead' = dead
      /\ target' = target \/ (target' = NoThread /\ target \in dead)
  BY DEF CheckTask, ForgetThread
<1>2. /\ row' \in Task /\ row'.attempts = row.attempts /\ row'.outcome = row.outcome
      /\ row'.state = row.state /\ row'.error = "none" /\ ~row'.outcome /\ row'.attempts \in Attempt
  <2>1. Read.error = "none" /\ ~Read.outcome
    <3>1. Read.outcome \in BOOLEAN
      BY <1>1, Prepared DEF Task
    <3> QED BY <1>1, <3>1 DEF HasOutcome
  <2> QED BY <1>1, <2>1, Prepared, AttemptLeft DEF Assumptions
<1>3. ~Submitted /\ ~Submitted'
  BY <1>1, Prepared, SubmittedStays
<1>4. Posted'
  <2>1. dead' \subseteq made /\ dead \subseteq dead'
    BY <1>1, InvParts DEF Posted, DeliveryTypeOK
  <2> QED BY <1>1, <2>1, TargetKeeps, InvParts DEF Assumptions
<1>5. TaskTypeOK'
  BY <1>1, <1>2, InvParts DEF TaskTypeOK, Typing
<1>6. CoreTypeOK'
  BY <1>4, <1>5 DEF Posted, CoreTypeOK
<1>7. TurnInv'
  BY <1>1, <1>2, <1>3, <1>6, Prepared DEF TurnInv
<1>8. AnswerSurvivesFailure' /\ FlagIsKept'
  BY <1>1, <1>2, <1>3, Prepared DEF AnswerSurvivesFailure, FlagIsKept
<1> QED BY <1>3, <1>4, <1>7, <1>8 DEF Inv, Posted

LEMMA PreflightFailsKeeps == ASSUME Inv, PreflightFails PROVE Inv'
<1>1. /\ stage = "preflight" /\ stage' \in { "infra", "plain" }
      /\ row' = row /\ start' = start /\ stop' = stop /\ noticed' = noticed
      /\ restarts' = restarts /\ UNCHANGED deliveryVars
  BY DEF PreflightFails
<1>2. Posted' /\ Submitted' = Submitted
  BY <1>1, PostedStays, SubmittedStays, InvParts DEF deliveryVars
<1>3. CoreTypeOK'
  BY <1>1, <1>2, InvParts DEF Posted, CoreTypeOK, TaskTypeOK
<1>4. Returned => Returned'
  BY <1>1 DEF Returned
<1>5. TurnInv'
  BY <1>1, <1>2, <1>3, <1>4 DEF Inv, TurnInv
<1>6. AnswerSurvivesFailure' /\ FlagIsKept'
  BY <1>1, <1>2 DEF Inv, AnswerSurvivesFailure, FlagIsKept
<1> QED BY <1>2, <1>5, <1>6 DEF Inv, Posted

\* The row that is written back may have lost a cancellation, but is that of the attempt,
\* which has not returned: nothing was submitted.
LEMMA StartCodexKeeps == ASSUME Inv, CopyInv, StartCodex PROVE Inv' /\ ~Submitted
<1>1. /\ stage = "preflight" /\ stage' = "codex" /\ row' = copy
      /\ start' = start /\ stop' = stop /\ noticed' = noticed
      /\ restarts' = restarts /\ UNCHANGED deliveryVars
  BY DEF StartCodex
<1>2. /\ row' \in Task /\ row'.state = "running" /\ row'.error = "none" /\ ~row'.outcome
      /\ row'.attempts = row.attempts /\ ~row'.cancel
  BY <1>1 DEF CopyInv
<1>3. row.attempts \in Attempt /\ row.error = "none" /\ ~row.outcome
  BY <1>1 DEF Inv, TurnInv
<1>4. Posted' /\ Submitted' = Submitted /\ ~Submitted
  <2>1. ~Returned
    BY <1>3 DEF Returned
  <2> QED BY <1>1, <2>1, PostedStays, SubmittedStays, InvParts DEF deliveryVars, Inv, TurnInv
<1>5. CoreTypeOK'
  BY <1>1, <1>2, <1>4, InvParts DEF Posted, CoreTypeOK, TaskTypeOK
<1>6. TurnInv'
  BY <1>1, <1>2, <1>3, <1>4, <1>5 DEF Inv, TurnInv
<1>7. AnswerSurvivesFailure' /\ FlagIsKept'
  BY <1>2 DEF AnswerSurvivesFailure, FlagIsKept
<1> QED BY <1>4, <1>6, <1>7 DEF Inv, Posted

LEMMA SubmitTextKeeps == ASSUME Inv, Assumptions, SubmitText PROVE Inv'
<1>1. PICK d \in Delivery : Submit(d)
  BY DEF SubmitText
<1>2. /\ row' = row /\ start' = start /\ stop' = stop /\ stage' = stage /\ noticed' = noticed
      /\ restarts' = restarts /\ stage = "codex"
      /\ target' = target /\ made' = made /\ dead' = dead
  BY DEF SubmitText, taskVars
<1>3. Posted'
  BY <1>1, <1>2, SubmitKeeps, InvParts DEF Assumptions
<1>4. TaskTypeOK'
  BY <1>2, InvParts DEF TaskTypeOK
<1>5. CoreTypeOK'
  BY <1>3, <1>4 DEF Posted, CoreTypeOK
<1>6. TurnInv'
  BY <1>2, <1>5 DEF Inv, TurnInv
<1>7. AnswerSurvivesFailure' /\ FlagIsKept'
  BY <1>2 DEF Inv, TurnInv, AnswerSurvivesFailure, FlagIsKept
<1> QED BY <1>3, <1>6, <1>7 DEF Inv, Posted

LEMMA CodexReturnsKeeps == ASSUME Inv, Assumptions, CodexReturns PROVE Inv'
<1> DEFINE Back(e) == IF e = "none"
                      THEN [ row EXCEPT !.outcome = TRUE, !.error = "none", !.attempts = 0 ]
                      ELSE [ row EXCEPT !.error = e ]
<1>1. PICK e \in { "none", "plain", "infra" } : WaitAs(Back(e))
  BY DEF CodexReturns, Errors
<1>2. /\ stage \in { "codex", "plain", "infra" } /\ stage' = "idle"
      /\ stop' = [ stop EXCEPT ![row.attempts] = "queued" ] /\ start' = start
      /\ noticed' = noticed /\ restarts' = restarts /\ UNCHANGED deliveryVars
  BY DEF CodexReturns, Leave
<1>3. /\ row \in Task /\ row.error = "none" /\ ~row.outcome /\ row.attempts \in Attempt
      /\ row.state \in { "running", "cancel_requested", "cancelled" }
      /\ stop \in [ Attempt -> Typing ] /\ start \in [ Attempt -> Typing ]
      /\ \A b \in Attempt : stop[b] # Gone => b <= row.attempts
  BY <1>2, InvParts DEF TurnInv, TaskTypeOK
<1>4. /\ Back(e) \in Task /\ Back(e).state = row.state /\ Back(e).cancel = row.cancel
      /\ IF e = "none" THEN Back(e).outcome
         ELSE Back(e).error = e /\ ~Back(e).outcome /\ Back(e).attempts = row.attempts
  <2>1. CASE e = "none"
    <3>1. 0 \in 0 .. Tries
      BY DEF Assumptions, TurnAssumption
    <3> QED BY <1>3, <2>1, <3>1 DEF Task
  <2>2. CASE e # "none"
    BY <1>1, <1>3, <2>2 DEF Task
  <2> QED BY <2>1, <2>2
<1> HIDE DEF Back
<1>5. /\ row' \in Task /\ row'.state \in { "cancelled", "waiting" }
      /\ IF e = "none" THEN row'.outcome
         ELSE row'.error = e /\ ~row'.outcome /\ row'.attempts = row.attempts
  <2>1. row'.state = IF row.state \in Terminal THEN row.state ELSE "waiting"
    BY <1>1, <1>4, WaitRow
  <2> QED BY <1>1, <1>3, <1>4, <2>1, WaitRow, States
<1>6. stop' \in [ Attempt -> Typing ] /\ stop'[row.attempts] = "queued"
      /\ \A b \in Attempt \ { row.attempts } : stop'[b] = stop[b]
  BY <1>2, <1>3 DEF Typing
<1>7. Returned'
  BY <1>3, <1>5, <1>6 DEF Returned, Gone
<1>8. Posted'
  BY <1>2, InvParts, PostedStays
<1>9. ~row'.outcome => \A b \in Attempt : stop'[b] # Gone => b <= row'.attempts
  <2>1. row.attempts <= row.attempts
    BY <1>3 DEF Attempt
  <2> QED BY <1>3, <1>5, <1>6, <2>1
<1>10. AnswerSurvivesFailure' /\ FlagIsKept'
  BY <1>5 DEF AnswerSurvivesFailure, FlagIsKept
<1> QED BY <1>2, <1>3, <1>5, <1>6, <1>7, <1>8, <1>9, <1>10, LeaveKeeps, InvParts DEF TaskTypeOK

LEMMA StopFailedKeeps == ASSUME Inv, StopFailed PROVE Inv'
<1>1. /\ stage = "prepare" /\ row' = [ Read EXCEPT !.state = "failed" ] /\ stage' = "idle"
      /\ start' = start /\ stop' = stop
      /\ noticed' = noticed /\ restarts' = restarts /\ UNCHANGED deliveryVars
      /\ \E a \in LastStop : stop[a] \in { "failed", "cancelled" }
  BY DEF StopFailed, Finishing, Leave, PutBack
<1>2. /\ row' \in Task /\ row'.attempts = row.attempts /\ row'.outcome = row.outcome
      /\ row'.state = "failed"
  BY <1>1, Prepared, StateRow, States
<1>3. Posted'
  BY <1>1, PostedStays, InvParts
<1>4. AnswerSurvivesFailure' /\ FlagIsKept'
  BY <1>1, <1>2 DEF AnswerSurvivesFailure, FlagIsKept, LastStop
<1>5. ~row'.outcome => \A b \in Attempt : stop'[b] # Gone => b <= row'.attempts
  BY <1>1, <1>2, Prepared
<1>6. row'.state \in Terminal
  BY <1>2, States
<1> QED BY <1>1, <1>2, <1>3, <1>4, <1>5, <1>6, LeaveKeeps, InvParts DEF TaskTypeOK

LEMMA FinishOutcomeKeeps == ASSUME Inv, FinishOutcome PROVE Inv'
<1> DEFINE s == IF CancelRequested THEN "cancelled" ELSE "complete"
<1>1. /\ stage = "prepare" /\ row' = [ Read EXCEPT !.state = s ] /\ stage' = "idle"
      /\ start' = start /\ stop' = stop
      /\ noticed' = noticed /\ restarts' = restarts /\ UNCHANGED deliveryVars
  BY DEF FinishOutcome, Finishing, Leave, PutBack
<1>2. s \in { "cancelled", "complete" } /\ (s = "complete" => ~row.cancel)
  BY DEF CancelRequested
<1> HIDE DEF s
<1>3. /\ row' \in Task /\ row'.attempts = row.attempts /\ row'.outcome = row.outcome
      /\ row'.state = s /\ row'.cancel = row.cancel
  BY <1>1, <1>2, Prepared, StateRow, States
<1>4. Posted'
  BY <1>1, PostedStays, InvParts
<1>5. AnswerSurvivesFailure' /\ FlagIsKept'
  BY <1>2, <1>3 DEF AnswerSurvivesFailure, FlagIsKept
<1>6. ~row'.outcome => \A b \in Attempt : stop'[b] # Gone => b <= row'.attempts
  BY <1>1, <1>3, Prepared
<1>7. row'.state \in Terminal
  BY <1>2, <1>3, States
<1> QED BY <1>1, <1>3, <1>4, <1>5, <1>6, <1>7, LeaveKeeps, InvParts DEF TaskTypeOK

LEMMA FinishErrorKeeps == ASSUME Inv, Assumptions, FinishError PROVE Inv'
<1> DEFINE next == (CHOOSE a \in LastStop : TRUE) + 1
           last == Read.error = "infra" \/ next >= Tries
           state == IF last THEN "failed" ELSE "queued"
           tries == IF last THEN Tries ELSE next
<1>1. /\ stage = "prepare" /\ stage' = "idle" /\ Read.error # "none"
      /\ start' = start /\ stop' = stop /\ restarts' = restarts
      /\ target' = target /\ made' = made /\ dead' = dead /\ LastStop # {}
  BY DEF FinishError, Finishing, Leave
<1>2. /\ Read \in Task /\ Read.outcome = row.outcome /\ Read.cancel = row.cancel
      /\ Read.attempts = row.attempts
      /\ ~row.outcome => \A b \in Attempt : stop[b] # Gone => b <= row.attempts
  BY <1>1, Prepared
<1>3. CASE CancelRequested \/ Submitted
  <2>1. PICK s \in { "cancelled", "complete" } :
          /\ row' = [ Read EXCEPT !.state = s ] /\ (s = "complete" => ~row.cancel)
          /\ noticed' = noticed /\ delivery' = delivery
    BY <1>3 DEF FinishError, PutBack, CancelRequested
  <2>2. /\ row' \in Task /\ row'.attempts = row.attempts /\ row'.outcome = row.outcome
        /\ row'.state = s /\ row'.cancel = row.cancel
    BY <1>2, <2>1, StateRow, States
  <2>3. Posted'
    BY <1>1, <2>1, PostedStays, InvParts DEF deliveryVars
  <2>4. AnswerSurvivesFailure' /\ FlagIsKept'
    BY <2>1, <2>2 DEF AnswerSurvivesFailure, FlagIsKept
  <2>5. ~row'.outcome => \A b \in Attempt : stop'[b] # Gone => b <= row'.attempts
    BY <1>1, <1>2, <2>2
  <2>6. row'.state \in Terminal
    BY <2>2, States
  <2> QED BY <1>1, <2>1, <2>2, <2>3, <2>4, <2>5, <2>6, LeaveKeeps, InvParts DEF TaskTypeOK
<1>4. CASE ~CancelRequested /\ ~Submitted
  <2>1. /\ row' = [ Read EXCEPT !.state = state, !.attempts = tries ]
        /\ \/ noticed' = noticed /\ delivery' = delivery
           \/ Read.error = "infra" /\ noticed' = TRUE /\ \E d \in Delivery : Submit(d)
    BY <1>4 DEF FinishError
  <2>2. PICK a \in LastStop : TRUE
    BY <1>1
  <2>3. /\ a \in Attempt /\ next = a + 1 /\ next \in 0 .. Tries
        /\ \A b \in Attempt : stop[b] # Gone => b <= next
    <3>1. a \in Attempt /\ next = a + 1 /\ next \in 0 .. Tries
      BY <2>2, LastIsOne, InvParts DEF Assumptions
    <3>2. \A b \in Attempt : stop[b] # Gone => b <= a
      BY <2>2 DEF LastStop
    <3> HIDE DEF next
    <3> QED BY <3>1, <3>2 DEF Attempt
  <2>4. /\ tries \in 0 .. Tries /\ state \in { "failed", "queued" }
        /\ \A b \in Attempt : stop[b] # Gone => b <= tries
        /\ Read.error = "infra" => state = "failed"
    <3> HIDE DEF next
    <3>1. Tries \in 0 .. Tries /\ \A b \in Attempt : b <= Tries
      BY DEF Assumptions, TurnAssumption, Attempt
    <3> QED BY <2>3, <3>1
  <2> HIDE DEF tries, state
  <2>5. row' \in Task /\ row'.attempts = tries /\ row'.state = state
    BY <1>2, <2>1, <2>4, States DEF Task
  <2>6. CASE noticed' = noticed /\ delivery' = delivery
    <3>1. ~Submitted'
      BY <1>4, <2>6, SubmittedStays
    <3>2. Posted'
      BY <1>1, <2>6, PostedStays, InvParts DEF deliveryVars
    <3>3. AnswerSurvivesFailure' /\ FlagIsKept'
      BY <2>4, <2>5, <3>1 DEF AnswerSurvivesFailure, FlagIsKept
    <3>4. ~row'.outcome => \A b \in Attempt : stop'[b] # Gone => b <= row'.attempts
      BY <1>1, <2>4, <2>5
    <3> QED BY <1>1, <2>5, <2>6, <3>1, <3>2, <3>3, <3>4, LeaveKeeps, InvParts DEF TaskTypeOK
  <2>7. CASE Read.error = "infra" /\ noticed' = TRUE /\ \E d \in Delivery : Submit(d)
    <3>1. row'.state = "failed" /\ row'.state \in Terminal
      BY <2>4, <2>5, <2>7, States
    <3>2. Posted'
      BY <1>1, <2>7, SubmitKeeps, InvParts DEF Assumptions
    <3>3. AnswerSurvivesFailure' /\ FlagIsKept'
      BY <2>7, <3>1 DEF AnswerSurvivesFailure, FlagIsKept
    <3>4. ~row'.outcome => \A b \in Attempt : stop'[b] # Gone => b <= row'.attempts
      BY <1>1, <2>4, <2>5
    <3> QED BY <1>1, <2>5, <2>7, <3>1, <3>2, <3>3, <3>4, LeaveKeeps, InvParts DEF TaskTypeOK
  <2> QED BY <2>1, <2>6, <2>7
<1> QED BY <1>3, <1>4

LEMMA CancelKeeps == ASSUME Inv, Cancel PROVE Inv'
<1>1. /\ start' = CancelChildren(start) /\ stop' = CancelChildren(stop)
      /\ stage' = stage /\ noticed' = noticed /\ restarts' = restarts
      /\ UNCHANGED deliveryVars
      /\ row' = IF row.state = "running"
                THEN [ row EXCEPT !.state = "cancel_requested", !.cancel = TRUE ]
                ELSE [ row EXCEPT !.state = "cancelled" ]
  BY DEF Cancel
<1>2. row \in Task /\ start \in [ Attempt -> Typing ] /\ stop \in [ Attempt -> Typing ]
  BY InvParts DEF TaskTypeOK
<1>3. /\ row' \in Task /\ row'.error = row.error /\ row'.attempts = row.attempts
      /\ row'.outcome = row.outcome /\ row'.state \in { "cancel_requested", "cancelled" }
  BY <1>1, <1>2, States DEF Task
<1>4. /\ start' \in [ Attempt -> Typing ] /\ stop' \in [ Attempt -> Typing ]
      /\ \A a \in Attempt : stop'[a] = Gone <=> stop[a] = Gone
  BY <1>1, <1>2 DEF CancelChildren, Typing, Gone
<1>5. Posted' /\ Submitted' = Submitted
  BY <1>1, PostedStays, SubmittedStays, InvParts DEF deliveryVars
<1>6. TaskTypeOK'
  BY <1>1, <1>3, <1>4, InvParts DEF TaskTypeOK
<1>7. CoreTypeOK'
  BY <1>5, <1>6 DEF Posted, CoreTypeOK
<1>8. Returned => Returned'
  BY <1>3, <1>4 DEF Returned
<1>9. TurnInv'
  <2>1. "cancelled" \in Terminal
    BY States
  <2> QED BY <1>1, <1>3, <1>4, <1>5, <1>7, <1>8, <2>1 DEF Inv, TurnInv
<1>10. AnswerSurvivesFailure' /\ FlagIsKept'
  BY <1>3 DEF AnswerSurvivesFailure, FlagIsKept
<1> QED BY <1>5, <1>9, <1>10 DEF Inv, Posted

LEMMA RestartKeeps == ASSUME Inv, Restart PROVE Inv'
<1>1. /\ stage' = "idle" /\ start' = start /\ stop' = stop /\ noticed' = noticed
      /\ restarts' = restarts + 1 /\ UNCHANGED deliveryVars
      /\ \/ /\ row.state = "running" /\ Submitted /\ row' = [ row EXCEPT !.state = "complete" ]
         \/ /\ row.state = "running" /\ ~Submitted
            /\ row' = [ row EXCEPT !.state = "failed", !.error = "plain" ]
         \/ row.state # "running" /\ row' = row
  BY DEF Restart
<1>2. row \in Task /\ restarts \in Nat
  BY InvParts DEF TaskTypeOK
<1>3. /\ row' \in Task /\ row'.attempts = row.attempts /\ row'.outcome = row.outcome
      /\ row'.state = row.state \/ row'.state \in { "complete", "failed" }
  BY <1>1, <1>2, States DEF Task
<1>4. Posted' /\ Submitted' = Submitted
  BY <1>1, PostedStays, SubmittedStays, InvParts DEF deliveryVars
<1>5. Submitted' => row'.state \in Terminal \cup { "cancel_requested" } \/ Returned'
  <2>1. CASE row.state = "running"
    BY <1>1, <1>2, <1>4, <2>1, States DEF Task
  <2>2. CASE row.state # "running"
    <3>1. Returned => Returned'
      BY <1>1, <2>2 DEF Returned
    <3>2. stage # "idle" => row.state \in { "cancel_requested", "cancelled" }
      BY <2>2 DEF Inv, TurnInv
    <3>3. Submitted => row.state \in Terminal \cup { "cancel_requested" } \/ Returned
      BY <3>2, States DEF Inv, TurnInv
    <3> QED BY <1>1, <1>4, <2>2, <3>1, <3>3
  <2> QED BY <2>1, <2>2
<1>6. AnswerSurvivesFailure'
  <2>1. CASE row.state = "running"
    BY <1>1, <1>2, <1>4, <2>1 DEF AnswerSurvivesFailure, Task
  <2>2. CASE row.state # "running"
    BY <1>1, <1>4, <2>2 DEF Inv, AnswerSurvivesFailure
  <2> QED BY <2>1, <2>2
<1>7. FlagIsKept' /\ restarts' \in Nat
  BY <1>1, <1>2 DEF FlagIsKept
<1>8. ~row'.outcome => \A b \in Attempt : stop'[b] # Gone => b <= row'.attempts
  BY <1>1, <1>3 DEF Inv, TurnInv
<1> QED BY <1>1, <1>3, <1>4, <1>5, <1>6, <1>7, <1>8, LeaveKeeps, InvParts DEF TaskTypeOK

\* What a delivery, or Discord, does leaves the task as it is.
LEMMA OthersKeep ==
    ASSUME Inv, UNCHANGED taskVars, Posted', Answered' => Answered PROVE Inv'
<1>1. /\ row' = row /\ start' = start /\ stop' = stop /\ stage' = stage /\ noticed' = noticed
      /\ restarts' = restarts
  BY DEF taskVars
<1>2. TaskTypeOK'
  BY <1>1, InvParts DEF TaskTypeOK
<1>3. CoreTypeOK'
  BY <1>2 DEF Posted, CoreTypeOK
<1>4. (Submitted' => Submitted) /\ (Returned => Returned')
  BY <1>1 DEF Submitted, Returned
<1>5. TurnInv'
  BY <1>1, <1>3, <1>4 DEF Inv, TurnInv
<1>6. AnswerSurvivesFailure' /\ FlagIsKept'
  BY <1>1, <1>4 DEF Inv, AnswerSurvivesFailure, FlagIsKept
<1> QED BY <1>5, <1>6 DEF Inv, Posted

\* A Codex process is started.
Starts == stage # "codex" /\ stage' = "codex"

\* Every step keeps the invariant, and only a task that submitted nothing is run.
LEMMA StepKeeps ==
    ASSUME Inv, CopyInv, Assumptions, Next PROVE Inv' /\ (Starts => ~Submitted)
<1>1. CASE Claim
  BY <1>1, ClaimKeeps DEF Claim, Starts
<1>2. CASE Resume
  BY <1>2, ResumeTaskKeeps DEF Resume, Starts
<1>3. CASE Handler
  <2>1. CASE StartCodex
    BY <2>1, StartCodexKeeps
  <2>5. CASE CheckTask \/ PreflightFails
    BY <2>5, CheckKeeps, PreflightFailsKeeps DEF CheckTask, PreflightFails, Starts
  <2>2. CASE StartTyping \/ StartFailed
    BY <2>2, StartTypingKeeps, StartFailedKeeps DEF StartTyping, StartFailed, Leave, Starts
  <2>3. CASE CodexReturns \/ StopFailed
    BY <2>3, CodexReturnsKeeps, StopFailedKeeps DEF CodexReturns, StopFailed, Leave, Starts
  <2>4. CASE FinishOutcome \/ FinishError
    BY <2>4, FinishOutcomeKeeps, FinishErrorKeeps DEF FinishOutcome, FinishError, Leave, Starts
  <2> QED BY <1>3, <2>1, <2>2, <2>3, <2>4, <2>5 DEF Handler
<1>4. ASSUME NEW a \in Attempt, StartSettles(a) \/ StopSettles(a)
      PROVE  Inv' /\ (Starts => ~Submitted)
  BY <1>4, StartSettlesKeeps, StopSettlesKeeps DEF StartSettles, StopSettles, Starts
<1>5. CASE SubmitText
  BY <1>5, SubmitTextKeeps DEF SubmitText, taskVars, Starts
<1>6. ASSUME NEW d \in Delivery, DeliveryStep(DeliveryTurn(d))
      PROVE  Inv' /\ (Starts => ~Submitted)
  <2>1. Posted' /\ (Answered' => Answered) /\ UNCHANGED taskVars
    BY <1>6, TurnOfDelivery, InvParts DEF DeliveryStep, Assumptions
  <2> QED BY <2>1, OthersKeep DEF taskVars, Starts
<1>7. ASSUME NEW t \in Thread, DeliveryStep(ThreadDies(t))
      PROVE  Inv' /\ (Starts => ~Submitted)
  <2>1. /\ UNCHANGED taskVars /\ delivery' = delivery /\ target' = target /\ made' = made
        /\ dead' = dead \cup { t } /\ t \in made
    BY <1>7 DEF DeliveryStep, ThreadDies
  <2>2. dead \subseteq dead' /\ dead' \subseteq made
    BY <2>1, InvParts DEF Posted, DeliveryTypeOK
  <2>3. Posted' /\ (Answered' => Answered)
    BY <2>1, <2>2, TargetKeeps, InvParts DEF Answered, Assumptions
  <2> QED BY <2>1, <2>3, OthersKeep DEF taskVars, Starts
<1>8. CASE Cancel
  BY <1>8, CancelKeeps DEF Cancel, Starts
<1>9. CASE Restart
  BY <1>9, RestartKeeps DEF Restart, Starts
<1> QED BY <1>1, <1>2, <1>3, <1>4, <1>5, <1>6, <1>7, <1>8, <1>9 DEF Next, TurnStep

\* A step that is no part of a preflight and cancels nothing leaves the copy, the history
\* and the flag.
LEMMA CopyStays ==
    ASSUME CopyInv, copy' \in { copy, Created }, cancelled' = cancelled, Created \in Task,
           row'.cancel = row.cancel,
           stage' = "preflight" => /\ stage = "preflight" /\ copy' = copy
                                   /\ row'.attempts = row.attempts
    PROVE  CopyInv'
BY DEF CopyInv

\* What was read before the preflight stays what it was, and a cancellation that counts
\* stays on the row: the row that StartCodex writes back had not been reached by one.
LEMMA CopyKeeps ==
    ASSUME Inv, CopyInv, Assumptions, Next PROVE CopyInv'
<1>1. /\ row \in Task /\ Created \in Task
  <2>1. 0 \in 0 .. Tries
    BY DEF Assumptions, TurnAssumption
  <2> QED BY <2>1, States, InvParts DEF Created, Task, TaskTypeOK
<1>2. CASE Claim \/ Resume
  BY <1>1, <1>2, CopyStays DEF Claim, Resume, Task
<1>3. CASE StartTyping \/ StartFailed
  <2>1. stage = "prepare" /\ copy' = copy /\ cancelled' = cancelled /\ stage' = "idle"
    BY <1>3 DEF StartTyping, StartFailed, Leave
  <2>2. row'.cancel = row.cancel
    <3>1. Read \in Task /\ Read.cancel = row.cancel
      BY <2>1, Prepared
    <3>2. WaitAs(Read) \/ row' = [ Read EXCEPT !.state = "failed" ]
      BY <1>3 DEF StartTyping, StartFailed, PutBack
    <3>3. CASE WaitAs(Read)
      BY <3>1, <3>3, WaitRow
    <3>4. CASE row' = [ Read EXCEPT !.state = "failed" ]
      BY <3>1, <3>4 DEF Task
    <3> QED BY <3>2, <3>3, <3>4
  <2> QED BY <1>1, <2>1, <2>2, CopyStays
<1>4. CASE CheckTask
  <2>1. /\ stage = "prepare" /\ ~HasOutcome /\ row' = Read /\ cancelled' = cancelled
        /\ \/ stage' = "plain" /\ copy' = copy
           \/ ~CancelRequested /\ stage' = "preflight" /\ copy' = Read
    BY <1>4 DEF CheckTask
  <2>2. /\ Read \in Task /\ Read.cancel = row.cancel /\ Read.state = row.state
        /\ row.state \in { "running", "cancel_requested", "cancelled" }
    BY <2>1, Prepared
  <2>3. CASE stage' = "plain" /\ copy' = copy
    BY <1>1, <2>1, <2>2, <2>3, CopyStays
  <2>4. CASE ~CancelRequested /\ stage' = "preflight" /\ copy' = Read
    <3>1. ~row.cancel /\ row.state = "running" /\ ~cancelled
      BY <2>2, <2>4 DEF CancelRequested, CopyInv
    <3>2. Read.error = "none" /\ ~Read.outcome
      BY <2>1, <2>2 DEF HasOutcome, Task
    <3> QED BY <2>1, <2>2, <2>4, <3>1, <3>2 DEF CopyInv
  <2> QED BY <2>1, <2>3, <2>4
<1>5. CASE PreflightFails
  BY <1>1, <1>5, CopyStays DEF PreflightFails
<1>6. CASE StartCodex
  BY <1>1, <1>6 DEF StartCodex, CopyInv
<1>7. CASE CodexReturns
  <2>1. /\ copy' = copy /\ cancelled' = cancelled /\ stage' = "idle"
        /\ \E e \in { "none", "plain", "infra" } :
             WaitAs(IF e = "none"
                    THEN [ row EXCEPT !.outcome = TRUE, !.error = "none", !.attempts = 0 ]
                    ELSE [ row EXCEPT !.error = e ])
    BY <1>7 DEF CodexReturns, Leave, Errors
  <2>2. row'.cancel = row.cancel
    <3>1. PICK e \in { "none", "plain", "infra" } :
            WaitAs(IF e = "none"
                   THEN [ row EXCEPT !.outcome = TRUE, !.error = "none", !.attempts = 0 ]
                   ELSE [ row EXCEPT !.error = e ])
      BY <2>1
    <3> DEFINE back == IF e = "none"
                       THEN [ row EXCEPT !.outcome = TRUE, !.error = "none", !.attempts = 0 ]
                       ELSE [ row EXCEPT !.error = e ]
    <3>2. back \in Task /\ back.cancel = row.cancel
      <4>1. 0 \in 0 .. Tries
        BY DEF Assumptions, TurnAssumption
      <4> QED BY <1>1, <4>1 DEF Task
    <3> QED BY <3>1, <3>2, WaitRow
  <2> QED BY <1>1, <2>1, <2>2, CopyStays
<1>8. CASE StopFailed \/ FinishOutcome
  <2>1. /\ stage = "prepare" /\ copy' = copy /\ cancelled' = cancelled /\ stage' = "idle"
        /\ \E s \in { "failed", "cancelled", "complete" } : row' = [ Read EXCEPT !.state = s ]
    BY <1>8 DEF StopFailed, FinishOutcome, Finishing, Leave, PutBack
  <2>2. row'.cancel = row.cancel
    BY <2>1, Prepared, StateRow, States
  <2> QED BY <1>1, <2>1, <2>2, CopyStays
<1>9. CASE FinishError
  <2>1. /\ stage = "prepare" /\ copy' = copy /\ cancelled' = cancelled /\ stage' = "idle"
        /\ \/ \E s \in { "cancelled", "complete" } : row' = [ Read EXCEPT !.state = s ]
           \/ \E s, n : row' = [ Read EXCEPT !.state = s, !.attempts = n ]
    BY <1>9 DEF FinishError, Finishing, Leave, PutBack
  <2>2. row'.cancel = row.cancel
    <3>1. Read \in Task /\ Read.cancel = row.cancel
      BY <2>1, Prepared
    <3> QED BY <2>1, <3>1 DEF Task
  <2> QED BY <1>1, <2>1, <2>2, CopyStays
<1>10. ASSUME NEW a \in Attempt, StartSettles(a) \/ StopSettles(a) PROVE CopyInv'
  BY <1>1, <1>10, CopyStays DEF StartSettles, StopSettles
<1>11. CASE UNCHANGED taskVars
  BY <1>11 DEF taskVars, CopyInv
<1>12. CASE Cancel
  <2>1. /\ stage' = stage /\ copy' = copy
        /\ cancelled' = (cancelled \/ (row.state = "running" /\ stage # "preflight"))
        /\ row' = IF row.state = "running"
                  THEN [ row EXCEPT !.state = "cancel_requested", !.cancel = TRUE ]
                  ELSE [ row EXCEPT !.state = "cancelled" ]
    BY <1>12 DEF Cancel
  <2>2. row'.attempts = row.attempts /\ row'.cancel = (row.state = "running" \/ row.cancel)
    BY <1>1, <2>1 DEF Task
  <2> QED BY <2>1, <2>2 DEF CopyInv
<1>13. CASE Restart
  <2>1. /\ stage' = "idle" /\ copy' = Created /\ cancelled' = cancelled
        /\ \/ row' = row \/ row' = [ row EXCEPT !.state = "complete" ]
           \/ row' = [ row EXCEPT !.state = "failed", !.error = "plain" ]
    BY <1>13 DEF Restart
  <2>2. row'.cancel = row.cancel
    BY <1>1, <2>1 DEF Task
  <2> QED BY <1>1, <2>1, <2>2, CopyStays
<1> QED BY <1>2, <1>3, <1>4, <1>5, <1>6, <1>7, <1>8, <1>9, <1>10, <1>11, <1>12, <1>13
        DEF Next, TurnStep, Handler, SubmitText, DeliveryStep

\* At first nothing was run, asked for or submitted.
LEMMA InitKeeps == ASSUME Init, Assumptions PROVE Inv /\ CopyInv
<1>1. row \in Task /\ row.state = "queued" /\ stage = "idle" /\ noticed = FALSE /\ ~row.cancel
  <2>1. 0 \in 0 .. Tries
    BY DEF Assumptions, TurnAssumption
  <2> QED BY <2>1, States DEF Init, Created, Task
<1>2. TaskTypeOK
  BY <1>1 DEF Init, TaskTypeOK, Typing
<1>3. /\ target \in Thread \cup { NoThread } /\ made \subseteq Thread /\ dead = {}
      /\ \A d \in Delivery : delivery[d] = Blank
  BY DEF Init, DeliveryInit, Thread
<1>4. Blank \in DeliveryJob
  BY DEF Blank, DeliveryJob, ChildState
<1>5. DeliveryTypeOK
  BY <1>3, <1>4 DEF Init, DeliveryInit, DeliveryTypeOK
<1>6. DeliveryInv
  BY <1>3, BlankIsSound DEF DeliveryInv, Sound
<1>7. ~Submitted
  BY <1>1, <1>3 DEF Submitted, Answered, Blank
<1>8. \A b \in Attempt : stop[b] = Gone
  BY DEF Init
<1>9. CoreTypeOK
  BY <1>2, <1>5 DEF CoreTypeOK
<1>10. TurnInv
  BY <1>1, <1>7, <1>8, <1>9 DEF TurnInv
<1>11. AnswerSurvivesFailure /\ FlagIsKept
  BY <1>1 DEF AnswerSurvivesFailure, FlagIsKept
<1>12. CopyInv
  BY <1>1 DEF Init, CopyInv
<1> QED BY <1>6, <1>10, <1>11, <1>12 DEF Inv

LEMMA Constants == Assumptions
BY TurnAssumption, DeliveryAssumption DEF Assumptions

LEMMA Invariance == Spec => [](Inv /\ CopyInv)
<1>1. Inv /\ CopyInv /\ UNCHANGED vars => Inv' /\ CopyInv'
  <2> SUFFICES ASSUME Inv, CopyInv, UNCHANGED vars PROVE Inv' /\ CopyInv'
    OBVIOUS
  <2>1. UNCHANGED taskVars /\ UNCHANGED deliveryVars
    BY DEF vars
  <2>2. Posted' /\ Answered' = Answered
    BY <2>1, PostedStays, InvParts DEF deliveryVars, Answered
  <2>3. CopyInv'
    BY <2>1 DEF CopyInv, taskVars
  <2> QED BY <2>1, <2>2, <2>3, OthersKeep
<1>2. Inv /\ CopyInv /\ [Next]_vars => Inv' /\ CopyInv'
  BY <1>1, StepKeeps, CopyKeeps, Constants
<1>3. Init => Inv /\ CopyInv
  BY InitKeeps, Constants
<1> QED BY <1>2, <1>3, PTL DEF Spec

-----------------------------------------------------------------------------
(* The theorems. *)

\* In every state of a turn the variables have their types: what a handler, a restart
\* or a cancellation writes back is always a whole row.
THEOREM TypesHold == Spec => []TypeOK
<1>1. Inv /\ CopyInv => TypeOK
  BY DEF Inv, TurnInv, CoreTypeOK, TaskTypeOK, CopyInv, TypeOK
<1> QED BY <1>1, Invariance, PTL

\* For any number of attempts, deliveries, threads and restarts, no Codex process is
\* started for a task that has submitted a text (fail_agent_task_job and
\* agent_task_retry_after_stopped_error): the user gets no second answer.
THEOREM NoSecondAnswer == Spec => AnsweredNotRerun
<1>1. Inv /\ CopyInv /\ [Next]_vars => [stage # "codex" /\ stage' = "codex" => ~Submitted]_vars
  BY StepKeeps, Constants DEF Starts
<1> QED BY <1>1, Invariance, PTL DEF Spec, AnsweredNotRerun

\* A task that answered ends failed only when its typing could not be settled,
\* whatever attempts fail and whenever the process restarts.
THEOREM AnswersSurvive == Spec => []AnswerSurvivesFailure
<1>1. Inv => AnswerSurvivesFailure
  BY DEF Inv
<1> QED BY <1>1, Invariance, PTL

\* A cancellation that reached a running task, other than between the check before the
\* preflight and the start of Codex, whose write-back forgets it, is kept by every handler
\* that finishes the task; only the recovery of a restart may complete it.
THEOREM CancellationsAreKept == Spec => []CancelIsKept
<1>1. Inv /\ CopyInv => CancelIsKept
  BY DEF Inv, CopyInv, FlagIsKept, CancelIsKept
<1> QED BY <1>1, Invariance, PTL

\* For any number of deliveries and threads, two deliveries of a session that were
\* posted are in the same thread unless Discord lost one of the two
\* (resolve_agent_session_target, repair_text_delivery_unavailable_thread_failures).
THEOREM SpokenInOnePlace == Spec => []OneConversation
<1>1. Inv => OneConversation
  BY DEF Inv, DeliveryInv, OneConversation
<1> QED BY <1>1, Invariance, PTL
=============================================================================
