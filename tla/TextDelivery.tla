----------------------------- MODULE TextDelivery -----------------------------
(***************************************************************************)
(* The text deliveries of one voice session: each resolves the session's    *)
(* thread, asks for a forum thread when there is none, sends, and repairs   *)
(* the session when Discord does not know the thread any more.  Handlers of *)
(* one route are serialized by their ordering key, but a delivery that      *)
(* waits for a child holds no key.                                          *)
(***************************************************************************)
EXTENDS JobKinds, Naturals, FiniteSets

CONSTANTS
    Delivery,   \* text_delivery jobs with the session as their target, by number
    Existing,   \* forum threads the session may have had before
    Fresh,      \* forum threads that can be created
    NoThread,   \* the session has no thread, a delivery no child
    Mortal      \* threads Discord may lose: deleted, or access withdrawn

Thread == Existing \cup Fresh

ASSUME DeliveryAssumption ==
    Delivery \subseteq Nat /\ NoThread \notin Thread /\ Mortal \subseteq Thread

VARIABLES
    target,     \* the session's text target
    delivery,   \* [Delivery -> DeliveryJob]
    made,       \* threads created so far
    dead        \* threads Discord does not know any more

deliveryVars == << target, delivery, made, dead >>

ChildState == { Gone, "queued", "complete", "failed", "unavailable" }

\* own: the thread its first discord_forum_thread_create child made; to: the
\* target of its latest discord_text_send child; lost: targets of earlier ones.
DeliveryJob == [ state  : { Gone, "queued", "waiting", "complete", "failed" },
                 create : ChildState, own : Thread \cup { NoThread },
                 send   : ChildState, to : Thread \cup { NoThread },
                 lost   : SUBSET Thread ]

Blank == [ state |-> Gone, create |-> Gone, own |-> NoThread,
           send |-> Gone, to |-> NoThread, lost |-> {} ]

Update(d, new) == delivery' = [ delivery EXCEPT ![d] = new ]

\* Mutant: the resolver forgets a delivery whose thread could not be created.
ResumeWhenMade(d) ==
    /\ delivery[d].state = "waiting"
    /\ delivery[d].create \in { Gone, "complete" } /\ delivery[d].send # "queued"
    /\ Update(d, [ delivery[d] EXCEPT !.state = "queued" ])
    /\ UNCHANGED << target, made, dead >>

\* resolve_waiting_jobs: no child is open any more.
ResumeDelivery(d) ==
    /\ delivery[d].state = "waiting"
    /\ delivery[d].create # "queued" /\ delivery[d].send # "queued"
    /\ Update(d, [ delivery[d] EXCEPT !.state = "queued" ])
    /\ UNCHANGED << target, made, dead >>

\* The thread is created, or that fails.
CreateSettles(d) ==
    /\ delivery[d].create = "queued"
    /\ \/ /\ Update(d, [ delivery[d] EXCEPT !.create = "failed" ])
          /\ UNCHANGED made
       \/ /\ ~ (Fresh \subseteq made)
          /\ LET t == CHOOSE f \in Fresh : f \notin made
             IN  /\ Update(d, [ delivery[d] EXCEPT !.create = "complete", !.own = t ])
                 /\ made' = made \cup { t }
    /\ UNCHANGED << target, dead >>

\* The text is posted; a dead thread answers "unknown channel"; or it fails.
SendSettles(d) ==
    /\ delivery[d].send = "queued"
    /\ \E s \in { IF delivery[d].to \in dead THEN "unavailable" ELSE "complete", "failed" } :
         Update(d, [ delivery[d] EXCEPT !.send = s ])
    /\ UNCHANGED << target, made, dead >>

ThreadDies(t) ==
    /\ t \in (made \cap Mortal) \ dead
    /\ dead' = dead \cup { t }
    /\ UNCHANGED << target, delivery, made >>

---------------------------------------------------------------------------
(***************************************************************************)
(* prepare_text_delivery_job.                                               *)
(***************************************************************************)

Prepares(d) == delivery[d].state = "queued"

\* repair_text_delivery_unavailable_thread_failures: the session forgets every
\* thread a send of this delivery could not reach.
Unreached(d) == delivery[d].lost
                  \cup (IF delivery[d].send = "unavailable" THEN { delivery[d].to } ELSE {})
Repaired(d) == IF target \in Unreached(d) THEN NoThread ELSE target

\* Of a settled delivery only the place where it was read matters.
Settle(d, s) ==
    Update(d, IF s = "failed" THEN [ Blank EXCEPT !.state = s ]
              ELSE [ Blank EXCEPT !.state = s, !.send = "complete", !.to = delivery[d].to ])

DependencyFailed(d) ==
    /\ Prepares(d)
    /\ delivery[d].create = "failed" \/ delivery[d].send = "failed"
    /\ target' = Repaired(d)
    /\ Settle(d, "failed")
    /\ UNCHANGED << made, dead >>

Delivered(d) ==
    /\ Prepares(d) /\ delivery[d].send = "complete"
    /\ target' = Repaired(d)
    /\ Settle(d, "complete")
    /\ UNCHANGED << made, dead >>

NeedsTarget(d) ==
    /\ Prepares(d)
    /\ delivery[d].create \in { Gone, "complete" }
    /\ delivery[d].send \in { Gone, "unavailable" }

SendTo(d, t) ==
    Update(d, [ delivery[d] EXCEPT !.state = "waiting", !.send = "queued", !.to = t,
                                   !.lost = Unreached(d) ])

\* Mutant: a delivery prefers the thread it made to the one the session has.
SendToOwn(d) ==
    /\ NeedsTarget(d) /\ delivery[d].create = "complete"
    /\ target' = delivery[d].own
    /\ SendTo(d, target')
    /\ UNCHANGED << made, dead >>

SendToSession(d) ==
    /\ NeedsTarget(d) /\ Repaired(d) # NoThread
    /\ target' = Repaired(d)
    /\ SendTo(d, target')
    /\ UNCHANGED << made, dead >>

\* The first thread child of this delivery gives the session its thread.
SendToCreated(d) ==
    /\ NeedsTarget(d) /\ Repaired(d) = NoThread
    /\ delivery[d].create = "complete"
    /\ target' = delivery[d].own
    /\ SendTo(d, target')
    /\ UNCHANGED << made, dead >>

AskForThread(d) ==
    /\ NeedsTarget(d) /\ Repaired(d) = NoThread /\ delivery[d].create = Gone
    /\ target' = NoThread
    /\ Update(d, [ delivery[d] EXCEPT !.state = "waiting", !.create = "queued",
                                      !.lost = Unreached(d), !.send = Gone ])
    /\ UNCHANGED << made, dead >>

\* mark_agent_session_thread_unavailable, by whoever was told so by Discord.
ForgetThread(t) == target' = IF target = t THEN NoThread ELSE target

Submit(d) ==
    /\ delivery[d].state = Gone
    /\ \A e \in Delivery : e < d => delivery[e].state # Gone
    /\ Update(d, [ Blank EXCEPT !.state = "queued" ])

HandleDelivery(d) ==
    \/ DependencyFailed(d) \/ Delivered(d)
    \/ SendToSession(d) \/ SendToCreated(d) \/ AskForThread(d)

ChildStep(d) == CreateSettles(d) \/ SendSettles(d)

\* The session may already have a thread.
DeliveryInit ==
    /\ target \in Existing \cup { NoThread }
    /\ made = { target } \ { NoThread }
    /\ delivery = [ d \in Delivery |-> Blank ]
    /\ dead = {}

---------------------------------------------------------------------------
(***************************************************************************)
(* Properties.                                                              *)
(***************************************************************************)

DeliveryTypeOK ==
    /\ target \in Thread \cup { NoThread }
    /\ delivery \in [ Delivery -> DeliveryJob ]
    /\ made \in SUBSET Thread
    /\ dead \in SUBSET made

\* What a session says is read in one place: two deliveries that were posted
\* are in the same thread unless Discord lost one, however many deliveries were
\* on their way when the first thread was allocated (resolve_agent_session_target).
OneConversation ==
    \A d, e \in Delivery :
        delivery[d].send = "complete" /\ delivery[e].send = "complete" =>
            delivery[d].to = delivery[e].to \/ { delivery[d].to, delivery[e].to } \cap dead # {}
=============================================================================
