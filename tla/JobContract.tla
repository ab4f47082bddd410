---------------------------- MODULE JobContract ----------------------------
(***************************************************************************)
(* What the job engine promises, with no table, drain or worker in it: jobs *)
(* enter, are executed under exclusive ordering keys, wait for the children *)
(* they emit, and settle once and for all.                                  *)
(***************************************************************************)
EXTENDS Naturals, Sequences

CONSTANTS
    Job,         \* the jobs
    NoKey,       \* the key of jobs that need no exclusion
    KeyOf,       \* [Job -> keys and NoKey]
    Reserving    \* jobs that keep their key while they are parked

VARIABLES
    status,      \* [Job -> what the job is doing]
    needs        \* set of <<parent, child>>: what an unsettled job waits for

vars == << status, needs >>

Status == { "none", "ready", "active", "parked", "settled" }

Init == status = [ j \in Job |-> "none" ] /\ needs = {}

\* j owns its ordering key.
Owns(j) ==
    /\ KeyOf[j] # NoKey
    /\ status[j] = "active" \/ (status[j] = "parked" /\ j \in Reserving)

NeedsMet(j) == \A c \in Job : << j, c >> \in needs => status[c] = "settled"

Enter(j) ==
    /\ status[j] = "none"
    /\ status' = [ status EXCEPT ![j] = "ready" ]
    /\ UNCHANGED needs

\* Ready jobs become active together, each taking a key that nobody owns.
Begin(batch) ==
    /\ \A j \in batch : status[j] = "ready"
    /\ \A j \in batch : KeyOf[j] # NoKey =>
         /\ \A i \in Job : Owns(i) => KeyOf[i] # KeyOf[j]
         /\ \A i \in batch : i # j => KeyOf[i] # KeyOf[j]
    /\ status' = [ j \in Job |-> IF j \in batch THEN "active" ELSE status[j] ]
    /\ UNCHANGED needs

\* An active job emits a child and waits for it.
Park(p, c) ==
    /\ status[p] = "active" /\ status[c] = "none"
    /\ status' = [ status EXCEPT ![p] = "parked", ![c] = "ready" ]
    /\ needs' = needs \cup { << p, c >> }

\* An active job is to be tried again; a parked one is, once its needs are met.
Again(j) ==
    /\ status[j] = "active" \/ (status[j] = "parked" /\ NeedsMet(j))
    /\ status' = [ status EXCEPT ![j] = "ready" ]
    /\ UNCHANGED needs

\* Jobs settle, from execution or from parking once their needs are met: one at
\* a time while the engine runs, together when it is started again.
Settle(batch) ==
    /\ \A j \in batch : status[j] = "active" \/ (status[j] = "parked" /\ NeedsMet(j))
    /\ status' = [ j \in Job |-> IF j \in batch THEN "settled" ELSE status[j] ]
    /\ needs' = { e \in needs : e[1] \notin batch }

Next ==
    \/ \E j \in Job : Enter(j) \/ Again(j)
    \/ \E batch \in SUBSET Job : Begin(batch) \/ Settle(batch)
    \/ \E p, c \in Job : Park(p, c)

Spec == Init /\ [][Next]_vars
===========================================================================
