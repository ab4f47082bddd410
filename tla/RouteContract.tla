---------------------------- MODULE RouteContract ----------------------------
(***************************************************************************)
(* What agent sessions promise their routes: a route (a voice channel or a  *)
(* DM) is served by one session or by nobody, and goes from one session to  *)
(* another only by way of nobody; a session serves one route at a time.     *)
(* The promise ends for a route on which a session returns that had left.   *)
(***************************************************************************)
CONSTANTS Session, Route, Nobody

VARIABLES
    serving,    \* [Route -> Session \cup {Nobody}]
    disputed    \* routes on which a session has returned

\* A session starts, or is resumed, on a route nobody serves; it may leave
\* another route for it.
Open(r, s) ==
    /\ serving[r] = Nobody /\ r \notin disputed
    /\ serving' = [ q \in Route |-> IF q = r THEN s
                                    ELSE IF serving[q] = s THEN Nobody ELSE serving[q] ]
    /\ UNCHANGED disputed

\* A session is retired, or its time is over.
Close(r) ==
    /\ serving' = [ serving EXCEPT ![r] = Nobody ]
    /\ UNCHANGED disputed

\* A session that does not serve the route is put back on it beside whoever does.
Return(r, s) ==
    /\ serving[r] # s
    /\ disputed' = disputed \cup { r }
    /\ serving' = [ q \in Route |-> IF q = r \/ serving[q] = s THEN Nobody ELSE serving[q] ]

Init == serving = [ r \in Route |-> Nobody ] /\ disputed = {}

Next == \E r \in Route : Close(r) \/ \E s \in Session : Open(r, s) \/ Return(r, s)

Spec == Init /\ [][Next]_<< serving, disputed >>
=============================================================================
