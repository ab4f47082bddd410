----------------------------- MODULE MCAutomations -----------------------------
EXTENDS Automations, TLC

Rule == [ listens |-> {}, interval |-> 1, delay |-> 0, max_fires |-> 2, expires_at |-> Never,
          executable |-> TRUE, source |-> "task", key |-> "k" ]

\* Rules of one agent task: one that also hears its own fires, one with a delayed
\* recheck and an expiry, and one that fires by the clock, under another key.
MCSpecOf ==
    ("echo" :> [ Rule EXCEPT !.listens = { "joined", Fired } ])
    @@ ("later" :> [ Rule EXCEPT !.listens = { "joined" }, !.delay = 1, !.max_fires = 1,
                                 !.expires_at = 3 ])
    @@ ("clock" :> [ Rule EXCEPT !.key = "other" ])

\* Bound: two of the rules are submitted, and one is cancelled; nothing is
\* submitted, cancelled or appended by others once the last tick has begun.
Few ==
    /\ now = LastTick => UNCHANGED << requests, cancels, outside >>
    /\ Cardinality({ a \in Automation : requests'[a] # "new" }) <= 2
    /\ Cardinality({ a \in Automation : cancels'[a].stage # "none" }) <= 1
=============================================================================
