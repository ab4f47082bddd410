----------------------------- MODULE MCWakeActivation -----------------------------
(* Two wakes of one speaker, and what she says. *)
EXTENDS WakeActivation

mcWakerOf == [ w \in Wake |-> "waker" ]
mcVoiceOf == [ s \in Segment |-> "waker" ]

\* Bound: a second stretch of speech is short, begins when the first is
\* transcribed, and meets neither a second wake nor a crash.
Brief ==
    speech'[2].stage # "silent" =>
      /\ speech[1].stage = "published" /\ speech'[2].end = speech'[2].start
      /\ wakes'[2].stage = "unheard" /\ crashes' = 0

\* Bound: the crash catches a handler at work.
Untimely == crashes' # crashes => \E k \in Worker : worker[k].stage # "idle"

\* Bound: of the idle workers the first claims.
InTurn ==
    \A k \in Worker :
      worker'[k].stage = "start" /\ worker[k].stage = "idle" =>
        \A i \in Worker : i < k => worker[i].stage # "idle"

\* Bound: two handlers at once, and a handler whose last write comes in a later
\* tick than its claim, meet neither speech nor a crash.
Alone ==
    \/ \A k \in Worker : worker'[k].stage # "idle"
    \/ now' # now /\ \E k \in Worker : worker[k].stage # "idle"
    => crashes' = 0 /\ \A s \in Segment : speech'[s].stage = "silent"

\* Bound: the clock starts with the first wake and the runtime keeps up with it.
\* Handlers have only their last write to do when the tick of their claim ends,
\* due rows are claimed in theirs, and of a wake's steps only the first may be a
\* tick apart.
Prompt ==
    now' # now =>
      /\ wakes[1].stage # "unheard"
      /\ \A k \in Worker : worker[k].stage \in { "idle", "finish" }
      /\ \A j \in DOMAIN rows : rows[j].state = "queued" => rows[j].due > now \/ KeyHeld
      /\ \A w \in Wake : wakes[w].stage \notin { "listed", "chosen", "create", "amend", "root", "replace" }
=============================================================================
