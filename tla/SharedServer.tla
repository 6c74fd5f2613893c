----------------------------- MODULE SharedServer -----------------------------
(* What docs/local-model-startup.md promises of the model server, without the  *)
(* lock, the port, the probes, the supervisors and the pipes: a server is      *)
(* launched only when none is up, each session launches at most one and before *)
(* it is answered, the session that launched is the one told that it owns the  *)
(* server, and a session that did not launch can only attach or fail.          *)
CONSTANTS Clients, Nobody

VARIABLES
    serving,    \* the session whose server is up
    launched,   \* the sessions that have launched a server
    told        \* what each session has been told

-----------------------------------------------------------------------------
Init ==
    /\ serving = Nobody
    /\ launched = {}
    /\ told = [c \in Clients |-> "none"]

Launch(c) ==
    /\ serving = Nobody
    /\ c \notin launched /\ told[c] = "none"
    /\ serving' = c
    /\ launched' = launched \cup {c}
    /\ UNCHANGED told

\* The server is stopped, or crashes.
Stop ==
    /\ serving # Nobody
    /\ serving' = Nobody
    /\ UNCHANGED <<launched, told>>

Tell(c, line) ==
    /\ told[c] = "none"
    /\ told' = [told EXCEPT ![c] = line]
    /\ UNCHANGED <<serving, launched>>

\* Its own server is up, or has just crashed; nobody else's can be.
TellOwned(c) == c \in launched /\ serving \in {c, Nobody} /\ Tell(c, "owned")

TellAttached(c) == c \notin launched /\ Tell(c, "attached")

\* A failed launch is over before it is reported.
TellError(c) == serving # c /\ Tell(c, "error")

Next ==
    \/ \E c \in Clients : \/ Launch(c)
                          \/ TellOwned(c) \/ TellAttached(c) \/ TellError(c)
    \/ Stop

Spec == Init /\ [][Next]_<<serving, launched, told>>
=============================================================================
