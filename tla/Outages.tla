------------------------------- MODULE Outages -------------------------------
(***************************************************************************)
(* What Alerting promises to the people who watch a monitor, without its   *)
(* tables: a ledger of outages, and for each one who was paged and who was *)
(* told that it is over.                                                   *)
(*                                                                         *)
(* A monitor has one current outage while it is down and none otherwise.   *)
(* People are paged once for an outage, and told of its end once, at the   *)
(* moment it ends, if it was announced.  One that began inside a           *)
(* maintenance window is announced to nobody.                              *)
(***************************************************************************)
CONSTANTS
    Monitors,   \* monitor ids
    Channels,   \* where people are reached
    Ids         \* outage ids

VARIABLES
    down,       \* monitors that are down
    outages,    \* id -> [monitor, planned, announced, over]
    paged,      \* pairs <<outage, channel>>: who was told that it began
    cleared     \* pairs <<outage, channel>>: who was told that it is over

vars == <<down, outages, paged, cleared>>

Outage == [monitor : Monitors, planned : BOOLEAN, announced : BOOLEAN, over : BOOLEAN]

Current(m) == {i \in DOMAIN outages : outages[i].monitor = m /\ ~outages[i].over}

-----------------------------------------------------------------------------

\* An outage begins.  It may be announced at once, or later, or never.
Begins(m, i) ==
    /\ m \notin down /\ Current(m) = {} /\ i \notin DOMAIN outages
    /\ down' = down \cup {m}
    /\ cleared' = cleared
    /\ \E planned, announced \in BOOLEAN :
          /\ planned => ~announced
          /\ outages' = [j \in DOMAIN outages \cup {i} |->
                IF j = i THEN [monitor |-> m, planned |-> planned,
                               announced |-> announced, over |-> FALSE]
                         ELSE outages[j]]
          /\ IF announced THEN \E told \in SUBSET Channels : paged' = paged \cup ({i} \X told)
                          ELSE paged' = paged

\* A delayed announcement of an outage that began outside windows.  It may come
\* when the outage is already over.
Pages(i) ==
    /\ i \in DOMAIN outages /\ ~outages[i].planned
    /\ outages' = [outages EXCEPT ![i].announced = TRUE]
    /\ UNCHANGED <<down, cleared>>
    /\ \E told \in SUBSET Channels : paged' = paged \cup ({i} \X told)

\* The current outage of m ends.  Only if it was announced anybody is told.
Ends(m, i) ==
    /\ m \in down /\ Current(m) = {i}
    /\ outages' = [outages EXCEPT ![i].over = TRUE]
    /\ down' = down \ {m}
    /\ paged' = paged
    /\ IF outages[i].announced
         THEN \E told \in SUBSET Channels : cleared' = cleared \cup ({i} \X told)
         ELSE cleared' = cleared

\* A monitor is deleted and its history goes with it.
Forgets(m) ==
    LET kept == {i \in DOMAIN outages : outages[i].monitor # m}
    IN  /\ outages' = [i \in kept |-> outages[i]]
        /\ down' = down \ {m}
        /\ paged' = {p \in paged : p[1] \in kept}
        /\ cleared' = {p \in cleared : p[1] \in kept}

\* A channel is deleted, with what it was told.
Disconnects(c) ==
    /\ paged' = {p \in paged : p[2] # c}
    /\ cleared' = {p \in cleared : p[2] # c}
    /\ UNCHANGED <<down, outages>>

-----------------------------------------------------------------------------

Init ==
    /\ down = {}
    /\ outages = [i \in {} |-> 0]
    /\ paged = {} /\ cleared = {}

Next ==
    \/ \E i \in Ids :
          \/ \E m \in Monitors : Begins(m, i) \/ Ends(m, i)
          \/ Pages(i)
    \/ \E m \in Monitors : Forgets(m)
    \/ \E c \in Channels : Disconnects(c)

Spec == Init /\ [][Next]_vars
=============================================================================
