----------------------------- MODULE LogStream -----------------------------
(***************************************************************************)
(* What the creation stream promises (handlers/terminal.go, CreationStream *)
(* and services/creation_log.go): whoever watches a creation sees its      *)
(* lines in order, without gaps unless it is too slow, and is told the end *)
(* only after the last one.                                                *)
(***************************************************************************)
EXTENDS Naturals

CONSTANTS Viewers, MaxLines

VARIABLES
    logged,    \* the number of lines of the log
    finished,  \* the creation is over
    state,     \* "off", "on" or "told" (the end)
    seen,      \* the last line a viewer has seen
    slow       \* the viewer has missed lines

vars == <<logged, finished, state, seen, slow>>

Init ==
    /\ logged = 0 /\ finished = FALSE
    /\ state = [v \in Viewers |-> "off"]
    /\ seen = [v \in Viewers |-> 0]
    /\ slow = [v \in Viewers |-> FALSE]

\* A line is added; any viewer that is watching may miss it.
AddLine ==
    /\ ~finished /\ logged < MaxLines
    /\ logged' = logged + 1
    /\ slow' \in [Viewers -> BOOLEAN]
    /\ \A v \in Viewers : slow'[v] # slow[v] => slow'[v] /\ state[v] = "on"
    /\ UNCHANGED <<finished, state, seen>>

Finish ==
    /\ ~finished
    /\ finished' = TRUE
    /\ UNCHANGED <<logged, state, seen, slow>>

Watch(v) ==
    /\ state[v] = "off"
    /\ state' = [state EXCEPT ![v] = "on"]
    /\ UNCHANGED <<logged, finished, seen, slow>>

See(v) ==
    /\ state[v] = "on"
    /\ \E n \in seen[v] + 1 .. logged :
         /\ ~slow[v] => n = seen[v] + 1
         /\ seen' = [seen EXCEPT ![v] = n]
    /\ UNCHANGED <<logged, finished, state, slow>>

BeTold(v) ==
    /\ state[v] = "on" /\ finished
    /\ ~slow[v] => seen[v] = logged
    /\ state' = [state EXCEPT ![v] = "told"]
    /\ UNCHANGED <<logged, finished, seen, slow>>

Leave(v) ==
    /\ state[v] # "off"
    /\ state' = [state EXCEPT ![v] = "off"]
    /\ seen' = [seen EXCEPT ![v] = 0]
    /\ slow' = [slow EXCEPT ![v] = FALSE]
    /\ UNCHANGED <<logged, finished>>

\* The log is kept in memory only.
Restart == /\ logged' = 0 /\ finished' = FALSE
           /\ state' = [v \in Viewers |-> "off"]
           /\ seen' = [v \in Viewers |-> 0]
           /\ slow' = [v \in Viewers |-> FALSE]

Next == \/ AddLine \/ Finish \/ Restart
        \/ \E v \in Viewers : Watch(v) \/ See(v) \/ BeTold(v) \/ Leave(v)

Spec == Init /\ [][Next]_vars
=============================================================================
