---------------------------- MODULE InstanceBook ----------------------------
(***************************************************************************)
(* What Plati promises of its instances while no two requests work on the  *)
(* same one.  A request takes the instance of a key - a server and a name  *)
(* - works on it, and leaves it: with a status that tells the truth about  *)
(* the virtual machine, decided, and with the homes of its user untouched  *)
(* unless the instance is gone.  Everything else stays as it was.  A key   *)
(* that a rename touches goes off the book, with what was at it.           *)
(***************************************************************************)
CONSTANTS
    Keys,   \* the places an instance can be at
    Ids,    \* the instances there ever are
    Devs,   \* the dirs an instance keeps on volumes
    None    \* no key

VARIABLES
    status,  \* of every instance: "unused" before, "deleted" after its life,
             \* "off" when it went off the book
    key,     \* where it is
    vm,      \* the virtual machine of a key
    homes,   \* the volumes <<key, dir>> that hold the data of an instance
    held     \* the keys that a request works on

vars == <<status, key, vm, homes, held>>

Alive(i)  == status[i] \notin {"unused", "deleted", "off"}
Exists(k) == \E i \in Ids : Alive(i) /\ key[i] = k

Init ==
    /\ \A i \in Ids : status[i] = "unused"
    /\ vm = [k \in Keys |-> "absent"]
    /\ homes = {}
    /\ held = {}

-----------------------------------------------------------------------------
(* The life of an instance: an id is used once, and what has been decided  *)
(* is not undecided again.                                                 *)

Others(i) == \A j \in Ids : j # i => status'[j] = status[j] /\ key'[j] = key[j]

Enter(k, i) ==
    /\ status[i] = "unused" /\ ~Exists(k)
    /\ status'[i] \in {"creating", "running"} /\ key'[i] = k
    /\ Others(i)
Settle(k, i) ==
    /\ Alive(i) /\ key[i] = k
    /\ status'[i] \in {"running", "stopped", "error"} /\ key'[i] = k
    /\ Others(i)
Strike(k, i) ==
    /\ Alive(i) /\ key[i] = k
    /\ status'[i] = "deleted" /\ key'[i] = k
    /\ Others(i)

Live(k) == \/ \E i \in Ids : Enter(k, i) \/ Settle(k, i) \/ Strike(k, i)
           \/ UNCHANGED <<status, key>>

-----------------------------------------------------------------------------
(* What a request may do to the machine and the volumes of its key.        *)

\* Homes appear and go at the key of the request, and go only when no
\* instance is left there.
KeepHomes(k) ==
    /\ \A x \in homes \ homes' : x[1] = k /\ ~Exists(k)'
    /\ \A x \in homes' \ homes : x[1] = k

\* Nobody works on k any more: the status says how the machine is.
Truthful(k) ==
    \A i \in Ids : key[i] = k =>
        /\ status[i] # "creating"
        /\ status[i] = "running" => vm[k] = "running"
        /\ status[i] = "stopped" => vm[k] = "stopped"

Take(k) ==
    /\ k \notin held
    /\ held' = held \cup {k}
    /\ UNCHANGED <<status, key, vm, homes>>

Work(k) ==
    /\ k \in held
    /\ Live(k)
    /\ \A j \in Keys \ {k} : vm'[j] = vm[j]
    /\ KeepHomes(k)
    /\ held' = held \/ (held' = held \ {k} /\ Truthful(k)')

\* A rename gives up the names of an instance; and what is begun at such a name
\* later does not enter the book.
GiveUp(ks) ==
    /\ \A i \in Ids :
         \/ /\ key[i] \in ks \/ status[i] = "unused"
            /\ status'[i] = "off" /\ key'[i] = None
         \/ /\ key[i] \notin ks
            /\ status'[i] = status[i] /\ key'[i] = key[i]
    /\ vm' = [k \in Keys |-> IF k \in ks THEN "off" ELSE vm[k]]
    /\ homes' = {x \in homes : x[1] \notin ks}
    /\ held' = held \ ks

Next == (\E k \in Keys : Take(k) \/ Work(k)) \/ \E ks \in SUBSET Keys : GiveUp(ks)

Spec == Init /\ [][Next]_vars
=============================================================================
