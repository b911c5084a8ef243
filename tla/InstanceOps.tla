------------------------------ MODULE InstanceOps ------------------------------
(***************************************************************************)
(* What is done to instances that exist: renaming one, with or without its *)
(* container; handing one over to another account; setting its limits, by  *)
(* the Resources tab or by the raw Incus form; starting and stopping it;   *)
(* installing a key; restoring a snapshot of its volume.  New instances    *)
(* come to be in two steps, the row and all the rest: the calls between    *)
(* are those of InstanceLifecycle.                                         *)
(*                                                                         *)
(* Every request works on a copy of the row that it has read, writes the   *)
(* database and asks Incus in turn, and most carry on after a failure.  A  *)
(* display name stands for the host name sanitizeName makes of it, one     *)
(* limit for the two of CPU and memory, and one server for them all.       *)
(***************************************************************************)
EXTENDS Naturals, FiniteSets

CONSTANTS
    Insts,
    Users,
    Keys,        \* bodies of public keys
    MaxName,     \* names: n, and n + 1 for the "-2" that follows it
    Limits,      \* overrides
    Template,    \* the template's limit
    Unset,       \* the empty string
    Given,       \* the instances at the start: owner and name of each
    Admins,      \* the users who are administrators
    GivenKeys,   \* the keys that users have registered at the start
    Jobs,        \* requests at once, numbered
    MaxRequests, \* a bound on the requests, restarts and faults of Incus
    None

ASSUME OpsAssumption ==
    /\ Unset \notin Limits \cup {Template} /\ None \notin Insts
    /\ MaxName \in Nat /\ MaxRequests \in Nat /\ Jobs \subseteq Nat
    /\ GivenKeys \in [Users -> SUBSET Keys]
ASSUME GivenAssumption ==
    /\ DOMAIN Given \subseteq Insts /\ Given \in [DOMAIN Given -> Users \X (1..MaxName)]
    /\ \A i, j \in DOMAIN Given : Given[i] = Given[j] => i = j
    /\ Users # {} /\ MaxName > 0 /\ Admins \subseteq Users

VARIABLES
    row,     \* table instances
    cont,    \* the containers, by incus_name
    own,     \* table ssh_keys, by user
    job,
    making,  \* the creations under way, by instance
    made,    \* the number of requests, restarts and faults so far
    loose,   \* history: requests on the instance have overlapped, or one was
             \* cut short between Incus and the database, or one meant for
             \* another instance has found this one's container, or another
             \* container has come to have its name
    behind,  \* history: a change of the row did not reach the container
    kept,    \* history: keys of a previous owner may stay
    raced,   \* history: accounts in which two names were chosen at once
    clashed, \* history: instances whose host name another had when they were
             \* created, and that have not been given another since
    dropped, \* history: keys that an account has deleted
    granted, \* history: keys of other accounts put into an instance
    torn     \* history: a volume was restored under a running container

history == <<loose, behind, kept, raced, clashed, dropped, granted, torn>>
vars == <<row, cont, own, job, making, made, history>>
\* What few actions change.
rest == <<making, clashed, dropped, granted>>

Names == 1..MaxName
IncusNames == Users \X Names   \* plati-<user>-<host name>
\* "none": there is no row.
Statuses == {"none", "creating", "running", "stopped", "error"}
Row == [owner : Users, name : Names, key : IncusNames, status : Statuses,
        limit : Limits \cup {Unset}]
Container == [of : Insts \cup {None}, on : BOOLEAN, host : Names,
              limit : Limits \cup {Template, Unset}, keys : SUBSET Keys]
Absent == [of |-> None, on |-> FALSE, host |-> 1, limit |-> Unset, keys |-> {}]
\* What a creation has taken down: the container's name and settings, and the
\* keys of the account.
Creation == [key : IncusNames, host : Names, limit : Limits \cup {Unset}, keys : SUBSET Keys]
NoCreation == [key |-> None]
\* A request: the row as it read it (owner, name, key, status), and what it is
\* to do: the host name, account, limit, keys, and whether to rename the
\* container; was: it was running.
Idle == [op |-> "none", pc |-> "idle"]
Request == [op : {"rename", "transfer", "resources", "config", "start", "stop",
                  "key", "restore"},
            pc : {"name", "owner", "rename", "stop", "stopped", "move", "record",
                  "restart", "started", "host", "install", "revoke", "apply", "raw",
                  "store", "add", "restore"},
            id : Insts, owner : Users, name : Names, key : IncusNames, status : Statuses,
            host : Names, user : Users, limit : Limits \cup {Unset}, keys : SUBSET Keys,
            container : BOOLEAN, was : BOOLEAN]

Exists(i) == row[i].status # "none"
Making(i) == making[i] # NoCreation
Live(k) == cont[k].of # None
Running(k) == Live(k) /\ cont[k].on
Busy == {p \in Jobs : job[p].pc # "idle"}
OnInst(i) == {p \in Busy : job[p].id = i}

\* The state is well typed, no two instances have the same incus_name, and
\* requests, creations and containers are those of rows that there are.
TypeOK ==
    /\ row \in [Insts -> Row]
    /\ \A i, j \in Insts : Exists(i) /\ Exists(j) /\ row[i].key = row[j].key => i = j
    /\ cont \in [IncusNames -> Container]
    /\ \A k \in IncusNames : Live(k) => Exists(cont[k].of)
    /\ own \in [Users -> SUBSET Keys]
    /\ job \in [Jobs -> Request \cup {Idle}]
    /\ \A p \in Busy : Exists(job[p].id)
    /\ making \in [Insts -> Creation \cup {NoCreation}]
    /\ \A i \in Insts : Making(i) => Exists(i)
    /\ made \in 0..MaxRequests
    /\ loose \subseteq Insts /\ behind \subseteq Insts /\ kept \subseteq Insts
    /\ torn \subseteq Insts /\ raced \subseteq Users /\ clashed \subseteq Insts
    /\ dropped \subseteq Keys /\ granted \subseteq Insts \X Keys

NoRow == [owner |-> CHOOSE u \in Users : TRUE, name |-> 1,
          key |-> <<CHOOSE u \in Users : TRUE, 1>>, status |-> "none", limit |-> Unset]
\* Instances as their creation leaves them, running, and others yet to come.
Init ==
    /\ row = [i \in Insts |->
                 IF i \in DOMAIN Given
                 THEN [owner |-> Given[i][1], name |-> Given[i][2], key |-> Given[i],
                       status |-> "running", limit |-> Unset]
                 ELSE NoRow]
    /\ cont = [k \in IncusNames |->
                 IF \E i \in DOMAIN Given : Given[i] = k
                 THEN [of |-> CHOOSE i \in DOMAIN Given : Given[i] = k, on |-> TRUE, host |-> k[2],
                       limit |-> Template, keys |-> GivenKeys[k[1]]]
                 ELSE Absent]
    /\ own = GivenKeys /\ job = [p \in Jobs |-> Idle] /\ made = 0
    /\ making = [i \in Insts |-> NoCreation]
    /\ loose = {} /\ behind = {} /\ kept = {} /\ raced = {} /\ clashed = {}
    /\ dropped = {} /\ granted = {} /\ torn = {}

-----------------------------------------------------------------------------
(* Control, queries and Incus.                                             *)

Asked == made < MaxRequests /\ made' = made + 1
Free(p) == p \notin Busy /\ \A q \in Jobs : q < p => q \in Busy
Become(p, j) == job' = [job EXCEPT ![p] = j]
Goto(p, l) == Become(p, [job[p] EXCEPT !.pc = l])
Done(p) == Become(p, Idle)
\* GetInstanceForActor: the request reads the row it is to work with.
Read(i, o, l) ==
    [op |-> o, pc |-> l, id |-> i, owner |-> row[i].owner, name |-> row[i].name,
     key |-> row[i].key, status |-> row[i].status, host |-> row[i].name,
     user |-> row[i].owner, limit |-> Unset, keys |-> {}, container |-> FALSE, was |-> FALSE]
Overlap(i) == loose' = IF OnInst(i) = {} /\ ~Making(i) THEN loose ELSE loose \cup {i}

\* instanceResources: the override, or else the template's limit.
Effective(l) == IF l = Unset THEN Template ELSE l

\* The host name is that of another instance of the account.
Of(u) == {j \in Insts : Exists(j) /\ row[j].owner = u}
Taken(u, n, i) == \E j \in Of(u) \ {i} : row[j].name = n
IncusNameTaken(i, k) == \E j \in Insts \ {i} : Exists(j) /\ row[j].key = k

\* Mutant: the name as it is.
FreeNameUnchecked(u, n, m) == m = n
\* freeInstanceName: the first name from n on that the account does not use.
FreeName(u, n, m) ==
    /\ m >= n
    /\ \A j \in Of(u) : row[j].name # m
    /\ \A l \in n..(m - 1) : \E j \in Of(u) : row[j].name = l

\* Not the keys that the new owner has as well, nor those no longer registered.
KeysToRevoke(previous, u) == own[previous] \ own[u]

\* installableKeys: the owner's, those of the administrators, and, for an
\* administrator, everyone's.
Installable(i, actor) ==
    UNION {own[u] : u \in IF actor \in Admins THEN Users ELSE Admins \cup {row[i].owner}}

\* A choice of name in u's account is being written.
Naming(p, u) ==
    \/ job[p].pc = "name" /\ job[p].owner = u
    \/ job[p].pc = "owner" /\ job[p].user = u
Named(p, u) ==
    raced' = IF \E q \in Jobs \ {p} : Naming(q, u) THEN raced \cup {u} ELSE raced

\* A call to Incus on a container by the name that a request has read: it may
\* have become that of another instance.
Touch(p, k) ==
    loose' = loose \cup ({cont[k].of} \ {None, job[p].id})
\* The instances other than i whose rows have the name that a container gets.
Shadowed(i, l) == {h \in Insts \ {i} : Exists(h) /\ row[h].key = l}
Arrive(p, k, l) ==
    loose' = loose \cup ({cont[k].of} \ {None, job[p].id}) \cup Shadowed(job[p].id, l)
\* UpdateInstanceConfig of one field of a container.
SetConfig(p, k, c) ==
    Live(k) /\ cont' = [cont EXCEPT ![k] = c] /\ Touch(p, k) /\ UNCHANGED made
\* A call that fails: as the state has it, or else as one of the bounded faults.
Fails(possible) == (IF possible THEN Asked ELSE UNCHANGED made) /\ UNCHANGED <<cont, loose>>

-----------------------------------------------------------------------------
(* Requests.                                                               *)

\* Rename reads the row and the names of the owner's other instances.
BeginRename(p, i, n, c) ==
    /\ Asked /\ Free(p) /\ Exists(i) /\ (n # row[i].name \/ c) /\ ~Taken(row[i].owner, n, i)
    /\ Become(p, [Read(i, "rename", "name") EXCEPT !.host = n, !.container = c])
    /\ Overlap(i)
    /\ UNCHANGED <<row, cont, own, behind, kept, raced, rest, torn>>

\* TransferToUser reads the row, the names of the account it goes to, and the
\* keys of the account it leaves that the other has not.
BeginTransfer(p, i, u, c, keep) ==
    /\ Asked /\ Free(p) /\ Exists(i) /\ u # row[i].owner
    /\ \E m \in Names :
         /\ FreeName(u, row[i].name, m)
         /\ Become(p, [Read(i, "transfer", "owner") EXCEPT
                         !.host = m, !.user = u, !.container = c,
                         !.keys = IF keep THEN {} ELSE KeysToRevoke(row[i].owner, u)])
    /\ kept' = IF keep THEN kept \cup {i} ELSE kept
    /\ Overlap(i)
    /\ UNCHANGED <<row, cont, own, behind, raced, rest, torn>>

\* UpdateResources: the database first.
BeginResources(p, i, l) ==
    /\ Asked /\ Free(p) /\ Exists(i)
    /\ row' = [row EXCEPT ![i].limit = l]
    /\ Become(p, [Read(i, "resources", "apply") EXCEPT !.limit = l])
    /\ Overlap(i)
    /\ UNCHANGED <<cont, own, behind, kept, raced, rest, torn>>

BeginConfig(p, i, l) ==
    /\ Asked /\ Free(p) /\ Exists(i)
    /\ Become(p, [Read(i, "config", "raw") EXCEPT !.limit = l])
    /\ Overlap(i)
    /\ UNCHANGED <<row, cont, own, behind, kept, raced, rest, torn>>

BeginPower(p, i, o) ==
    /\ Asked /\ Free(p) /\ Exists(i)
    /\ Become(p, Read(i, o, IF o = "start" THEN "restart" ELSE "stop"))
    /\ Overlap(i)
    /\ UNCHANGED <<row, cont, own, behind, kept, raced, rest, torn>>

\* AddAuthorizedKey, by the owner or an administrator, of a key that they may
\* install, in an instance said to be running.
BeginKey(p, i, actor, k) ==
    /\ Asked /\ Free(p) /\ row[i].status = "running"
    /\ actor \in Admins \cup {row[i].owner} /\ k \in Installable(i, actor)
    /\ Become(p, [Read(i, "key", "add") EXCEPT !.keys = {k}])
    /\ granted' = IF k \in own[row[i].owner] THEN granted ELSE granted \cup {<<i, k>>}
    /\ Overlap(i)
    /\ UNCHANGED <<row, cont, own, making, behind, kept, raced, clashed, dropped, torn>>

\* Mutant: whatever the status.
BeginRestoreAnytime(p, i) ==
    /\ Asked /\ Free(p) /\ Exists(i)
    /\ Become(p, Read(i, "restore", "restore"))
    /\ Overlap(i)
    /\ UNCHANGED <<row, cont, own, behind, kept, raced, rest, torn>>
BeginRestore(p, i) ==
    /\ Asked /\ Free(p) /\ row[i].status \notin {"none", "running"}
    /\ Become(p, Read(i, "restore", "restore"))
    /\ Overlap(i)
    /\ UNCHANGED <<row, cont, own, behind, kept, raced, rest, torn>>

CreateSSHKey(u, k) ==
    /\ Asked /\ k \notin own[u]
    /\ own' = [own EXCEPT ![u] = @ \cup {k}]
    /\ UNCHANGED <<row, cont, job, making, history>>
\* Nothing reaches the containers that already have the key.
DeleteSSHKey(u, k) ==
    /\ Asked /\ k \in own[u]
    /\ own' = [own EXCEPT ![u] = @ \ {k}]
    /\ dropped' = dropped \cup {k}
    /\ UNCHANGED <<row, cont, job, making, loose, behind, kept, raced, clashed, granted, torn>>

\* The process stops: what its requests had under way is lost.
Crash ==
    /\ Asked /\ (Busy # {} \/ \E i \in Insts : Making(i))
    /\ job' = [p \in Jobs |-> Idle] /\ making' = [i \in Insts |-> NoCreation]
    /\ loose' = loose \cup {job[p].id : p \in {q \in Busy : job[q].pc \in {"stopped", "record", "started"}}}
    /\ behind' = behind \cup {job[p].id : p \in Busy}
    /\ kept' = kept \cup {job[p].id : p \in Busy}
    /\ UNCHANGED <<row, cont, own, raced, clashed, dropped, granted, torn>>

-----------------------------------------------------------------------------
(* CreateAsync: the row, and the goroutine that does the rest.             *)

\* The row is refused if another has its incus_name; no host name is looked at.
CreateAsync(i, u, n, l) ==
    /\ Asked /\ ~Exists(i) /\ ~IncusNameTaken(i, <<u, n>>)
    /\ row' = [row EXCEPT ![i] = [owner |-> u, name |-> n, key |-> <<u, n>>,
                                 status |-> "creating", limit |-> l]]
    /\ making' = [making EXCEPT ![i] = [key |-> <<u, n>>, host |-> n, limit |-> l, keys |-> own[u]]]
    /\ raced' = IF \E q \in Jobs : Naming(q, u) THEN raced \cup {u} ELSE raced
    /\ clashed' = IF Taken(u, n, i) THEN clashed \cup {i} ELSE clashed
    /\ loose' = IF Live(<<u, n>>) THEN loose \cup {i} ELSE loose
    /\ UNCHANGED <<cont, own, job, behind, kept, dropped, granted, torn>>

\* The container is made and started, with the keys that the script could put
\* there; or it is made and does not start; or it is refused.
FinishCreate(i) ==
    /\ Making(i)
    /\ making' = [making EXCEPT ![i] = NoCreation]
    /\ LET c == making[i]
           new == [of |-> i, on |-> FALSE, host |-> c.host, limit |-> Effective(c.limit), keys |-> {}] IN
       \/ \E K \in SUBSET c.keys :
            /\ ~Live(c.key) /\ IF K = c.keys THEN UNCHANGED made ELSE Asked
            /\ cont' = [cont EXCEPT ![c.key] = [new EXCEPT !.on = TRUE, !.keys = K]]
            /\ row' = [row EXCEPT ![i].status = "running"]
            /\ loose' = loose \cup Shadowed(i, c.key)
       \/ /\ ~Live(c.key) /\ Asked
          /\ cont' = [cont EXCEPT ![c.key] = new]
          /\ row' = [row EXCEPT ![i].status = "error"]
          /\ loose' = loose \cup Shadowed(i, c.key)
       \/ /\ IF Live(c.key) THEN UNCHANGED made ELSE Asked
          /\ row' = [row EXCEPT ![i].status = "error"]
          /\ UNCHANGED <<cont, loose>>
    /\ UNCHANGED <<own, job, behind, kept, raced, clashed, dropped, granted, torn>>

-----------------------------------------------------------------------------
(* Rename and TransferToUser: the row.                                     *)

\* Where the container is reached at all, its name comes first.
Reach(p, j) ==
    \/ /\ Become(p, [j EXCEPT !.pc = IF j.container THEN "rename" ELSE "host"])
       /\ UNCHANGED <<made, behind, kept>>
    \/ /\ Asked /\ Done(p)
       /\ behind' = behind \cup {j.id} /\ kept' = kept \cup {j.id}

\* UpdateInstanceName: WHERE id = ? AND user_id = ?
WriteName(p) ==
    /\ job[p].pc = "name"
    /\ LET i == job[p].id
           u == job[p].owner IN
       /\ row' = IF row[i].owner = u THEN [row EXCEPT ![i].name = job[p].host] ELSE row
       /\ clashed' = IF row[i].owner = u THEN clashed \ {i} ELSE clashed
       /\ Named(p, u)
       /\ Reach(p, [job[p] EXCEPT !.name = job[p].host])
    /\ UNCHANGED <<cont, own, making, loose, dropped, granted, torn>>

\* Mutant: incus_name with the owner, before the container has moved.
WriteOwnerKey(p) ==
    /\ job[p].pc = "owner"
    /\ LET i == job[p].id
           u == job[p].user IN
       /\ row' = [row EXCEPT ![i].owner = u, ![i].name = job[p].host, ![i].key = <<u, job[p].host>>]
       /\ clashed' = clashed \ {i}
       /\ Named(p, u)
       /\ Reach(p, [job[p] EXCEPT !.owner = u])
    /\ UNCHANGED <<cont, own, making, loose, dropped, granted, torn>>
\* TransferInstance: WHERE id = ?  The name as it was stays in the job,
\* to tell whether it has changed; the owner is the new one from here on.
WriteOwner(p) ==
    /\ job[p].pc = "owner"
    /\ LET i == job[p].id
           u == job[p].user IN
       /\ row' = [row EXCEPT ![i].owner = u, ![i].name = job[p].host]
       /\ clashed' = clashed \ {i}
       /\ Named(p, u)
       /\ Reach(p, [job[p] EXCEPT !.owner = u])
    /\ UNCHANGED <<cont, own, making, loose, dropped, granted, torn>>

-----------------------------------------------------------------------------
(* renameContainer, and the calls that Start and Stop share with it.       *)

NewKey(j) == <<j.owner, j.host>>
AfterRename(p) == Goto(p, "host")

\* A container of the right name is left alone, a name that is taken refused.
CheckKey(p) ==
    /\ job[p].pc = "rename"
    /\ LET j == job[p] IN
       IF NewKey(j) = j.key \/ IncusNameTaken(j.id, NewKey(j)) THEN AfterRename(p)
       ELSE IF j.status = "running" THEN Goto(p, "stop") ELSE Goto(p, "move")
    /\ UNCHANGED <<row, cont, own, made, making, history>>

\* StopInstance, of one that runs; a failure ends Stop and the renaming.
StopInstance(p) ==
    /\ job[p].pc = "stop"
    /\ LET k == job[p].key IN
       \/ /\ Running(k)
          /\ cont' = [cont EXCEPT ![k].on = FALSE]
          /\ Touch(p, k) /\ UNCHANGED made
          /\ Goto(p, "stopped")
       \/ /\ IF job[p].op = "stop" THEN Done(p) ELSE AfterRename(p)
          /\ Fails(Running(k))
    /\ UNCHANGED <<row, own, behind, kept, raced, rest, torn>>
Stopped(p) ==
    /\ job[p].pc = "stopped"
    /\ row' = [row EXCEPT ![job[p].id].status = "stopped"]
    /\ IF job[p].op = "stop" THEN Done(p)
       ELSE Become(p, [job[p] EXCEPT !.pc = "move", !.was = TRUE])
    /\ UNCHANGED <<cont, own, made, making, history>>

Restart(p, j) ==
    IF j.was THEN Become(p, [j EXCEPT !.pc = "restart"])
    ELSE Become(p, [j EXCEPT !.pc = "host"])

\* The table refuses a name that another row has.
Refused(j, l) == row[j.id].owner = j.owner /\ IncusNameTaken(j.id, l)

\* RenameInstance: Incus renames a container that is stopped, to a name that
\* is free.
Moved(k, l) == [cont EXCEPT ![l] = cont[k], ![k] = Absent]
MoveContainer(p) ==
    /\ job[p].pc = "move"
    /\ LET k == job[p].key
           l == NewKey(job[p]) IN
       \/ /\ Live(k) /\ ~cont[k].on /\ ~Live(l)
          /\ cont' = Moved(k, l)
          /\ Arrive(p, k, l) /\ UNCHANGED made
          /\ Goto(p, "record")
       \/ /\ Restart(p, job[p])
          /\ Fails(Live(k) /\ ~cont[k].on /\ ~Live(l))
    /\ UNCHANGED <<row, own, behind, kept, raced, rest, torn>>

\* Mutant: the container is not renamed back.
RecordKeyNoUndo(p) ==
    /\ job[p].pc = "record"
    /\ LET j == job[p]
           l == NewKey(j) IN
       \/ /\ Refused(j, l) = FALSE
          /\ row' = IF row[j.id].owner = j.owner THEN [row EXCEPT ![j.id].key = l] ELSE row
          /\ Restart(p, [j EXCEPT !.key = l])
          /\ UNCHANGED made
       \/ /\ IF Refused(j, l) THEN UNCHANGED made ELSE Asked
          /\ Restart(p, j)
          /\ UNCHANGED row
    /\ UNCHANGED <<cont, own, making, history>>
\* UpdateInstanceIncusName, WHERE id = ? AND user_id = ?, which may change no
\* row.  When it fails, the container is renamed back, if it can be.
RecordKey(p) ==
    /\ job[p].pc = "record"
    /\ LET j == job[p]
           k == j.key
           l == NewKey(j)
           back == Live(l) /\ ~cont[l].on /\ ~Live(k) IN
       \/ /\ ~Refused(j, l)
          /\ row' = IF row[j.id].owner = j.owner THEN [row EXCEPT ![j.id].key = l] ELSE row
          /\ Restart(p, [j EXCEPT !.key = l])
          /\ UNCHANGED <<cont, made, loose>>
       \/ /\ IF Refused(j, l) THEN UNCHANGED made ELSE Asked
          /\ Restart(p, j)
          /\ back /\ cont' = Moved(l, k)
          /\ Arrive(p, l, k)
          /\ UNCHANGED row
       \/ /\ IF Refused(j, l) /\ ~back THEN UNCHANGED made ELSE Asked
          /\ Restart(p, j)
          /\ loose' = loose \cup {j.id}
          /\ UNCHANGED <<row, cont>>
    /\ UNCHANGED <<own, behind, kept, raced, rest, torn>>

\* StartInstance, of one that does not run.
StartInstance(p) ==
    /\ job[p].pc = "restart"
    /\ LET k == job[p].key IN
       \/ /\ Live(k) /\ ~cont[k].on
          /\ cont' = [cont EXCEPT ![k].on = TRUE]
          /\ Touch(p, k) /\ UNCHANGED made
          /\ Goto(p, "started")
       \/ /\ IF job[p].op = "start" THEN Done(p) ELSE AfterRename(p)
          /\ Fails(Live(k) /\ ~cont[k].on)
    /\ UNCHANGED <<row, own, behind, kept, raced, rest, torn>>
Started(p) ==
    /\ job[p].pc = "started"
    /\ row' = [row EXCEPT ![job[p].id].status = "running"]
    /\ IF job[p].op = "start" THEN Done(p)
       ELSE Become(p, [job[p] EXCEPT !.pc = "host", !.status = "running"])
    /\ UNCHANGED <<cont, own, made, making, history>>

-----------------------------------------------------------------------------
(* The rest of Rename and TransferToUser: host name and keys.              *)

\* A rename sets PLATI_TAILSCALE_HOSTNAME always, a transfer where the name
\* has changed.  A transfer then sees to the keys, in a running instance.
AfterHost(p) ==
    IF job[p].op = "rename"
    THEN Done(p) /\ UNCHANGED kept
    ELSE IF job[p].status = "running"
         THEN Goto(p, "install") /\ UNCHANGED kept
         ELSE Done(p) /\ kept' = kept \cup {job[p].id}
SetHost(p) ==
    /\ job[p].pc = "host"
    /\ LET j == job[p]
           k == j.key IN
       \/ /\ j.op = "rename" \/ j.host # j.name
          /\ SetConfig(p, k, [cont[k] EXCEPT !.host = j.host])
          /\ UNCHANGED behind
       \/ /\ j.op = "rename" \/ j.host # j.name
          /\ behind' = behind \cup {j.id}
          /\ Fails(Live(k))
       \/ /\ j.op = "transfer" /\ j.host = j.name
          /\ UNCHANGED <<cont, made, behind, loose>>
    /\ AfterHost(p)
    /\ UNCHANGED <<row, own, raced, rest, torn>>

\* authorizedKeyScript for each key of the new owner: those that can be run.
InstallKeys(p) ==
    /\ job[p].pc = "install"
    /\ LET k == job[p].key IN
       \/ \E K \in SUBSET own[job[p].user] :
            /\ Running(k)
            /\ IF K # own[job[p].user] THEN Asked ELSE UNCHANGED made
            /\ cont' = [cont EXCEPT ![k].keys = @ \cup K]
            /\ Touch(p, k)
       \/ ~Running(k) /\ UNCHANGED <<cont, made, loose>>
    /\ IF job[p].keys = {} THEN Done(p) ELSE Goto(p, "revoke")
    /\ UNCHANGED <<row, own, behind, kept, raced, rest, torn>>

\* Mutant: the previous owner's keys stay.
RevokeKeysNone(p) ==
    /\ job[p].pc = "revoke"
    /\ Done(p)
    /\ UNCHANGED <<row, cont, own, made, making, history>>
\* revokeKeysScript.
RevokeKeys(p) ==
    /\ job[p].pc = "revoke"
    /\ LET k == job[p].key IN
       \/ /\ Running(k)
          /\ cont' = [cont EXCEPT ![k].keys = @ \ job[p].keys]
          /\ Touch(p, k)
          /\ granted' = granted \ ({job[p].id} \X job[p].keys)
          /\ UNCHANGED <<made, kept>>
       \/ /\ kept' = kept \cup {job[p].id}
          /\ Fails(Running(k))
          /\ UNCHANGED granted
    /\ Done(p)
    /\ UNCHANGED <<row, own, making, behind, raced, clashed, dropped, torn>>

-----------------------------------------------------------------------------
(* Limits, keys and snapshots.                                             *)

\* Mutant: the override goes to Incus as it is.
ApplyResourcesRaw(p) ==
    /\ job[p].pc = "apply"
    /\ LET k == job[p].key IN
       \/ /\ SetConfig(p, k, [cont[k] EXCEPT !.limit = job[p].limit])
          /\ UNCHANGED behind
       \/ /\ behind' = behind \cup {job[p].id}
          /\ Fails(Live(k))
    /\ Done(p)
    /\ UNCHANGED <<row, own, kept, raced, rest, torn>>
\* applyResourcesToIncus; a failure is a warning.
ApplyResources(p) ==
    /\ job[p].pc = "apply"
    /\ LET k == job[p].key IN
       \/ /\ SetConfig(p, k, [cont[k] EXCEPT !.limit = Effective(job[p].limit)])
          /\ UNCHANGED behind
       \/ /\ behind' = behind \cup {job[p].id}
          /\ Fails(Live(k))
    /\ Done(p)
    /\ UNCHANGED <<row, own, kept, raced, rest, torn>>

\* UpdateIncusConfig: Incus first, then UpdateInstanceResources.  An empty
\* field takes the limit away from the container, but the row then says that
\* it is the template's: the two differ from then on.
UpdateIncusConfig(p) ==
    /\ job[p].pc = "raw"
    /\ LET k == job[p].key IN
       \/ /\ SetConfig(p, k, [cont[k] EXCEPT !.limit = job[p].limit])
          /\ Goto(p, "store")
          /\ behind' = IF job[p].limit = Unset THEN behind \cup {job[p].id} ELSE behind
       \/ /\ Done(p)
          /\ Fails(Live(k))
          /\ UNCHANGED behind
    /\ UNCHANGED <<row, own, kept, raced, rest, torn>>
StoreResources(p) ==
    /\ job[p].pc = "store"
    /\ row' = [row EXCEPT ![job[p].id].limit = job[p].limit]
    /\ Done(p)
    /\ UNCHANGED <<cont, own, made, making, history>>

\* The end of AddAuthorizedKey.
AddAuthorizedKey(p) ==
    /\ job[p].pc = "add"
    /\ LET k == job[p].key IN
       \/ /\ Running(k)
          /\ cont' = [cont EXCEPT ![k].keys = @ \cup job[p].keys]
          /\ Touch(p, k) /\ UNCHANGED made
       \/ Fails(Running(k))
    /\ Done(p)
    /\ UNCHANGED <<row, own, behind, kept, raced, rest, torn>>

\* RestoreVolumeSnapshot, of a volume of the instance, wherever its container.
RestoreSnapshot(p) ==
    /\ job[p].pc = "restore"
    /\ torn' = IF \E k \in IncusNames : cont[k].of = job[p].id /\ cont[k].on
               THEN torn \cup {job[p].id} ELSE torn
    /\ Done(p)
    /\ UNCHANGED <<row, cont, own, made, loose, behind, kept, raced, rest>>

-----------------------------------------------------------------------------
Begin(p) ==
    \E i \in Insts :
      \/ \E n \in Names, c \in BOOLEAN : BeginRename(p, i, n, c)
      \/ \E u \in Users, c, keep \in BOOLEAN : BeginTransfer(p, i, u, c, keep)
      \/ \E l \in Limits \cup {Unset} : BeginResources(p, i, l) \/ BeginConfig(p, i, l)
      \/ \E o \in {"start", "stop"} : BeginPower(p, i, o)
      \/ \E u \in Users, k \in Keys : BeginKey(p, i, u, k)
      \/ BeginRestore(p, i)
Step(p) ==
    \/ WriteName(p) \/ WriteOwner(p)
    \/ CheckKey(p) \/ StopInstance(p) \/ Stopped(p) \/ MoveContainer(p) \/ RecordKey(p)
    \/ StartInstance(p) \/ Started(p)
    \/ SetHost(p) \/ InstallKeys(p) \/ RevokeKeys(p)
    \/ ApplyResources(p) \/ UpdateIncusConfig(p) \/ StoreResources(p)
    \/ AddAuthorizedKey(p) \/ RestoreSnapshot(p)
\* All requests of the bound have been served.
Quiet ==
    /\ made = MaxRequests /\ Busy = {} /\ \A i \in Insts : ~Making(i)
    /\ UNCHANGED vars

Next ==
    \/ \E p \in Jobs : Begin(p) \/ Step(p)
    \/ \E u \in Users, k \in Keys : CreateSSHKey(u, k) \/ DeleteSSHKey(u, k)
    \/ \E i \in Insts :
         \/ \E u \in Users, n \in Names, l \in Limits \cup {Unset} : CreateAsync(i, u, n, l)
         \/ FinishCreate(i)
    \/ Crash \/ Quiet

Spec == Init /\ [][Next]_vars

-----------------------------------------------------------------------------
AtRest(i) == Exists(i) /\ OnInst(i) = {} /\ ~Making(i)

\* The name a row records is that of the instance's own container, if of any,
\* and the status that of it, whatever Incus refuses on the way of a creation,
\* rename, transfer, start or stop, and whatever is done to other instances
\* meanwhile (renameContainer: a container that moved without its row is
\* unreachable).
RowsReachContainers ==
    \A i \in Insts \ loose : AtRest(i) =>
        /\ \A k \in IncusNames : cont[k].of = i => k = row[i].key
        /\ \/ cont[row[i].key].of = i
           \/ row[i].status \in {"creating", "error"} /\ ~Live(row[i].key)
        /\ Running(row[i].key) <=> row[i].status = "running"

\* What a rebuild would put into the container is what it has: the host name
\* of the display name, and the limit of the override or the template.
ConfigFollowsRow ==
    \A i \in Insts \ (loose \cup behind) : AtRest(i) /\ Live(row[i].key) =>
        /\ cont[row[i].key].host = row[i].name
        /\ cont[row[i].key].limit = Effective(row[i].limit)

\* After a hand-over that reached a running instance, and was not to keep
\* them, the previous owner's keys are out: every key left is the owner's, or
\* one that its account had deleted before, or one of another account that its
\* owner or an administrator put there and no hand-over has taken out since.
KeysFollowOwner ==
    \A i \in Insts \ (loose \cup kept) : AtRest(i) /\ Live(row[i].key) =>
        cont[row[i].key].keys \subseteq
          own[row[i].owner] \cup dropped \cup {k \in Keys : <<i, k>> \in granted}

\* No rename and no hand-over gives two instances of an account the same host
\* name on the tailnet, unless two names were chosen in it at once, each before
\* the other was written.  Only a creation may: it does not look.
HostNamesDiffer ==
    \A i, j \in Insts \ clashed :
        /\ Exists(i) /\ Exists(j)
        /\ row[i].owner = row[j].owner /\ row[i].owner \notin raced
        /\ row[i].name = row[j].name
        => i = j

\* A volume is never restored under a running container, unless the instance
\* was started, or renamed, while the restore was under way.
RestoredAtRest == torn \subseteq loose
=============================================================================
