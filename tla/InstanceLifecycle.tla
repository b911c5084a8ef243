------------------------- MODULE InstanceLifecycle -------------------------
(***************************************************************************)
(* The lifecycle of Plati instances: InstanceService.CreateAsync, Create,  *)
(* Start, Stop, Rebuild and Delete, the sleep worker's stop, and what a    *)
(* Rename or a TransferToUser does to the container and its name           *)
(* (backend/internal/services/instance_service.go, instance_transfer.go,   *)
(* sleep_service.go), over the tables instances, volumes and               *)
(* instance_volumes of the SQLite database and over the containers and     *)
(* storage volumes of the Incus servers.                                   *)
(*                                                                         *)
(* Nothing in the code locks an instance: each HTTP request, each creation *)
(* goroutine and the sleep worker is a process that interleaves with the   *)
(* others between any two calls.  One call - a database statement (the     *)
(* pool holds a single connection) or an Incus operation - is one atomic   *)
(* step.  An Incus operation fails when its precondition does not hold,    *)
(* and, if it is named in Faults, for reasons of its own, with no effect.  *)
(***************************************************************************)
EXTENDS Naturals, FiniteSets

CONSTANTS
    Servers,       \* rows of the servers table, each an Incus host
    Names,         \* Incus names, "plati-<user>-<sanitised name>"
    Ids,           \* primary keys of instances: AUTOINCREMENT, never reused
    VolIds,        \* primary keys of volumes: AUTOINCREMENT, never reused
    Devs,          \* the template's persistence dirs, one device name each
    Procs,         \* the requests, goroutines and sweeps in flight at once
    MaxInstances,  \* max_instances of every server
    Ops,           \* the operations that are asked for
    Faults,        \* the Incus operations that may fail by themselves
    MaxCrashes,    \* bound on crashes of the server process
    MaxMoves,      \* bound on the instances that have had two names
    None

\* The operations that give an instance another Incus name.
Moves == {"Rename", "TransferToUser"}
AllOps == {"CreateAsync", "Create", "Start", "Stop", "Sleep", "Rebuild", "Delete"} \cup Moves
IncusOps == {"CreateInstance", "StartInstance", "StopInstance", "DeleteInstance",
             "RenameInstance", "GetInstance", "CreateVolume", "DeleteVolume",
             "AttachVolume", "DetachVolume"}

ASSUME NoneAssumption == None \notin Ids \cup VolIds \cup Devs \cup (Servers \X Names)
ASSUME BoundsAssumption == MaxInstances \in Nat /\ MaxCrashes \in Nat /\ MaxMoves \in Nat
ASSUME OpsAssumption == Ops \subseteq AllOps /\ Faults \subseteq IncusOps

VARIABLES
    inst,     \* table instances; "unused" and "deleted" are ids without a row
    vol,      \* table volumes, likewise
    joins,    \* table instance_volumes
    cont,     \* the container of a (server, Incus name)
    devs,     \* the volumes attached to the container, under their device names
    store,    \* the storage volumes that exist in Incus
    req,      \* what each process is doing, and its local variables
    crashes

db    == <<inst, vol, joins>>
incus == <<cont, devs, store>>
vars  == <<inst, vol, joins, cont, devs, store, req, crashes>>

Keys     == Servers \X Names
Statuses == {"creating", "running", "stopped", "error"}
Labels   == {"idle", "insert", "container", "volumes", "volCreate", "volAttach",
             "volUndo", "volUnrecord", "volJoin", "joins", "joinInsert", "ready",
             "fail", "start", "started", "stop", "stopped", "list", "probe",
             "rbStop", "detach", "reattach", "attach", "delStop", "delRow",
             "delContainer", "delVols", "delVol", "delRec",
             "check", "move", "record", "undo"}

Row    == [status : Statuses \cup {"unused", "deleted"},
           key    : Keys \cup {None},
           volume : VolIds \cup {None},
           names  : SUBSET Keys]        \* history: the keys it has had, or was to get
VolRow == [state : {"unused", "live", "deleted"},
           key   : Keys \cup {None},
           dev   : Devs \cup {None}]
Join   == [inst : Ids, vol : VolIds, dev : Devs]
Request == [op    : AllOps \cup {"none"},
            pc    : Labels,
            id    : Ids \cup {None},      \* the instance's row
            key   : Keys \cup {None},     \* server and incus_name, as read
            to    : Keys \cup {None},     \* newIncusName, on the same server
            was   : BOOLEAN,              \* wasRunning
            todo  : SUBSET Devs,          \* what is left of the current loop
            snap  : SUBSET Join,          \* instanceVols, as read
            dev   : Devs \cup {None},     \* the loop's current dir,
            vid   : VolIds \cup {None},   \* and its volume row
            first : VolIds \cup {None}]   \* firstVolID

Idle == [op |-> "none", pc |-> "idle", id |-> None, key |-> None, to |-> None, was |-> FALSE,
         todo |-> {}, snap |-> {}, dev |-> None, vid |-> None, first |-> None]

TypeOK ==
    /\ inst  \in [Ids -> Row]
    /\ vol   \in [VolIds -> VolRow]
    /\ joins \subseteq Join
    /\ cont  \in [Keys -> {"absent", "stopped", "running"}]
    /\ devs  \in [Keys -> SUBSET (Keys \X Devs)]
    /\ store \subseteq Keys \X Devs
    /\ req   \in [Procs -> Request]
    /\ crashes \in 0 .. MaxCrashes

Init ==
    /\ inst  = [i \in Ids |-> [status |-> "unused", key |-> None, volume |-> None, names |-> {}]]
    /\ vol   = [v \in VolIds |-> [state |-> "unused", key |-> None, dev |-> None]]
    /\ joins = {}
    /\ cont  = [k \in Keys |-> "absent"]
    /\ devs  = [k \in Keys |-> {}]
    /\ store = {}
    /\ req   = [p \in Procs |-> Idle]
    /\ crashes = 0

-----------------------------------------------------------------------------
(* The database.                                                           *)

Live(i)    == inst[i].status \in Statuses
LiveVol(v) == vol[v].state = "live"

\* UPDATE instances SET status = ? WHERE id = ?: no row, no effect, no error.
SetStatus(i, s) ==
    inst' = [inst EXCEPT ![i].status = IF Live(i) THEN s ELSE @]

\* Mutant: UNIQUE(incus_name, server_id) is missing.
RowAcceptedTwice(k, f) == f # None => LiveVol(f)
\* Mutant: the foreign key on volume_id is missing.
RowAcceptedDangling(k, f) == \A i \in Ids : Live(i) => inst[i].key # k
\* INSERT INTO instances: UNIQUE(incus_name, server_id), and the foreign key.
RowAccepted(k, f) ==
    /\ \A i \in Ids : Live(i) => inst[i].key # k
    /\ f # None => LiveVol(f)

\* Mutant: without AUTOINCREMENT, SQLite gives the id of a deleted row again.
FreshIdReused(i) == ~Live(i)
FreshId(i) == inst[i].status = "unused"

\* DELETE FROM volumes WHERE id = ?: instances.volume_id restricts it, and the
\* rows of instance_volumes go with it.  Callers ignore the error.
DeleteVolumeRow(v) ==
    IF LiveVol(v) /\ \A i \in Ids : Live(i) => inst[i].volume # v
      THEN /\ vol' = [vol EXCEPT ![v].state = "deleted"]
           /\ joins' = {j \in joins : j.vol # v}
      ELSE UNCHANGED <<vol, joins>>

\* INSERT INTO instance_volumes: both foreign keys and UNIQUE(instance_id,
\* mount_path) are enforced, and callers ignore the error.
InsertJoin(i, v, d) ==
    joins' = IF /\ Live(i)
                /\ LiveVol(v)
                /\ \A j \in joins : j.inst = i => j.dev # d
               THEN joins \cup {[inst |-> i, vol |-> v, dev |-> d]}
               ELSE joins

InstancesOn(s) == {i \in Ids : Live(i) /\ inst[i].key[1] = s /\ inst[i].status # "error"}

-----------------------------------------------------------------------------
(* Incus, as the code drives it.                                           *)

Fault(o) == o \in Faults

CanStart(k)     == cont[k] = "stopped"
CanStop(k)      == cont[k] = "running"
CanRemove(k)    == cont[k] = "stopped"
CanAttach(x, k) == cont[k] # "absent" /\ x \in store
\* A volume that a container - not always that of its name - still lists as a
\* device is in use.
CanDeleteVolume(x) == x \in store /\ \A k \in Keys : x \notin devs[k]
\* AttachVolume sets the device of the volume's dir.
Attach(x, k) == devs' = [devs EXCEPT ![k] = {y \in @ : y[2] # x[2]} \cup {x}]
Detach(d, k) == devs' = [devs EXCEPT ![k] = {y \in @ : y[2] # d}]
\* RenameInstance, of a stopped container to a free name: its devices go along.
CanMove(k, l) == cont[k] = "stopped" /\ cont[l] = "absent"
MoveTo(k, l) ==
    /\ cont' = [cont EXCEPT ![k] = "absent", ![l] = "stopped"]
    /\ devs' = [devs EXCEPT ![k] = {}, ![l] = devs[k]]

TryDeleteVolume(x) ==
    \/ CanDeleteVolume(x) /\ store' = store \ {x}
    \/ (~CanDeleteVolume(x) \/ Fault("DeleteVolume")) /\ UNCHANGED store

-----------------------------------------------------------------------------
(* Control: what a process does next.                                      *)

At(p, l) == req[p].pc = l
Becomes(p, r) == req' = [req EXCEPT ![p] = r]
Goto(p, l) == Becomes(p, [req[p] EXCEPT !.pc = l])
Done(p) == Becomes(p, Idle)
Creating(p) == req[p].op \in {"CreateAsync", "Create"}
\* The loop over the dirs goes on at label l without d.
NextDir(p, l, d) ==
    Becomes(p, [req[p] EXCEPT !.pc = l, !.todo = @ \ {d}, !.dev = None, !.vid = None])
\* The loop over the dirs in D starts at label l.
Loop(p, l, D) == Becomes(p, [req[p] EXCEPT !.pc = l, !.todo = D])
DirsOf(J) == {j.dev : j \in J}

\* Model bounds: a request starts only if there are ids left for every row it,
\* and the requests already in flight, may insert.
Provisioning(q) ==
    /\ req[q].op \in {"CreateAsync", "Create", "Rebuild"}
    /\ req[q].pc \notin {"joins", "joinInsert", "reattach", "attach", "ready", "fail"}
RoomForVolumes ==
    Cardinality({v \in VolIds : vol[v].state = "unused"}) >=
        Cardinality(Devs) * (1 + Cardinality({q \in Procs : Provisioning(q)}))
RoomForInstances ==
    Cardinality({i \in Ids : inst[i].status = "unused"}) >
        Cardinality({q \in Procs : Creating(q) /\ req[q].id = None})
RoomForMoves == Cardinality({i \in Ids : Cardinality(inst[i].names) > 1}) < MaxMoves

-----------------------------------------------------------------------------
(* Create and CreateAsync.                                                 *)

\* selectServer takes the first online server below max_instances; any
\* server may be offline, so any server with capacity may be the first.
\* The row is inserted later, on a count that may no longer hold.
Selectable(s) == Cardinality(InstancesOn(s)) < MaxInstances

\* Create is called by Duplicate only: there is an instance to copy, and
\* freeInstanceName has found a name that no row has.
BeginCreate(p, o, n) ==
    /\ At(p, "idle")
    /\ o \in Ops \cap {"CreateAsync", "Create"}
    /\ o = "Create" => /\ \E i \in Ids : Live(i)
                       /\ \A i \in Ids : Live(i) => inst[i].key[2] # n
    /\ RoomForVolumes /\ RoomForInstances
    /\ \E s \in Servers :
         /\ Selectable(s)
         /\ Becomes(p, [Idle EXCEPT !.op = o, !.key = <<s, n>>,
                      !.pc = IF o = "CreateAsync" THEN "insert" ELSE "container"])
    /\ UNCHANGED <<db, incus, crashes>>

\* INSERT INTO instances: CreateAsync first of all, Create after the start.
InsertRow(p) ==
    /\ At(p, "insert")
    /\ LET k == req[p].key
           f == req[p].first
       IN \/ /\ RowAccepted(k, f)
             /\ \E i \in Ids :
                  /\ FreshId(i)
                  /\ inst' = [inst EXCEPT ![i] =
                       [status |-> IF req[p].op = "CreateAsync" THEN "creating" ELSE "running",
                        key |-> k, volume |-> f, names |-> {k}]]
                  /\ IF req[p].op = "CreateAsync"
                       THEN Becomes(p, [req[p] EXCEPT !.pc = "container", !.id = i])
                       ELSE Becomes(p, [req[p] EXCEPT !.pc = "joins", !.id = i, !.todo = Devs])
          \/ /\ ~RowAccepted(k, f)
             /\ Done(p)
             /\ UNCHANGED inst
    /\ UNCHANGED <<vol, joins, incus, crashes>>

\* CreateInstance, for a creation and for the recreation of a Rebuild.  What
\* follows a failure is finalize("error") or its like, or the end of Create.
CreateContainer(p) ==
    /\ At(p, "container")
    /\ LET k == req[p].key IN
       \/ /\ cont[k] = "absent"
          /\ cont' = [cont EXCEPT ![k] = "stopped"]
          /\ devs' = [devs EXCEPT ![k] = {}]
          /\ IF Creating(p) \/ req[p].snap = {}
               THEN Loop(p, "volumes", Devs)
               ELSE Loop(p, "reattach", DirsOf(req[p].snap))
       \/ /\ cont[k] # "absent" \/ Fault("CreateInstance")
          /\ IF req[p].op = "Create" THEN Done(p) ELSE Goto(p, "fail")
          /\ UNCHANGED <<cont, devs>>
    /\ UNCHANGED <<db, store, crashes>>

\* The volume loops of Create, CreateAsync and provisionVolumes: the record
\* first, then the Incus volume, then the device; every error is a warning.
RecordVolume(p, d) ==
    /\ At(p, "volumes") /\ d \in req[p].todo
    /\ LET k == req[p].key
           taken == \E v \in VolIds : LiveVol(v) /\ vol[v].key = k /\ vol[v].dev = d
       IN \/ /\ ~taken
             /\ \E v \in VolIds :
                  /\ vol[v].state = "unused"
                  /\ vol' = [vol EXCEPT ![v] = [state |-> "live", key |-> k, dev |-> d]]
                  /\ Becomes(p, [req[p] EXCEPT !.pc = "volCreate", !.dev = d, !.vid = v,
                       !.first = IF req[p].op = "Create" /\ @ = None THEN v ELSE @])
          \/ /\ taken
             /\ NextDir(p, "volumes", d)
             /\ UNCHANGED vol
    /\ UNCHANGED <<inst, joins, incus, crashes>>

\* Mutant: the record of a volume that could not be created stays.
CreateVolumeKeepsRecord(p) ==
    /\ At(p, "volCreate")
    /\ LET x == <<req[p].key, req[p].dev>> IN
       \/ x \notin store /\ store' = store \cup {x} /\ Goto(p, "volAttach")
       \/ /\ x \in store \/ Fault("CreateVolume")
          /\ NextDir(p, "volumes", req[p].dev)
          /\ UNCHANGED store
    /\ UNCHANGED <<db, cont, devs, crashes>>

CreateVolume(p) ==
    /\ At(p, "volCreate")
    /\ LET x == <<req[p].key, req[p].dev>> IN
       \/ /\ x \notin store
          /\ store' = store \cup {x}
          /\ Goto(p, "volAttach")
       \/ /\ x \in store \/ Fault("CreateVolume")
          /\ Goto(p, "volUnrecord")
          /\ UNCHANGED store
    /\ UNCHANGED <<db, cont, devs, crashes>>

\* Mutant: the clean-up forgets the volume and keeps it.
AttachNewVolumeNoUndo(p) ==
    /\ At(p, "volAttach")
    /\ LET k == req[p].key
           d == req[p].dev
       IN \/ /\ CanAttach(<<k, d>>, k)
             /\ Attach(<<k, d>>, k)
             /\ IF Creating(p) THEN NextDir(p, "volumes", d) ELSE Goto(p, "volJoin")
          \/ /\ ~CanAttach(<<k, d>>, k) \/ Fault("AttachVolume")
             /\ Goto(p, "volUnrecord")
             /\ UNCHANGED devs
    /\ UNCHANGED <<db, cont, store, crashes>>

AttachNewVolume(p) ==
    /\ At(p, "volAttach")
    /\ LET k == req[p].key
           d == req[p].dev
       IN \/ /\ CanAttach(<<k, d>>, k)
             /\ Attach(<<k, d>>, k)
             /\ IF Creating(p) THEN NextDir(p, "volumes", d) ELSE Goto(p, "volJoin")
          \/ /\ ~CanAttach(<<k, d>>, k) \/ Fault("AttachVolume")
             /\ Goto(p, "volUndo")
             /\ UNCHANGED devs
    /\ UNCHANGED <<db, cont, store, crashes>>

\* The two clean-ups of a volume that could not be attached.
RemoveNewVolume(p) ==
    /\ At(p, "volUndo")
    /\ TryDeleteVolume(<<req[p].key, req[p].dev>>)
    /\ Goto(p, "volUnrecord")
    /\ UNCHANGED <<db, cont, devs, crashes>>

UnrecordVolume(p) ==
    /\ At(p, "volUnrecord")
    /\ DeleteVolumeRow(req[p].vid)
    /\ NextDir(p, "volumes", req[p].dev)
    /\ UNCHANGED <<inst, incus, crashes>>

\* provisionVolumes records the attachment at once.
JoinNewVolume(p) ==
    /\ At(p, "volJoin")
    /\ InsertJoin(req[p].id, req[p].vid, req[p].dev)
    /\ NextDir(p, "volumes", req[p].dev)
    /\ UNCHANGED <<inst, vol, incus, crashes>>

\* StartInstance at the end of a creation or of a Rebuild.
StartContainer(p) ==
    /\ At(p, "volumes") \/ At(p, "reattach")
    /\ req[p].todo = {}
    /\ LET k == req[p].key IN
       \/ /\ CanStart(k)
          /\ cont' = [cont EXCEPT ![k] = "running"]
          /\ \/ req[p].op = "CreateAsync" /\ Loop(p, "joins", Devs)
             \/ req[p].op = "Create" /\ Goto(p, "insert")
             \/ req[p].op = "Rebuild" /\ Goto(p, "ready")
       \/ /\ ~CanStart(k) \/ Fault("StartInstance")
          /\ IF req[p].op = "Create" THEN Done(p) ELSE Goto(p, "fail")
          /\ UNCHANGED cont
    /\ UNCHANGED <<db, devs, store, crashes>>

\* After the start, each dir's volume is looked up by its name - without the
\* server - and recorded against the instance.
FindVolume(p, d) ==
    /\ At(p, "joins") /\ d \in req[p].todo
    /\ LET found == {v \in VolIds : /\ LiveVol(v)
                                    /\ vol[v].key[2] = req[p].key[2]
                                    /\ vol[v].dev = d}
       IN \/ \E v \in found :
               Becomes(p, [req[p] EXCEPT !.pc = "joinInsert", !.dev = d, !.vid = v])
          \/ found = {} /\ NextDir(p, "joins", d)
    /\ UNCHANGED <<db, incus, crashes>>

JoinFoundVolume(p) ==
    /\ At(p, "joinInsert")
    /\ InsertJoin(req[p].id, req[p].vid, req[p].dev)
    /\ NextDir(p, "joins", req[p].dev)
    /\ UNCHANGED <<inst, vol, incus, crashes>>

\* finalize("running") of CreateAsync, and the last write of Rebuild.
FinalizeRunning(p) ==
    /\ \/ At(p, "joins") /\ req[p].todo = {} /\ req[p].op = "CreateAsync"
       \/ At(p, "ready")
    /\ SetStatus(req[p].id, "running")
    /\ Done(p)
    /\ UNCHANGED <<vol, joins, incus, crashes>>

\* Mutant: the status is not written.
FinalizeErrorUnwritten(p) ==
    /\ At(p, "fail")
    /\ Done(p)
    /\ UNCHANGED <<db, incus, crashes>>
\* Mutant: a failure takes the row back.
FinalizeErrorRemovesRow(p) ==
    /\ At(p, "fail")
    /\ inst' = [inst EXCEPT ![req[p].id].status = "deleted"]
    /\ joins' = {j \in joins : j.inst # req[p].id}
    /\ Done(p)
    /\ UNCHANGED <<vol, incus, crashes>>
\* finalize("error") of CreateAsync, and Rebuild's answer to a failed create
\* or start.
FinalizeError(p) ==
    /\ At(p, "fail")
    /\ SetStatus(req[p].id, "error")
    /\ Done(p)
    /\ UNCHANGED <<vol, joins, incus, crashes>>

-----------------------------------------------------------------------------
(* Start, Stop and the sleep worker.                                       *)

\* GetInstanceForActor; for the sleep worker, the row in the list of running
\* instances.  The columns read are not read again.
FirstCall == [Start |-> "start", Stop |-> "stop", Sleep |-> "stop",
              Rebuild |-> "list", Delete |-> "delStop"]

BeginOn(p, o, i) ==
    /\ At(p, "idle")
    /\ o \in Ops \cap DOMAIN FirstCall
    /\ Live(i)
    /\ o = "Sleep" => inst[i].status = "running"
    /\ o = "Rebuild" => RoomForVolumes
    /\ Becomes(p, [Idle EXCEPT !.op = o, !.pc = FirstCall[o], !.id = i, !.key = inst[i].key])
    /\ UNCHANGED <<db, incus, crashes>>

StartRequested(p) ==
    /\ At(p, "start")
    /\ LET k == req[p].key IN
       \/ /\ CanStart(k)
          /\ cont' = [cont EXCEPT ![k] = "running"]
          /\ Goto(p, "started")
       \/ /\ ~CanStart(k) \/ Fault("StartInstance")
          /\ Done(p)
          /\ UNCHANGED cont
    /\ UNCHANGED <<db, devs, store, crashes>>

StopRequested(p) ==
    /\ At(p, "stop")
    /\ LET k == req[p].key IN
       \/ /\ CanStop(k)
          /\ cont' = [cont EXCEPT ![k] = "stopped"]
          /\ Goto(p, "stopped")
       \/ /\ ~CanStop(k) \/ Fault("StopInstance")
          /\ Done(p)
          /\ UNCHANGED cont
    /\ UNCHANGED <<db, devs, store, crashes>>

StatusWritten(p) ==
    /\ \/ At(p, "started") /\ SetStatus(req[p].id, "running") /\ Done(p)
       \/ /\ At(p, "stopped") /\ SetStatus(req[p].id, "stopped")
          /\ IF req[p].op \in Moves THEN Goto(p, "move") ELSE Done(p)
    /\ UNCHANGED <<vol, joins, incus, crashes>>

-----------------------------------------------------------------------------
(* Rename with its container, and TransferToUser unless it keeps the       *)
(* container's name: renameContainer.  The volumes keep their names.       *)

BeginMove(p, o, i, n) ==
    /\ At(p, "idle")
    /\ o \in Ops \cap Moves
    /\ RoomForMoves
    /\ Live(i) /\ n # inst[i].key[2]
    /\ Becomes(p, [Idle EXCEPT !.op = o, !.pc = "check", !.id = i, !.key = inst[i].key,
                 !.to = <<inst[i].key[1], n>>, !.was = inst[i].status = "running"])
    /\ UNCHANGED <<db, incus, crashes>>

\* Another row has the name.
Taken(i, k) == \E j \in Ids \ {i} : Live(j) /\ inst[j].key = k
\* Started again whether or not the rename worked, if the row said running.
Restart(p) == IF req[p].was THEN Goto(p, "start") ELSE Done(p)

\* InstanceIncusNameTaken; Incus renames stopped containers only.
CheckName(p) ==
    /\ At(p, "check")
    /\ LET i == req[p].id IN
       IF Taken(i, req[p].to)
         THEN Done(p) /\ UNCHANGED inst
         ELSE /\ Goto(p, IF req[p].was THEN "stop" ELSE "move")
              /\ inst' = [inst EXCEPT ![i].names = @ \cup {req[p].to}]
    /\ UNCHANGED <<vol, joins, incus, crashes>>

MoveContainer(p) ==
    /\ At(p, "move")
    /\ LET k == req[p].key
           l == req[p].to
       IN \/ CanMove(k, l) /\ MoveTo(k, l) /\ Goto(p, "record")
          \/ /\ ~CanMove(k, l) \/ Fault("RenameInstance")
             /\ Restart(p)
             /\ UNCHANGED <<cont, devs>>
    /\ UNCHANGED <<db, store, crashes>>

\* UPDATE instances SET incus_name = ? WHERE id = ? AND user_id = ?: refused by
\* UNIQUE(incus_name, server_id); without effect when the row is gone, or has
\* changed hands since it was read.
RecordName(p) ==
    /\ At(p, "record")
    /\ LET i == req[p].id
           refused == Live(i) /\ Taken(i, req[p].to)
       IN \/ refused /\ Goto(p, "undo") /\ UNCHANGED inst
          \/ /\ \/ /\ ~refused
                   /\ inst' = [inst EXCEPT ![i].key = IF Live(i) THEN req[p].to ELSE @]
                \/ "TransferToUser" \in Ops /\ UNCHANGED inst
             /\ Becomes(p, IF req[p].was THEN [req[p] EXCEPT !.pc = "start", !.key = req[p].to]
                                        ELSE Idle)
    /\ UNCHANGED <<vol, joins, incus, crashes>>

\* The container goes back to its name, unless that fails as well.
UndoMove(p) ==
    /\ At(p, "undo")
    /\ LET k == req[p].key
           l == req[p].to
       IN \/ CanMove(l, k) /\ MoveTo(l, k)
          \/ (~CanMove(l, k) \/ Fault("RenameInstance")) /\ UNCHANGED <<cont, devs>>
    /\ Restart(p)
    /\ UNCHANGED <<db, store, crashes>>

-----------------------------------------------------------------------------
(* Rebuild and Delete.                                                     *)

\* ListInstanceVolumes: before the teardown of a Rebuild, after the stop of a
\* Delete.
ListVolumes(p) ==
    /\ At(p, "list")
    /\ Becomes(p, [req[p] EXCEPT !.snap = {j \in joins : j.inst = req[p].id},
                          !.pc = IF req[p].op = "Rebuild" THEN "probe" ELSE "delRow"])
    /\ UNCHANGED <<db, incus, crashes>>

\* GetInstance: any error counts as a missing container.
ProbeContainer(p) ==
    /\ At(p, "probe")
    /\ \/ cont[req[p].key] # "absent" /\ Goto(p, "rbStop")
       \/ (cont[req[p].key] = "absent" \/ Fault("GetInstance")) /\ Goto(p, "container")
    /\ UNCHANGED <<db, incus, crashes>>

\* The stop whose error is ignored.
StopIgnored(p) ==
    /\ At(p, "rbStop") \/ At(p, "delStop")
    /\ LET k == req[p].key IN
       \/ CanStop(k) /\ cont' = [cont EXCEPT ![k] = "stopped"]
       \/ (~CanStop(k) \/ Fault("StopInstance")) /\ UNCHANGED cont
    /\ IF At(p, "rbStop") THEN Loop(p, "detach", DirsOf(req[p].snap)) ELSE Goto(p, "list")
    /\ UNCHANGED <<db, devs, store, crashes>>

\* Mutant: the loop of Delete instead of the loop of Rebuild.
DetachVolumeRemoves(p, d) ==
    /\ At(p, "detach") /\ d \in req[p].todo
    /\ Detach(d, req[p].key)
    /\ store' = store \ {<<req[p].key, d>>}
    /\ NextDir(p, "detach", d)
    /\ UNCHANGED <<db, cont, crashes>>

DetachVolume(p, d) ==
    /\ At(p, "detach") /\ d \in req[p].todo
    /\ \/ Detach(d, req[p].key)
       \/ Fault("DetachVolume") /\ UNCHANGED devs
    /\ NextDir(p, "detach", d)
    /\ UNCHANGED <<db, cont, store, crashes>>

\* DeleteInstance: its failure ends a Rebuild and is only logged by a Delete.
RemoveContainer(p) ==
    /\ \/ At(p, "detach") /\ req[p].todo = {}
       \/ At(p, "delContainer")
    /\ LET k == req[p].key IN
       \/ /\ CanRemove(k)
          /\ cont' = [cont EXCEPT ![k] = "absent"]
          /\ devs' = [devs EXCEPT ![k] = {}]
          /\ IF At(p, "detach") THEN Goto(p, "container")
                                ELSE Loop(p, "delVols", DirsOf(req[p].snap))
       \/ /\ ~CanRemove(k) \/ Fault("DeleteInstance")
          /\ IF At(p, "detach") THEN Done(p)
                                ELSE Loop(p, "delVols", DirsOf(req[p].snap))
          /\ UNCHANGED <<cont, devs>>
    /\ UNCHANGED <<db, store, crashes>>

\* Rebuild reattaches what the join table listed: GetVolume, then AttachVolume
\* with its error ignored.
LookUpListed(p, d) ==
    /\ At(p, "reattach") \/ At(p, "delVols")
    /\ d \in req[p].todo
    /\ \E j \in req[p].snap :
         /\ j.dev = d
         /\ IF LiveVol(j.vol)
              THEN Becomes(p, [req[p] EXCEPT !.dev = d, !.vid = j.vol,
                             !.pc = IF At(p, "reattach") THEN "attach" ELSE "delVol"])
              ELSE NextDir(p, req[p].pc, d)
    /\ UNCHANGED <<db, incus, crashes>>

\* The storage volume meant: on the instance's server, named by the record.
Listed(p) == <<<<req[p].key[1], vol[req[p].vid].key[2]>>, vol[req[p].vid].dev>>

Reattach(p) ==
    /\ At(p, "attach")
    /\ LET k == req[p].key IN
       \/ CanAttach(Listed(p), k) /\ Attach(Listed(p), k)
       \/ (~CanAttach(Listed(p), k) \/ Fault("AttachVolume")) /\ UNCHANGED devs
    /\ NextDir(p, "reattach", req[p].dev)
    /\ UNCHANGED <<db, cont, store, crashes>>

\* DELETE FROM instances: the join rows cascade.
DeleteRow(p) ==
    /\ At(p, "delRow")
    /\ inst' = [inst EXCEPT ![req[p].id].status = IF Live(req[p].id) THEN "deleted" ELSE @]
    /\ joins' = {j \in joins : j.inst # req[p].id}
    /\ Goto(p, "delContainer")
    /\ UNCHANGED <<vol, incus, crashes>>

\* A Delete removes each listed volume from the instance's server by its
\* recorded name, then its record, ignoring the error of each.
DeleteVolume(p) ==
    /\ At(p, "delVol")
    /\ TryDeleteVolume(Listed(p))
    /\ Goto(p, "delRec")
    /\ UNCHANGED <<db, cont, devs, crashes>>

DeleteVolumeRecord(p) ==
    /\ At(p, "delRec")
    /\ DeleteVolumeRow(req[p].vid)
    /\ NextDir(p, "delVols", req[p].dev)
    /\ UNCHANGED <<inst, incus, crashes>>

\* Create and Delete return at the end of their last loop.
Return(p) ==
    /\ \/ At(p, "joins") /\ req[p].op = "Create"
       \/ At(p, "delVols")
    /\ req[p].todo = {}
    /\ Done(p)
    /\ UNCHANGED <<db, incus, crashes>>

-----------------------------------------------------------------------------
\* The server process dies: requests and creation goroutines are gone, the
\* database and Incus are as they were, and main starts with no recovery.
Crash ==
    /\ crashes < MaxCrashes
    /\ crashes' = crashes + 1
    /\ req' = [p \in Procs |-> Idle]
    /\ UNCHANGED <<db, incus>>

\* The calls of a request under way.
Step(p) ==
    \/ InsertRow(p) \/ CreateContainer(p) \/ StartContainer(p)
    \/ CreateVolume(p) \/ AttachNewVolume(p) \/ RemoveNewVolume(p)
    \/ UnrecordVolume(p) \/ JoinNewVolume(p) \/ JoinFoundVolume(p)
    \/ FinalizeRunning(p) \/ FinalizeError(p)
    \/ StartRequested(p) \/ StopRequested(p) \/ StatusWritten(p)
    \/ CheckName(p) \/ MoveContainer(p) \/ RecordName(p) \/ UndoMove(p)
    \/ ListVolumes(p) \/ ProbeContainer(p) \/ StopIgnored(p)
    \/ RemoveContainer(p) \/ Reattach(p) \/ DeleteRow(p)
    \/ DeleteVolume(p) \/ DeleteVolumeRecord(p) \/ Return(p)
    \/ \E d \in Devs : \/ RecordVolume(p, d) \/ FindVolume(p, d)
                       \/ DetachVolume(p, d) \/ LookUpListed(p, d)

Begin(p) ==
    \/ \E o \in AllOps, n \in Names : BeginCreate(p, o, n)
    \/ \E o \in AllOps, i \in Ids : \/ BeginOn(p, o, i)
                                    \/ \E n \in Names : BeginMove(p, o, i, n)

Next == (\E p \in Procs : Begin(p) \/ Step(p)) \/ Crash

Spec == Init /\ [][Next]_vars

\* A request that has begun goes on: the Go scheduler runs every goroutine and
\* every Incus operation answers.  Nobody has to ask for anything.
FairSpec == Spec /\ \A p \in Procs : WF_vars(Step(p))

-----------------------------------------------------------------------------
(* Safety under any interleaving.                                          *)

\* The Incus names that an instance has had or was to get.
Called(i) == {k[2] : k \in inst[i].names}

\* The names that a rename has touched: some instance has had one of them and
\* another.  What the volumes of such a name belong to is not settled any more.
Renamed == {k \in Keys : \E i \in Ids : k \in inst[i].names /\ inst[i].names # {k}}

\* What the database says about volumes is about the instance's own volumes:
\* a row of instance_volumes relates an instance to a volume of a name it has
\* had, for that device, and so does volume_id, on the row's server.
\* The rows are written with ids read several calls earlier, over which
\* deletions, renames, failed creations and new instances of the same name may
\* pass; and Delete and Rebuild act on what the rows say.
JoinIntegrity ==
    /\ \A j \in joins : /\ Live(j.inst) /\ LiveVol(j.vol)
                        /\ vol[j.vol].key[2] \in Called(j.inst)
                        /\ vol[j.vol].dev = j.dev
    /\ \A i \in Ids : Live(i) /\ inst[i].volume # None =>
         /\ LiveVol(inst[i].volume)
         /\ vol[inst[i].volume].key \in inst[i].names

\* No volume belongs to two instances, so that no Delete takes another
\* instance's data - unless the volume has a name that an instance gave up:
\* a new instance of that name finds the other's volume.
\* This is a property of platforms with one server: see FoundIsOwn.
NoSharedVolume ==
    \A j, k \in joins : j.vol = k.vol /\ vol[j.vol].key \notin Renamed => j.inst = k.inst

\* What a request remembers of the database is still about the same instance
\* and volumes, whatever has been deleted, renamed or created since it read
\* them.  With JoinIntegrity this is inductive.
UniqueKeys ==
    /\ \A i \in Ids : Live(i) => inst[i].key \in inst[i].names
    /\ \A i, j \in Ids : Live(i) /\ Live(j) /\ inst[i].key = inst[j].key => i = j
    /\ \A i \in Ids : \A k, l \in inst[i].names : k[1] = l[1]

KnownVolume(v, d, N) == vol[v].state # "unused" /\ vol[v].key[2] \in N /\ vol[v].dev = d

WithVolume == {"volCreate", "volAttach", "volUndo", "volUnrecord", "volJoin",
               "joinInsert", "attach", "delVol", "delRec"}

\* The points of a rename with its container.
MoveLabels == {"check", "stop", "stopped", "move", "record", "undo", "start", "started"}

\* What the process holds at each point, and what is true of it.
Placed(r) ==
    /\ r.pc # "idle" => r.key # None
    /\ r.op # "Create" /\ r.pc \notin {"idle", "insert"} => r.id # None
    /\ r.pc = "insert" \/ (r.op = "Create" /\ r.pc \notin {"joins", "joinInsert"}) => r.id = None
    /\ r.pc \in {"joins", "joinInsert", "volJoin"} => r.id # None
    /\ r.pc \in WithVolume => r.vid # None /\ r.dev # None
    /\ r.pc \in {"check", "move", "record", "undo"} => r.op \in Moves
    /\ r.to # None <=> r.op \in Moves
    /\ r.op \in Moves => r.pc \in MoveLabels /\ r.first = None

\* The names of the volumes a request works on: those of its row, or, before
\* there is one, the one it will have.
CalledBy(r) == IF r.id # None THEN Called(r.id) ELSE {r.key[2]}

Remembers(r) ==
    /\ r.id # None => inst[r.id].status # "unused" /\ r.key \in inst[r.id].names
    /\ r.pc = "check" => r.to[1] = r.key[1] /\ r.to # r.key
    /\ r.to # None /\ r.pc # "check" => r.to \in inst[r.id].names /\ inst[r.id].names # {r.to}
    /\ r.vid # None => KnownVolume(r.vid, r.dev, CalledBy(r))
    /\ r.first # None => vol[r.first].state # "unused" /\ vol[r.first].key = r.key
    /\ \A j \in r.snap : KnownVolume(j.vol, j.dev, CalledBy(r))

Knows(r) == Placed(r) /\ Remembers(r)

MemoryHolds == \A p \in Procs : Knows(req[p])

-----------------------------------------------------------------------------
(* Safety of requests that do not overlap.                                 *)

Quiet == \A p \in Procs : At(p, "idle")

\* Between requests the status tells the truth about the container of an
\* instance that no rename has touched.
StatusTruth ==
    Quiet => \A i \in Ids : inst[i].key \notin Renamed =>
        /\ inst[i].status = "running" => cont[inst[i].key] = "running"
        /\ inst[i].status = "stopped" => cont[inst[i].key] = "stopped"

\* Every container belongs to a row: a failed creation leaves its row behind,
\* so that Rebuild or Delete can still reach the container.  A crash between
\* the two halves of a Delete is the exception.
ContainersHaveRows ==
    Quiet /\ crashes = 0 =>
        \A k \in Keys \ Renamed : cont[k] # "absent" => \E i \in Ids : Live(i) /\ inst[i].key = k

\* A volume is recorded before it exists and forgotten after it is gone, so
\* that a crash at any point leaves no storage that the database has lost.
\* (Where a rename gave up a name, the Delete of a new instance of the name
\* forgets the volume that the other still uses.)
VolumesRecorded ==
    \A x \in store : x[1] \notin Renamed => \E v \in VolIds : LiveVol(v) /\ vol[v].key = x[1] /\ vol[v].dev = x[2]

\* A volume that an instance is said to have exists.
JoinedVolumesExist ==
    Quiet => \A j \in joins :
        vol[j.vol].key \notin Renamed => <<vol[j.vol].key, vol[j.vol].dev>> \in store

\* The volume of an instance outlives everything but the instance's own
\* Delete: no Rebuild, failed or not, and no other creation destroys it, as
\* long as no rename has touched its name.
JoinedVolumesSurvive ==
    [][\A j \in joins : vol[j.vol].key \notin Renamed /\ <<vol[j.vol].key, j.dev>> \in store =>
                        <<vol[j.vol].key, j.dev>> \in store']_vars

-----------------------------------------------------------------------------
(* Requests that keep apart, as many as there are, keep the promise of     *)
(* InstanceBook, which is about the names that no rename has touched.      *)

Off(i) == inst[i].key \in Renamed

Book == INSTANCE InstanceBook WITH
    status <- [i \in Ids |-> IF Off(i) THEN "off" ELSE inst[i].status],
    key    <- [i \in Ids |-> IF Off(i) THEN None ELSE inst[i].key],
    vm     <- [k \in Keys |-> IF k \in Renamed THEN "off" ELSE cont[k]],
    homes  <- {x \in store : x[1] \notin Renamed /\
                 \E j \in joins : x = <<vol[j.vol].key, j.dev>>},
    held   <- {req[p].key : p \in {q \in Procs : ~At(q, "idle")}} \ Renamed

KeepsBook == Book!Spec

-----------------------------------------------------------------------------
(* Liveness, when the server does not crash.                               *)

\* A creation is decided: the instance does not stay in "creating".
CreationSettles ==
    \A i \in Ids : inst[i].status = "creating" ~> inst[i].status # "creating"

-----------------------------------------------------------------------------
(* What the repository says and the code does not do.                      *)

\* A Rebuild that succeeds has put every persistent dir of the template on a
\* volume, also when the creation it repairs had died half-way.
RebuildProvidesHome ==
    [][\A p \in Procs : At(p, "ready") /\ req'[p] # req[p] =>
                        {x[2] : x \in devs[req[p].key]} = Devs]_vars

\* Deleting an instance deletes its volumes.
DeleteLeavesNothing ==
    Quiet => \A x \in store : \E i \in Ids : Live(i) /\ inst[i].key = x[1]

\* The volume found by name after the start is one on the instance's server.
FoundIsOwn ==
    \A p \in Procs : At(p, "joinInsert") => vol[req[p].vid].key = req[p].key

\* A server holds no more instances than its max_instances.
WithinCapacity ==
    \A s \in Servers : Cardinality(InstancesOn(s)) <= MaxInstances

=============================================================================
