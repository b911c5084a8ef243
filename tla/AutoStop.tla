------------------------------ MODULE AutoStop ------------------------------
(***************************************************************************)
(* Auto-stop: the sleep worker (backend/internal/services/                 *)
(* sleep_service.go), which every Interval stops the running instances     *)
(* whose deadline has passed, and the requests that move the deadline or   *)
(* start and stop the containers at the same time.                         *)
(*                                                                         *)
(* Time is a number.  The worker is prompt: time passes only when it has   *)
(* nothing to do, or while Incus is stopping an instance, which takes at   *)
(* most StopTime.  Requests are as slow as they like.  One database        *)
(* statement or one Incus call is a step.                                  *)
(***************************************************************************)
EXTENDS Naturals, FiniteSets

CONSTANTS
    Insts,      \* instances
    Procs,      \* the requests in flight at once
    Ops,        \* the operations that are asked for
    Default,    \* sleep_timeout of the configuration
    Timeouts,   \* the values of sleep_timeout_minutes, 0 for the default
    Interval,   \* sleepCheckInterval
    StopTime,   \* the longest that Incus takes to stop an instance
    MaxTime,    \* bound on time
    Faults,     \* the Incus calls that may fail by themselves
    InTurn,     \* requests overlap neither each other nor a sweep
    None

AllOps == {"create", "start", "stop", "reset", "update", "rebuild", "rename"}

ASSUME TimesAssumption ==
    /\ Timeouts \subseteq Nat /\ 0 \in Timeouts
    /\ Default \in Nat \ {0} /\ Interval \in Nat \ {0}
    /\ StopTime \in Nat /\ MaxTime \in Nat
ASSUME SetsAssumption ==
    /\ Ops \subseteq AllOps /\ InTurn \in BOOLEAN
    /\ Faults \subseteq {"StartInstance", "StopInstance"}
    /\ None \notin Nat \cup Insts

VARIABLES
    now,
    row,      \* status, last_active_at and the policy of an instance
    cont,     \* its container
    worker,   \* the sleep worker and its ticker
    req,      \* what each request is doing
    upAt,     \* history: when the container last came up
    since     \* history: when it last came up, or its status or policy was written

vars == <<now, row, cont, worker, req, upAt, since>>

Time   == 0 .. MaxTime
Policy == [disabled : BOOLEAN, timeout : Timeouts]
Row    == [status : {"none", "creating", "running", "stopped", "error"},
           last   : Time \cup {None},
           policy : Policy]
Worker == [pc   : {"idle", "sweep", "stop", "write"},
           tick : BOOLEAN,              \* the ticker's channel, of capacity 1
           todo : SUBSET Insts,         \* the rest of the list
           inst : Insts \cup {None},
           by   : 0 .. MaxTime + StopTime]
Request == [op    : AllOps \cup {"none"},
            pc    : {"idle", "remove", "recreate", "start", "running", "touch",
                     "stop", "stopped", "error", "policy"},
            inst  : Insts \cup {None},
            fields : SUBSET {"disabled", "timeout"},  \* what the update gives
            set   : Policy]                           \* the policy it will write

NoPolicy == [disabled |-> FALSE, timeout |-> 0]
Idle == [op |-> "none", pc |-> "idle", inst |-> None, fields |-> {}, set |-> NoPolicy]

TypeOK ==
    /\ now \in Time
    /\ row \in [Insts -> Row]
    /\ cont \in [Insts -> {"absent", "off", "on"}]
    /\ worker \in Worker
    /\ req \in [Procs -> Request]
    /\ upAt \in [Insts -> Time] /\ since \in [Insts -> Time]

Init ==
    /\ now = 0
    /\ row = [i \in Insts |-> [status |-> "none", last |-> None, policy |-> NoPolicy]]
    /\ cont = [i \in Insts |-> "absent"]
    /\ worker = [pc |-> "idle", tick |-> FALSE, todo |-> {}, inst |-> None, by |-> 0]
    /\ req = [p \in Procs |-> Idle]
    /\ upAt = [i \in Insts |-> 0] /\ since = [i \in Insts |-> 0]

-----------------------------------------------------------------------------
(* The policy.                                                             *)

Effective(i) == IF row[i].policy.timeout > 0 THEN row[i].policy.timeout ELSE Default

\* Mutant: the instance's own timeout is not looked at.
DueByDefault(i) ==
    /\ row[i].status = "running" /\ ~row[i].policy.disabled
    /\ row[i].last = None \/ row[i].last + Default < now
\* The condition of ListSleepableInstances.
Due(i) ==
    /\ row[i].status = "running" /\ ~row[i].policy.disabled
    /\ row[i].last = None \/ row[i].last + Effective(i) < now

\* The deadline that GetSettings shows.
SleepsAt(i) ==
    IF row[i].last # None /\ row[i].status = "running" /\ ~row[i].policy.disabled
      THEN row[i].last + Effective(i) ELSE None

-----------------------------------------------------------------------------
(* The worker.                                                             *)

WorkerIdle == worker.pc = "idle" /\ ~worker.tick
Overlapping == ~InTurn \/ \A p \in Procs : req[p].pc = "idle"

Advance ==
    /\ now < MaxTime
    /\ WorkerIdle \/ (worker.pc = "stop" /\ now < worker.by)
    /\ now' = now + 1
    /\ worker' = [worker EXCEPT !.tick = @ \/ (now + 1) % Interval = 0]
    /\ UNCHANGED <<row, cont, req, upAt, since>>

List ==
    /\ worker.pc = "idle" /\ worker.tick
    /\ Overlapping
    /\ worker' = [worker EXCEPT !.pc = "sweep", !.tick = FALSE,
                                !.todo = {i \in Insts : Due(i)}]
    /\ UNCHANGED <<now, row, cont, req, upAt, since>>

TakeNext ==
    /\ worker.pc = "sweep"
    /\ IF worker.todo = {}
         THEN worker' = [worker EXCEPT !.pc = "idle"]
         ELSE \E i \in worker.todo :
                worker' = [worker EXCEPT !.pc = "stop", !.todo = @ \ {i}, !.inst = i,
                                         !.by = now + StopTime]
    /\ UNCHANGED <<now, row, cont, req, upAt, since>>

CanStop(i) == cont[i] = "on"

WorkerStop ==
    /\ worker.pc = "stop"
    /\ LET i == worker.inst IN
       \/ /\ CanStop(i)
          /\ cont' = [cont EXCEPT ![i] = "off"]
          /\ worker' = [worker EXCEPT !.pc = "write", !.by = 0]
       \/ /\ ~CanStop(i) \/ "StopInstance" \in Faults
          /\ worker' = [worker EXCEPT !.pc = "sweep", !.inst = None, !.by = 0]
          /\ UNCHANGED cont
    /\ UNCHANGED <<now, row, req, upAt, since>>

Written(i, s) ==
    /\ row' = [row EXCEPT ![i].status = s]
    /\ since' = [since EXCEPT ![i] = now]

WorkerWrite ==
    /\ worker.pc = "write"
    /\ Written(worker.inst, "stopped")
    /\ worker' = [worker EXCEPT !.pc = "sweep", !.inst = None]
    /\ UNCHANGED <<now, cont, req, upAt>>

-----------------------------------------------------------------------------
(* The requests.                                                           *)

At(p, l) == req[p].pc = l
Goto(p, l) == req' = [req EXCEPT ![p].pc = l]
Done(p) == req' = [req EXCEPT ![p] = Idle]
MayBegin(p) ==
    /\ At(p, "idle")
    /\ InTurn => WorkerIdle /\ \A q \in Procs : At(q, "idle")

\* CreateAsync inserts the row; its goroutine goes on.
BeginCreate(p, i) ==
    /\ MayBegin(p) /\ "create" \in Ops
    /\ row[i].status = "none"
    /\ \E s \in Policy : row' = [row EXCEPT ![i].status = "creating", ![i].policy = s]
    /\ since' = [since EXCEPT ![i] = now]
    /\ req' = [req EXCEPT ![p] = [Idle EXCEPT !.op = "create", !.pc = "recreate", !.inst = i]]
    /\ UNCHANGED <<now, cont, worker, upAt>>

FirstCall == [start |-> "start", stop |-> "stop", reset |-> "touch",
              rebuild |-> "remove", rename |-> "stop"]

\* renameContainer stops and starts only an instance that it reads as running.
Begin(p, o, i) ==
    /\ MayBegin(p) /\ o \in Ops \cap DOMAIN FirstCall
    /\ row[i].status # "none"
    /\ o = "rename" => row[i].status = "running"
    /\ req' = [req EXCEPT ![p] = [Idle EXCEPT !.op = o, !.pc = FirstCall[o], !.inst = i]]
    /\ UNCHANGED <<now, row, cont, worker, upAt, since>>

\* SleepHandler.Update reads the policy, replaces the fields that the request
\* gives - both, one or none - and will write the two of them.
BeginUpdate(p, i) ==
    /\ MayBegin(p) /\ "update" \in Ops
    /\ row[i].status # "none"
    /\ \E s \in Policy, F \in SUBSET {"disabled", "timeout"} :
         req' = [req EXCEPT ![p] =
           [op |-> "update", pc |-> "policy", inst |-> i, fields |-> F,
            set |-> [disabled |-> (IF "disabled" \in F THEN s ELSE row[i].policy).disabled,
                     timeout  |-> (IF "timeout" \in F THEN s ELSE row[i].policy).timeout]]]
    /\ UNCHANGED <<now, row, cont, worker, upAt, since>>

WritePolicy(p) ==
    /\ At(p, "policy")
    /\ row' = [row EXCEPT ![req[p].inst].policy = req[p].set]
    /\ since' = [since EXCEPT ![req[p].inst] = now]
    /\ Done(p)
    /\ UNCHANGED <<now, cont, worker, upAt>>

\* The teardown of a Rebuild: a stop whose error is ignored, then the delete,
\* which refuses a running container.
Remove(p) ==
    /\ At(p, "remove")
    /\ LET i == req[p].inst IN
       \/ cont' = [cont EXCEPT ![i] = "absent"] /\ Goto(p, "recreate")
       \/ cont[i] = "on" /\ "StopInstance" \in Faults /\ Done(p) /\ UNCHANGED cont
    /\ UNCHANGED <<now, row, worker, upAt, since>>

Recreate(p) ==
    /\ At(p, "recreate")
    /\ LET i == req[p].inst IN
         IF cont[i] = "absent"
           THEN cont' = [cont EXCEPT ![i] = "off"] /\ Goto(p, "start")
           ELSE UNCHANGED cont /\ Goto(p, "error")
    /\ UNCHANGED <<now, row, worker, upAt, since>>

\* Create touches last_active_at before it writes the status, Start after.
StartContainer(p) ==
    /\ At(p, "start")
    /\ LET i == req[p].inst IN
       \/ /\ cont[i] = "off"
          /\ cont' = [cont EXCEPT ![i] = "on"]
          /\ upAt' = [upAt EXCEPT ![i] = now]
          /\ since' = [since EXCEPT ![i] = now]
          /\ Goto(p, IF req[p].op = "create" THEN "touch" ELSE "running")
       \/ /\ cont[i] # "off" \/ "StartInstance" \in Faults
          /\ IF req[p].op \in {"create", "rebuild"} THEN Goto(p, "error") ELSE Done(p)
          /\ UNCHANGED <<cont, upAt, since>>
    /\ UNCHANGED <<now, row, worker>>

\* Mutant: Start does not restart the timer.
WriteRunningOnly(p) ==
    /\ At(p, "running")
    /\ Written(req[p].inst, "running")
    /\ Done(p)
    /\ UNCHANGED <<now, cont, worker, upAt>>
WriteRunning(p) ==
    /\ At(p, "running")
    /\ Written(req[p].inst, "running")
    /\ IF req[p].op = "start" THEN Goto(p, "touch") ELSE Done(p)
    /\ UNCHANGED <<now, cont, worker, upAt>>

Touch(p) ==
    /\ At(p, "touch")
    /\ row' = [row EXCEPT ![req[p].inst].last = now]
    /\ IF req[p].op = "create" THEN Goto(p, "running") ELSE Done(p)
    /\ UNCHANGED <<now, cont, worker, upAt, since>>

\* Mutant: the status is written although the container did not stop.
StopContainerAnyway(p) ==
    /\ At(p, "stop")
    /\ LET i == req[p].inst IN
       \/ CanStop(i) /\ cont' = [cont EXCEPT ![i] = "off"]
       \/ (~CanStop(i) \/ "StopInstance" \in Faults) /\ UNCHANGED cont
    /\ Goto(p, "stopped")
    /\ UNCHANGED <<now, row, worker, upAt, since>>
StopContainer(p) ==
    /\ At(p, "stop")
    /\ LET i == req[p].inst IN
       \/ CanStop(i) /\ cont' = [cont EXCEPT ![i] = "off"] /\ Goto(p, "stopped")
       \/ (~CanStop(i) \/ "StopInstance" \in Faults) /\ UNCHANGED cont /\ Done(p)
    /\ UNCHANGED <<now, row, worker, upAt, since>>

WriteStopped(p) ==
    /\ At(p, "stopped")
    /\ Written(req[p].inst, "stopped")
    /\ IF req[p].op = "rename" THEN Goto(p, "start") ELSE Done(p)
    /\ UNCHANGED <<now, cont, worker, upAt>>

WriteError(p) ==
    /\ At(p, "error")
    /\ Written(req[p].inst, "error")
    /\ Done(p)
    /\ UNCHANGED <<now, cont, worker, upAt>>

-----------------------------------------------------------------------------
Sweep == List \/ TakeNext \/ WorkerStop \/ WorkerWrite
Step(p) ==
    \/ WritePolicy(p) \/ Remove(p) \/ Recreate(p) \/ StartContainer(p)
    \/ WriteRunning(p) \/ Touch(p) \/ StopContainer(p) \/ WriteStopped(p) \/ WriteError(p)

Next ==
    \/ Advance \/ Sweep
    \/ \E p \in Procs :
         \/ Step(p)
         \/ \E i \in Insts : \/ BeginCreate(p, i) \/ BeginUpdate(p, i)
                             \/ \E o \in AllOps : Begin(p, o, i)

Spec == Init /\ [][Next]_vars

-----------------------------------------------------------------------------
\* An instance that runs past its deadline is stopped by the next sweep, at
\* most Interval later (sleep_service.go:16-18), plus the time that Incus takes
\* to stop it and those before it in the list - however the requests interleave
\* with the sweep, as long as Incus stops what it is told to stop.
LaterOf(a, b) == IF a < b THEN b ELSE a
DueSince(i) ==
    IF row[i].last = None THEN since[i] ELSE LaterOf(row[i].last + Effective(i), since[i])
StoppedInTime ==
    \A i \in Insts : cont[i] = "on" /\ row[i].status = "running" /\ ~row[i].policy.disabled =>
        now <= DueSince(i) + Interval + Cardinality(Insts) * StopTime

WorkerStops(i) == worker.pc = "stop" /\ worker.inst = i /\ worker'.pc = "write"

\* "The timer counts from the last start" (README.md:258-260): the worker does
\* not stop a container that came up less than its timeout ago.
CountedFromStart ==
    [][\A i \in Insts : WorkerStops(i) => upAt[i] + Effective(i) <= now]_vars

\* Between requests and sweeps a container that runs has a row that says so:
\* otherwise no sweep lists it and it is never stopped (architecture.md:107).
RunningIsListed ==
    WorkerIdle /\ (\A p \in Procs : At(p, "idle")) =>
        \A i \in Insts : cont[i] = "on" => row[i].status = "running"

\* "a caller can change one field without having to restate the other"
\* (handlers/sleep.go:38-39): a field that the update does not give stays as it is.
FieldKept ==
    [][\A p \in Procs : At(p, "policy") /\ ~At(p, "policy")' =>
         LET i == req[p].inst IN
           \A f \in {"disabled", "timeout"} \ req[p].fields :
               row'[i].policy[f] = row[i].policy[f]]_vars

-----------------------------------------------------------------------------
(* What the repository says and the code does not do.                      *)

\* A user who pushes the deadline back, or turns auto-stop off, in time keeps
\* the instance (the comment of ResetTimer): what is stopped is due.
StopsOnlyDue == [][\A i \in Insts : WorkerStops(i) => Due(i)]_vars

\* "nil when nothing is scheduled" (the comment of SleepsAt): an instance that
\* a sweep would stop has a deadline to show.
ShownDeadline == \A i \in Insts : Due(i) => SleepsAt(i) # None
=============================================================================
