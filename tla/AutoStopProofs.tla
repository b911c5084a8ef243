--------------------------- MODULE AutoStopProofs ---------------------------
(***************************************************************************)
(* Theorems about AutoStop: for any instances, requests, timeouts and      *)
(* interval, a sweep comes in time as long as Incus stops what it is told  *)
(* to stop; and without overlap the worker stops only what has run for its *)
(* whole timeout, and lists whatever runs.                                 *)
(***************************************************************************)
EXTENDS AutoStop, FiniteSetTheorems, TLAPS

-----------------------------------------------------------------------------
(* Arithmetic.                                                             *)

LEMMA Division == \A a \in Nat, b \in Nat \ {0} : \E q \in Nat, r \in 0 .. (b - 1) : a = q * b + r /\ a % b = r
BY Z3T(30)

LEMMA Remainders ==
    ASSUME NEW q \in Nat, NEW u \in Nat, NEW b \in Nat \ {0}, NEW r \in 0 .. (b - 1), NEW s \in 0 .. (b - 1),
           q * b + r = u * b + s
    PROVE  r = s
OBVIOUS

\* The next multiple after a multiple.
LEMMA NextMultiple ==
    ASSUME NEW m \in Nat, NEW b \in Nat \ {0}, m % b = 0, NEW t \in Nat, m < t, t <= m + b
    PROVE  t % b = 0 <=> t = m + b
<1>1. PICK q \in Nat : m = q * b
  BY Division
<1>2. PICK u \in Nat, r \in 0 .. (b - 1) : t = u * b + r /\ t % b = r
  BY Division
<1>3. q * b \in Nat /\ u * b \in Nat /\ (q + 1) * b = q * b + b
  OBVIOUS
<1>4. CASE t = m + b
  <2>1. u * b + r = (q + 1) * b + 0
    BY <1>1, <1>2, <1>3, <1>4
  <2>2. r = 0
    BY <2>1, Remainders
  <2>3. QED
    BY <1>2, <1>4, <2>2
<1>5. CASE t < m + b
  <2>1. PICK s \in 1 .. (b - 1) : t = m + s
    <3>1. t - m \in 1 .. (b - 1) /\ t = m + (t - m)
      BY <1>5
    <3>2. QED
      BY <3>1
  <2>2. u * b + r = q * b + s
    BY <1>1, <1>2, <2>1
  <2>3. r = s
    BY <2>2, Remainders
  <2>4. QED
    BY <1>2, <1>5, <2>1, <2>3
<1>6. QED
  BY <1>4, <1>5

-----------------------------------------------------------------------------
(* Types.                                                                  *)


ClockTyped == now \in Time /\ upAt \in [Insts -> Time] /\ since \in [Insts -> Time]
TablesTyped == row \in [Insts -> Row] /\ cont \in [Insts -> {"absent", "off", "on"}]
LEMMA TypeParts == TypeOK <=> ClockTyped /\ TablesTyped /\ worker \in Worker /\ req \in [Procs -> Request]
BY DEF TypeOK, ClockTyped, TablesTyped
LEMMA TypePartsNext ==
    ASSUME ClockTyped', TablesTyped', worker' \in Worker, req' \in [Procs -> Request] PROVE TypeOK'
BY DEF TypeOK, ClockTyped, TablesTyped

LEMMA Basics ==
    /\ None \notin Nat /\ None \notin Insts /\ MaxTime \in Nat /\ StopTime \in Nat /\ Interval \in Nat /\ Interval > 0
    /\ Default \in Nat /\ Default > 0 /\ Timeouts \subseteq Nat /\ 0 \in Timeouts
    /\ Time \subseteq Nat /\ 0 \in Time
BY TimesAssumption, SetsAssumption DEF Time

LEMMA IdleTyped == Idle \in Request /\ NoPolicy \in Policy
BY Basics DEF Idle, NoPolicy, Request, Policy

LEMMA TypeInit == Init => TypeOK
BY Basics, IdleTyped DEF Init, TypeOK, Row, Worker, Time

\* A request goes on, or is done.
LEMMA RequestGoes ==
    ASSUME TypeOK, NEW p \in Procs, NEW l \in {"idle", "remove", "recreate", "start", "running", "touch",
                                              "stop", "stopped", "error", "policy"}
    PROVE  (Goto(p, l) \/ Done(p)) => req' \in [Procs -> Request]
<1>1. [req[p] EXCEPT !.pc = l] \in Request
  BY DEF TypeOK, Request
<1>2. QED
  BY <1>1, IdleTyped DEF TypeOK, Goto, Done

\* Processes that have begun are about an instance.
Busy(p) == req[p].pc # "idle"
Aimed == \A p \in Procs : Busy(p) => req[p].inst \in Insts
WorkerAimed == worker.pc \in {"stop", "write"} => worker.inst \in Insts
Base == TypeOK /\ Aimed /\ WorkerAimed

LEMMA BusyStep == ASSUME NEW p, Step(p) PROVE Busy(p)
BY DEF Step, WritePolicy, Remove, Recreate, StartContainer, WriteRunning, Touch, StopContainer, WriteStopped, WriteError, At, Busy

\* What a step of a request leaves alone: time, the worker and the others.
LEMMA StepAlone ==
    ASSUME Base, NEW p \in Procs, Step(p)
    PROVE  /\ now' = now /\ worker' = worker /\ req' \in [Procs -> Request]
           /\ req'[p].inst = req[p].inst \/ ~Busy(p)'
           /\ \A q \in Procs \ {p} : req'[q] = req[q]
<1>1. now' = now /\ worker' = worker
  BY DEF Step, WritePolicy, Remove, Recreate, StartContainer, WriteRunning, Touch, StopContainer, WriteStopped, WriteError, Written
<1>2. PICK l \in {"idle", "remove", "recreate", "start", "running", "touch", "stop", "stopped", "error", "policy"} :
        Goto(p, l) \/ Done(p)
  BY DEF Step, WritePolicy, Remove, Recreate, StartContainer, WriteRunning, Touch, StopContainer, WriteStopped, WriteError
<1>3. req \in [Procs -> Request]
  BY DEF Base, TypeOK
<1>4. req' \in [Procs -> Request]
  BY <1>2, RequestGoes DEF Base
<1>5. req'[p].inst = req[p].inst \/ ~Busy(p)'
  <2>1. CASE Goto(p, l)
    BY <1>3, <2>1 DEF Goto, Request
  <2>2. CASE Done(p)
    BY <1>3, <2>2 DEF Done, Idle, Busy
  <2>3. QED
    BY <1>2, <2>1, <2>2
<1>6. \A q \in Procs \ {p} : req'[q] = req[q]
  BY <1>2, <1>3 DEF Goto, Done
<1>7. QED
  BY <1>1, <1>4, <1>5, <1>6

LEMMA WrittenTyped ==
    ASSUME TypeOK, NEW i \in Insts, NEW s \in {"none", "creating", "running", "stopped", "error"}, Written(i, s)
    PROVE  row' \in [Insts -> Row] /\ since' \in [Insts -> Time]
<1>1. [row[i] EXCEPT !.status = s] \in Row
  BY DEF TypeOK, Row
<1>2. QED
  BY <1>1 DEF TypeOK, Written

LEMMA StepTyped ==
    ASSUME Base, NEW p \in Procs, Step(p)
    PROVE  ClockTyped' /\ TablesTyped'
<1>1. PICK i \in Insts : i = req[p].inst
  BY BusyStep DEF Base, Aimed
<1>2. TypeOK /\ ClockTyped /\ TablesTyped /\ now' = now
  BY TypeParts, StepAlone DEF Base
<1>3. CASE WritePolicy(p)
  <2>1. [row[i] EXCEPT !.policy = req[p].set] \in Row
    BY <1>2 DEF TypeOK, Row, Request
  <2>2. row' = [row EXCEPT ![i] = [@ EXCEPT !.policy = req[p].set]]
    BY <1>1, <1>3 DEF WritePolicy
  <2>3. QED
    BY <1>1, <1>2, <1>3, <2>1, <2>2 DEF WritePolicy, ClockTyped, TablesTyped
<1>4. CASE Touch(p)
  <2>1. [row[i] EXCEPT !.last = now] \in Row
    BY <1>2 DEF TypeOK, Row
  <2>2. QED
    BY <1>1, <1>2, <1>4, <2>1 DEF Touch, ClockTyped, TablesTyped
<1>5. CASE StartContainer(p)
  BY <1>1, <1>2, <1>5 DEF StartContainer, ClockTyped, TablesTyped
<1>6. CASE Remove(p) \/ Recreate(p) \/ StopContainer(p)
  BY <1>1, <1>2, <1>6 DEF Remove, Recreate, StopContainer, ClockTyped, TablesTyped
<1>7. CASE WriteRunning(p) \/ WriteStopped(p) \/ WriteError(p)
  <2>1. \E s \in {"running", "stopped", "error"} : Written(i, s)
    BY <1>1, <1>7 DEF WriteRunning, WriteStopped, WriteError
  <2>2. row' \in [Insts -> Row] /\ since' \in [Insts -> Time]
    BY <1>2, <2>1, WrittenTyped
  <2>3. QED
    BY <1>2, <1>7, <2>2 DEF WriteRunning, WriteStopped, WriteError, ClockTyped, TablesTyped
<1>8. QED
  BY <1>3, <1>4, <1>5, <1>6, <1>7 DEF Step

\* The first step of a request.
Begins(p) == \E i \in Insts : BeginCreate(p, i) \/ BeginUpdate(p, i) \/ \E o \in AllOps : Begin(p, o, i)

LEMMA BeginTyped ==
    ASSUME TypeOK, NEW p \in Procs, Begins(p)
    PROVE  /\ ClockTyped' /\ TablesTyped' /\ now' = now /\ worker' = worker /\ cont' = cont /\ upAt' = upAt
           /\ req' \in [Procs -> Request] /\ req'[p].inst \in Insts
           /\ \A q \in Procs \ {p} : req'[q] = req[q]
<1>1. PICK i \in Insts : BeginCreate(p, i) \/ BeginUpdate(p, i) \/ \E o \in AllOps : Begin(p, o, i)
  BY DEF Begins
<1>2. ClockTyped /\ TablesTyped /\ req \in [Procs -> Request]
  BY TypeParts
<1>3. CASE BeginCreate(p, i)
  <2>1. PICK s \in Policy : row' = [row EXCEPT ![i].status = "creating", ![i].policy = s]
    BY <1>3 DEF BeginCreate
  <2>2. [row[i] EXCEPT !.status = "creating", !.policy = s] \in Row
    BY <1>2 DEF TablesTyped, Row
  <2>3. row' = [row EXCEPT ![i] = [@ EXCEPT !.status = "creating", !.policy = s]]
    BY <1>2, <2>1 DEF TablesTyped
  <2>4. PICK r : r = [Idle EXCEPT !.op = "create", !.pc = "recreate", !.inst = i]
    OBVIOUS
  <2>5. r \in Request /\ r.inst = i
    BY <2>4, IdleTyped DEF Request, Idle, AllOps
  <2>6. req' = [req EXCEPT ![p] = r]
    BY <1>3, <2>4 DEF BeginCreate
  <2>7. req' \in [Procs -> Request] /\ req'[p].inst \in Insts /\ \A q \in Procs \ {p} : req'[q] = req[q]
    BY <1>2, <2>5, <2>6
  <2>8. ClockTyped' /\ TablesTyped'
    BY <1>2, <1>3, <2>2, <2>3 DEF BeginCreate, ClockTyped, TablesTyped
  <2>9. QED
    BY <1>3, <2>7, <2>8 DEF BeginCreate
<1>4. CASE BeginUpdate(p, i)
  <2>1. PICK s \in Policy, F \in SUBSET {"disabled", "timeout"} :
          req' = [req EXCEPT ![p] = [op |-> "update", pc |-> "policy", inst |-> i, fields |-> F,
                                     set |-> [disabled |-> (IF "disabled" \in F THEN s ELSE row[i].policy).disabled,
                                             timeout  |-> (IF "timeout" \in F THEN s ELSE row[i].policy).timeout]]]
    BY <1>4 DEF BeginUpdate
  <2>2. [disabled |-> (IF "disabled" \in F THEN s ELSE row[i].policy).disabled,
                                             timeout  |-> (IF "timeout" \in F THEN s ELSE row[i].policy).timeout] \in Policy
    <3>1. row[i].policy \in Policy
      BY <1>2 DEF TablesTyped, Row
    <3>2. QED
      BY <2>1, <3>1 DEF Policy
  <2>3. [op |-> "update", pc |-> "policy", inst |-> i, fields |-> F,
         set |-> [disabled |-> (IF "disabled" \in F THEN s ELSE row[i].policy).disabled,
                                             timeout  |-> (IF "timeout" \in F THEN s ELSE row[i].policy).timeout]] \in Request
    BY <2>1, <2>2 DEF Request, AllOps
  <2>4. QED
    BY <1>2, <1>4, <2>1, <2>3 DEF BeginUpdate, ClockTyped, TablesTyped
<1>5. ASSUME NEW o \in AllOps, Begin(p, o, i)
      PROVE  /\ ClockTyped' /\ TablesTyped' /\ now' = now /\ worker' = worker /\ cont' = cont /\ upAt' = upAt
             /\ req' \in [Procs -> Request] /\ req'[p].inst \in Insts
             /\ \A q \in Procs \ {p} : req'[q] = req[q]
  <2>1. o \in {"start", "stop", "reset", "rebuild", "rename"}
    BY <1>5 DEF Begin, FirstCall
  <2>2. FirstCall[o] \in {"start", "stop", "touch", "remove"}
    BY <2>1 DEF FirstCall
  <2>3. [Idle EXCEPT !.op = o, !.pc = FirstCall[o], !.inst = i] \in Request
    BY <2>1, <2>2, IdleTyped DEF Request, Idle, AllOps
  <2>4. [Idle EXCEPT !.op = o, !.pc = FirstCall[o], !.inst = i].inst = i
    BY DEF Idle
  <2>5. QED
    BY <1>2, <1>5, <2>3, <2>4 DEF Begin, ClockTyped, TablesTyped
<1>6. QED
  BY <1>1, <1>3, <1>4, <1>5

LEMMA WorkerTyped ==
    ASSUME Base, Advance \/ Sweep
    PROVE  ClockTyped' /\ TablesTyped' /\ worker' \in Worker /\ WorkerAimed' /\ req' = req
<1>1. ClockTyped /\ TablesTyped /\ worker \in Worker /\ WorkerAimed
  BY TypeParts DEF Base
<1>2. now \in Nat /\ now <= MaxTime /\ StopTime \in Nat /\ MaxTime \in Nat
  BY <1>1, Basics DEF ClockTyped, Time
<1>3. CASE Advance
  <2>1. now' \in Time
    BY <1>2, <1>3 DEF Advance, Time
  <2>2. worker' = [worker EXCEPT !.tick = worker.tick \/ (now + 1) % Interval = 0]
    BY <1>3 DEF Advance
  <2>3. (worker.tick \/ (now + 1) % Interval = 0) \in BOOLEAN
    OBVIOUS
  <2>4. worker' \in Worker /\ WorkerAimed'
    BY <1>1, <2>2, <2>3 DEF Worker, WorkerAimed
  <2>5. QED
    BY <1>1, <1>3, <2>1, <2>4 DEF Advance, ClockTyped, TablesTyped
<1>4. CASE List
  <2>1. worker' = [worker EXCEPT !.pc = "sweep", !.tick = FALSE, !.todo = {i \in Insts : Due(i)}]
    BY <1>4 DEF List
  <2>2. worker' \in Worker /\ WorkerAimed'
    BY <1>1, <2>1 DEF Worker, WorkerAimed
  <2>3. QED
    BY <1>1, <1>4, <2>2 DEF List, ClockTyped, TablesTyped
<1>5. CASE TakeNext
  <2>1. CASE worker.todo = {}
    BY <1>1, <1>5, <2>1 DEF TakeNext, Worker, WorkerAimed, ClockTyped, TablesTyped
  <2>2. CASE worker.todo # {}
    <3>1. PICK i \in worker.todo :
            worker' = [worker EXCEPT !.pc = "stop", !.todo = @ \ {i}, !.inst = i, !.by = now + StopTime]
      BY <1>5, <2>2 DEF TakeNext
    <3>2. i \in Insts /\ now + StopTime \in 0 .. MaxTime + StopTime
      BY <1>1, <1>2 DEF Worker
    <3>3. worker' \in Worker /\ WorkerAimed'
      BY <1>1, <3>1, <3>2 DEF Worker, WorkerAimed
    <3>4. QED
      BY <1>1, <1>5, <3>3 DEF TakeNext, ClockTyped, TablesTyped
  <2>3. QED
    BY <2>1, <2>2
<1>6. CASE WorkerStop
  <2>1. worker.inst \in Insts
    BY <1>1, <1>6 DEF WorkerStop, WorkerAimed
  <2>2. worker' \in Worker
    <3>1. \/ worker' = [worker EXCEPT !.pc = "write", !.by = 0]
          \/ worker' = [worker EXCEPT !.pc = "sweep", !.inst = None, !.by = 0]
      BY <1>6 DEF WorkerStop
    <3>2. 0 \in 0 .. MaxTime + StopTime
      BY <1>2
    <3>3. QED
      BY <1>1, <3>1, <3>2 DEF Worker
  <2>3. WorkerAimed'
    BY <1>1, <1>6, <2>1 DEF WorkerStop, WorkerAimed, Worker
  <2>4. QED
    BY <1>1, <1>6, <2>2, <2>3 DEF WorkerStop, ClockTyped, TablesTyped
<1>7. CASE WorkerWrite
  <2>1. row' \in [Insts -> Row] /\ since' \in [Insts -> Time]
    BY <1>1, <1>7, WrittenTyped DEF WorkerWrite, WorkerAimed, Base
  <2>2. worker' \in Worker /\ WorkerAimed'
    BY <1>1, <1>7 DEF WorkerWrite, Worker, WorkerAimed
  <2>3. QED
    BY <1>1, <1>7, <2>1, <2>2 DEF WorkerWrite, ClockTyped, TablesTyped
<1>8. req' = req
  BY DEF Advance, Sweep, List, TakeNext, WorkerStop, WorkerWrite
<1>9. QED
  BY <1>3, <1>4, <1>5, <1>6, <1>7, <1>8 DEF Sweep

LEMMA BaseNext == ASSUME Base, [Next]_vars PROVE Base'
<1>1. TypeOK /\ ClockTyped /\ TablesTyped /\ worker \in Worker /\ req \in [Procs -> Request] /\ Aimed /\ WorkerAimed
  BY TypeParts DEF Base
<1>2. CASE Advance \/ Sweep
  <2>1. ClockTyped' /\ TablesTyped' /\ worker' \in Worker /\ WorkerAimed' /\ req' = req
    BY <1>2, WorkerTyped
  <2>2. Aimed' /\ req' \in [Procs -> Request]
    BY <1>1, <2>1 DEF Aimed, Busy
  <2>3. QED
    BY <2>1, <2>2, TypePartsNext DEF Base
<1>3. ASSUME NEW p \in Procs, Step(p) PROVE Base'
  <2>1. ClockTyped' /\ TablesTyped'
    BY <1>3, StepTyped
  <2>2. /\ worker' = worker /\ req' \in [Procs -> Request]
        /\ req'[p].inst = req[p].inst \/ ~Busy(p)'
        /\ \A q \in Procs \ {p} : req'[q] = req[q]
    BY <1>3, StepAlone
  <2>3. Aimed'
    BY <1>1, <1>3, <2>2, BusyStep DEF Aimed, Busy
  <2>4. worker' \in Worker /\ WorkerAimed'
    BY <1>1, <2>2 DEF WorkerAimed
  <2>5. QED
    BY <2>1, <2>2, <2>3, <2>4, TypePartsNext DEF Base
<1>4. ASSUME NEW p \in Procs, Begins(p) PROVE Base'
  <2>1. /\ ClockTyped' /\ TablesTyped' /\ worker' = worker
        /\ req' \in [Procs -> Request] /\ req'[p].inst \in Insts
        /\ \A q \in Procs \ {p} : req'[q] = req[q]
    BY <1>1, <1>4, BeginTyped
  <2>2. Aimed' /\ WorkerAimed' /\ worker' \in Worker
    BY <1>1, <2>1 DEF Aimed, Busy, WorkerAimed
  <2>3. QED
    BY <2>1, <2>2, TypePartsNext DEF Base
<1>5. CASE UNCHANGED vars
  BY <1>1, <1>5 DEF vars, Base, TypeOK, Aimed, WorkerAimed, Busy
<1>6. QED
  BY <1>2, <1>3, <1>4, <1>5 DEF Next, Begins

LEMMA SpecBase == Spec => []Base
<1>1. Init => Base
  BY TypeInit, Basics DEF Init, Base, Aimed, WorkerAimed, Busy, Idle
<1>2. QED
  BY <1>1, BaseNext, PTL DEF Spec

\* Every reachable state is well typed.
THEOREM TypeCorrect == Spec => []TypeOK
BY SpecBase, PTL DEF Base

-----------------------------------------------------------------------------
(* In time.                                                                *)

\* How long a sweep may take.
Longest == Cardinality(Insts) * StopTime
\* The tick that started the last sweep, at time m; the next one is at m + Interval.
Paced(m) ==
    /\ m % Interval = 0 /\ m <= now /\ now <= m + Interval
    /\ worker.tick <=> now = m + Interval
    /\ worker.pc \in {"sweep", "write"} => now + Cardinality(worker.todo) * StopTime <= m + Longest
    /\ worker.pc = "stop" => now <= worker.by /\ worker.by + Cardinality(worker.todo) * StopTime <= m + Longest
\* The sweep will come to i, or is there.
InCare(i) == (worker.pc # "idle" /\ i \in worker.todo) \/ (worker.pc = "stop" /\ i = worker.inst)
Exposed(i) == cont[i] = "on" /\ row[i].status = "running" /\ ~row[i].policy.disabled
\* No instance has been due since before the sweep, or the one before if this one will stop it.
Current(m) ==
    \A i \in Insts : Exposed(i) => IF InCare(i) THEN m <= DueSince(i) + Interval ELSE m <= DueSince(i)
SweepInv == \E m \in Nat : Paced(m) /\ Current(m)

\* The timeout and the deadline, as functions of a row.
TimeoutOf(r) == IF r.policy.timeout > 0 THEN r.policy.timeout ELSE Default
DueOf(r, s) == IF r.last = None THEN s ELSE LaterOf(r.last + TimeoutOf(r), s)

LEMMA RowDue ==
    ASSUME NEW r \in Row, NEW s \in Time
    PROVE  /\ TimeoutOf(r) \in Nat /\ TimeoutOf(r) > 0 /\ DueOf(r, s) \in Nat /\ s <= DueOf(r, s) /\ s \in Nat
           /\ r.last # None => r.last \in Nat /\ r.last + TimeoutOf(r) <= DueOf(r, s)
<1>1. TimeoutOf(r) \in Nat /\ TimeoutOf(r) > 0
  <2>1. r.policy.timeout \in Nat /\ Default \in Nat /\ Default > 0
    <3>1. r.policy \in Policy
      BY DEF Row
    <3>2. r.policy.timeout \in Timeouts
      BY <3>1 DEF Policy
    <3>3. QED
      BY <3>2, Basics
  <2>2. QED
    BY <2>1 DEF TimeoutOf
<1>2. r.last # None => r.last \in Nat
  BY Basics DEF Row
<1>3. s \in Nat
  BY Basics
<1>4. QED
  BY <1>1, <1>2, <1>3 DEF DueOf, LaterOf

DueFacts(i) ==
    /\ Effective(i) \in Nat /\ Effective(i) > 0 /\ DueSince(i) \in Nat /\ since[i] <= DueSince(i)
    /\ row[i].last # None => row[i].last \in Nat /\ row[i].last + Effective(i) <= DueSince(i)
    /\ since[i] \in Nat /\ now \in Nat

LEMMA DueTyped == ASSUME TypeOK, NEW i \in Insts PROVE DueFacts(i)
<1>1. row[i] \in Row /\ since[i] \in Time /\ now \in Nat
  BY Basics DEF TypeOK
<1>2. Effective(i) = TimeoutOf(row[i]) /\ DueSince(i) = DueOf(row[i], since[i])
  BY DEF Effective, DueSince, TimeoutOf, DueOf
<1>3. QED
  BY <1>1, <1>2, RowDue DEF DueFacts

LEMMA DueTypedNext == ASSUME TypeOK', NEW i \in Insts PROVE DueFacts(i)'
<1>1. row'[i] \in Row /\ since'[i] \in Time /\ now' \in Nat
  BY Basics DEF TypeOK
<1>2. Effective(i)' = TimeoutOf(row'[i]) /\ DueSince(i)' = DueOf(row'[i], since'[i])
  BY DEF Effective, DueSince, TimeoutOf, DueOf
<1>3. QED
  BY <1>1, <1>2, RowDue DEF DueFacts

\* A request moves the deadline of what it touches to now at least.
LEMMA RequestMoves ==
    ASSUME Base, Base', NEW p \in Procs, Step(p) \/ Begins(p), NEW i \in Insts, Exposed(i)'
    PROVE  \/ Exposed(i) /\ DueSince(i)' = DueSince(i)
           \/ now <= DueSince(i)'
<1>1. now' = now /\ now \in Nat
  BY StepAlone, BeginTyped, DueTyped DEF Base, DueFacts
<1>2. ASSUME since'[i] = now PROVE now <= DueSince(i)'
  <2>1. (since[i] <= DueSince(i))'
    BY DueTypedNext DEF Base, DueFacts
  <2>2. QED
    BY <1>2, <2>1
<1>3. ASSUME row'[i] = row[i], cont'[i] = cont[i], since'[i] = since[i] PROVE Exposed(i) /\ DueSince(i)' = DueSince(i)
  BY <1>3 DEF Exposed, DueSince, Effective
<1>4. row \in [Insts -> Row] /\ since \in [Insts -> Time] /\ cont \in [Insts -> {"absent", "off", "on"}]
  BY DEF Base, TypeOK
<1>5. CASE Touch(p)
  <2>1. CASE i = req[p].inst
    <3>1. row'[i].last = now
      BY <1>4, <1>5, <2>1 DEF Touch, Row
    <3>2. (row[i].last # None => row[i].last \in Nat /\ row[i].last + Effective(i) <= DueSince(i) /\ Effective(i) \in Nat)'
      BY DueTypedNext DEF Base, DueFacts
    <3>3. (DueSince(i) \in Nat)'
      BY DueTypedNext DEF Base, DueFacts
    <3>4. now # None
      BY <1>1, Basics
    <3>5. now + Effective(i)' <= DueSince(i)' /\ Effective(i)' \in Nat
      BY <3>1, <3>2, <3>4
    <3>6. QED
      BY <1>1, <3>3, <3>5
  <2>2. CASE i # req[p].inst
    BY <1>3, <1>4, <1>5, <2>2 DEF Touch
  <2>3. QED
    BY <2>1, <2>2
<1>6. CASE WritePolicy(p)
  BY <1>2, <1>3, <1>4, <1>6 DEF WritePolicy
<1>7. CASE WriteRunning(p) \/ WriteStopped(p) \/ WriteError(p)
  BY <1>2, <1>3, <1>4, <1>7 DEF WriteRunning, WriteStopped, WriteError, Written
<1>8. CASE StartContainer(p)
  BY <1>2, <1>3, <1>4, <1>8 DEF StartContainer
<1>9. CASE Remove(p) \/ Recreate(p) \/ StopContainer(p)
  <2>1. row' = row /\ since' = since
    BY <1>9 DEF Remove, Recreate, StopContainer
  <2>2. cont'[i] = "on"
    BY DEF Exposed
  <2>3. cont'[i] = cont[i]
    BY <1>4, <1>9, <2>2 DEF Remove, Recreate, StopContainer
  <2>4. QED
    BY <1>3, <2>1, <2>3
<1>10. CASE Begins(p)
  <2>1. PICK k \in Insts : BeginCreate(p, k) \/ BeginUpdate(p, k) \/ \E o \in AllOps : Begin(p, o, k)
    BY <1>10 DEF Begins
  <2>2. CASE BeginCreate(p, k)
    BY <1>2, <1>3, <1>4, <2>2 DEF BeginCreate
  <2>3. CASE BeginUpdate(p, k) \/ \E o \in AllOps : Begin(p, o, k)
    BY <1>3, <2>3 DEF BeginUpdate, Begin
  <2>4. QED
    BY <2>1, <2>2, <2>3
<1>11. QED
  BY <1>5, <1>6, <1>7, <1>8, <1>9, <1>10 DEF Step

LEMMA Shorter ==
    ASSUME NEW S, IsFiniteSet(S), NEW x \in S
    PROVE  /\ Cardinality(S) \in Nat /\ Cardinality(S \ {x}) \in Nat
           /\ Cardinality(S \ {x}) * StopTime + StopTime = Cardinality(S) * StopTime
<1>1. Cardinality(S) \in Nat /\ Cardinality(S \ {x}) = Cardinality(S) - 1 /\ Cardinality(S \ {x}) \in Nat
  BY FS_RemoveElement, FS_CardinalityType
<1>2. \A k, t \in Nat : (k + 1) * t = k * t + t
  OBVIOUS
<1>3. Cardinality(S) = Cardinality(S \ {x}) + 1
  BY <1>1
<1>4. QED
  BY <1>1, <1>2, <1>3, Basics

LEMMA Products == \A k, t \in Nat : k * t \in Nat
OBVIOUS

SweepAssumption ==
    /\ IsFiniteSet(Insts) /\ Longest <= Interval
    /\ ~InTurn /\ "StopInstance" \notin Faults

LEMMA SweepNext == ASSUME SweepAssumption, Base, Base', SweepInv, [Next]_vars PROVE SweepInv'
<1>1. PICK m \in Nat : Paced(m) /\ Current(m)
  BY DEF SweepInv
<1>2. /\ worker \in Worker /\ worker' \in Worker /\ now \in Nat /\ now' \in Nat
      /\ Interval \in Nat /\ Interval > 0 /\ StopTime \in Nat
  BY Basics DEF Base, TypeOK
<1>3. /\ IsFiniteSet(worker.todo) /\ worker.todo \subseteq Insts
      /\ Cardinality(worker.todo) \in Nat /\ Cardinality(worker.todo) * StopTime \in Nat
      /\ Longest \in Nat /\ Longest <= Interval
  <2>1. worker.todo \subseteq Insts /\ IsFiniteSet(Insts) /\ Longest <= Interval
    BY <1>2 DEF Worker, SweepAssumption
  <2>2. IsFiniteSet(worker.todo) /\ Cardinality(worker.todo) \in Nat /\ Cardinality(Insts) \in Nat
    BY <2>1, FS_Subset, FS_CardinalityType
  <2>3. QED
    BY <1>2, <2>1, <2>2, Products DEF Longest
<1>4. \A i \in Insts : DueFacts(i) /\ DueFacts(i)'
  BY DueTyped, DueTypedNext DEF Base
<1>5. CASE Advance
  <2>1. /\ now' = now + 1 /\ row' = row /\ cont' = cont /\ since' = since
        /\ worker' = [worker EXCEPT !.tick = worker.tick \/ (now + 1) % Interval = 0]
        /\ (worker.pc = "idle" /\ ~worker.tick) \/ (worker.pc = "stop" /\ now < worker.by)
    BY <1>5 DEF Advance, WorkerIdle
  <2>2. /\ worker'.pc = worker.pc /\ worker'.todo = worker.todo /\ worker'.inst = worker.inst
        /\ worker'.by = worker.by /\ (worker'.tick <=> worker.tick \/ (now + 1) % Interval = 0)
    BY <1>2, <2>1 DEF Worker
  <2>3. m % Interval = 0 /\ m <= now /\ now <= m + Interval /\ (worker.tick <=> now = m + Interval)
    BY <1>1 DEF Paced
  <2>4. now < m + Interval
    <3>1. CASE worker.pc = "idle" /\ ~worker.tick
      BY <1>2, <2>3, <3>1
    <3>2. CASE worker.pc = "stop" /\ now < worker.by
      <4>1. worker.by + Cardinality(worker.todo) * StopTime <= m + Longest
        BY <1>1, <3>2 DEF Paced
      <4>2. worker.by \in Nat
        BY <1>2, Basics DEF Worker
      <4>3. QED
        BY <1>2, <1>3, <3>2, <4>1, <4>2
    <3>3. QED
      BY <2>1, <3>1, <3>2
  <2>5. worker'.tick <=> now' = m + Interval
    <3>1. (now + 1) % Interval = 0 <=> now + 1 = m + Interval
      <4>1. now + 1 \in Nat /\ m < now + 1 /\ now + 1 <= m + Interval /\ Interval \in Nat \ {0}
        BY <1>2, <2>3, <2>4
      <4>2. QED
        BY <2>3, <4>1, NextMultiple
    <3>2. ~worker.tick
      BY <1>2, <2>3, <2>4
    <3>3. QED
      BY <2>1, <2>2, <3>1, <3>2
  <2>6. worker.pc = "stop" => now' <= worker.by
    <3>1. worker.by \in Nat
      BY <1>2, Basics DEF Worker
    <3>2. QED
      BY <1>2, <2>1, <3>1
  <2>7. m <= now' /\ now' <= m + Interval
    BY <1>2, <2>1, <2>3, <2>4
  <2>8. Paced(m)'
    BY <1>1, <2>1, <2>2, <2>3, <2>5, <2>6, <2>7 DEF Paced
  <2>9. Current(m)'
    BY <1>1, <2>1, <2>2 DEF Current, Exposed, InCare, DueSince, Effective
  <2>10. QED
    BY <2>8, <2>9 DEF SweepInv
<1>6. CASE List
  <2>1. /\ now' = now /\ row' = row /\ cont' = cont /\ since' = since /\ worker.pc = "idle" /\ worker.tick
        /\ worker' = [worker EXCEPT !.pc = "sweep", !.tick = FALSE, !.todo = {i \in Insts : Due(i)}]
    BY <1>6 DEF List
  <2>2. worker'.pc = "sweep" /\ worker'.tick = FALSE /\ worker'.todo = {i \in Insts : Due(i)}
    BY <1>2, <2>1 DEF Worker
  <2>3. now = m + Interval /\ m % Interval = 0
    BY <1>1, <2>1 DEF Paced
  <2>4. now % Interval = 0
    <3>1. now \in Nat /\ m < now /\ now <= m + Interval /\ Interval \in Nat \ {0}
      BY <1>2, <2>3
    <3>2. QED
      BY <2>3, <3>1, NextMultiple
  <2>5. Cardinality({i \in Insts : Due(i)}) * StopTime <= Longest
    <3>1. {i \in Insts : Due(i)} \subseteq Insts /\ IsFiniteSet(Insts)
      BY DEF SweepAssumption
    <3>2. /\ Cardinality({i \in Insts : Due(i)}) <= Cardinality(Insts) /\ Cardinality(Insts) \in Nat
          /\ Cardinality({i \in Insts : Due(i)}) \in Nat
      BY <3>1, FS_Subset, FS_CardinalityType
    <3>3. \A a, b, t \in Nat : a <= b => a * t <= b * t
      OBVIOUS
    <3>4. QED
      BY <1>2, <3>2, <3>3 DEF Longest
  <2>6. Cardinality({i \in Insts : Due(i)}) * StopTime \in Nat
    BY <1>2, Products, FS_Subset, FS_CardinalityType DEF SweepAssumption
  <2>7. Paced(now)'
    BY <1>2, <1>3, <2>1, <2>2, <2>4, <2>5, <2>6 DEF Paced
  <2>8. ASSUME NEW i \in Insts, Exposed(i) PROVE IF Due(i) THEN now <= DueSince(i) + Interval ELSE now <= DueSince(i)
    <3>1. m <= DueSince(i)
      BY <1>1, <2>1, <2>8 DEF Current, InCare
    <3>2. CASE Due(i)
      BY <1>2, <1>4, <2>3, <3>1, <3>2 DEF DueFacts
    <3>3. CASE ~Due(i)
      <4>1. row[i].last # None /\ ~(row[i].last + Effective(i) < now)
        BY <2>8, <3>3 DEF Due, Exposed
      <4>2. QED
        BY <1>2, <1>4, <3>3, <4>1 DEF DueFacts
    <3>4. QED
      BY <3>2, <3>3
  <2>9. ASSUME NEW i \in Insts
        PROVE  (Exposed(i)' <=> Exposed(i)) /\ (InCare(i)' <=> Due(i)) /\ DueSince(i)' = DueSince(i)
    BY <2>1, <2>2 DEF Exposed, InCare, DueSince, Effective
  <2>10. Current(now)'
    BY <2>1, <2>8, <2>9 DEF Current
  <2>11. QED
    BY <1>2, <2>1, <2>7, <2>10 DEF SweepInv
<1>7. CASE TakeNext /\ worker.todo = {}
  <2>1. /\ now' = now /\ row' = row /\ cont' = cont /\ since' = since /\ worker.pc = "sweep"
        /\ worker' = [worker EXCEPT !.pc = "idle"]
    BY <1>7 DEF TakeNext
  <2>2. worker'.pc = "idle" /\ worker'.tick = worker.tick
    BY <1>2, <2>1 DEF Worker
  <2>3. Paced(m)'
    BY <1>1, <2>1, <2>2 DEF Paced
  <2>4. Current(m)'
    BY <1>1, <1>7, <2>1, <2>2 DEF Current, Exposed, InCare, DueSince, Effective
  <2>5. QED
    BY <2>3, <2>4 DEF SweepInv
<1>8. CASE TakeNext /\ worker.todo # {}
  <2>1. PICK k \in worker.todo :
          /\ worker' = [worker EXCEPT !.pc = "stop", !.todo = @ \ {k}, !.inst = k, !.by = now + StopTime]
          /\ now' = now /\ row' = row /\ cont' = cont /\ since' = since /\ worker.pc = "sweep"
    BY <1>8 DEF TakeNext
  <2>2. /\ worker'.pc = "stop" /\ worker'.todo = worker.todo \ {k} /\ worker'.inst = k
        /\ worker'.by = now + StopTime /\ worker'.tick = worker.tick
    BY <1>2, <2>1 DEF Worker
  <2>3. /\ Cardinality(worker.todo \ {k}) * StopTime + StopTime = Cardinality(worker.todo) * StopTime
        /\ Cardinality(worker.todo \ {k}) * StopTime \in Nat
    BY <1>2, <1>3, Shorter, Products
  <2>4. now + Cardinality(worker.todo) * StopTime <= m + Longest
    BY <1>1, <2>1 DEF Paced
  <2>5. (now + StopTime) + Cardinality(worker.todo \ {k}) * StopTime <= m + Longest /\ now <= now + StopTime
    BY <1>2, <1>3, <2>3, <2>4
  <2>6. Paced(m)'
    BY <1>1, <2>1, <2>2, <2>5 DEF Paced
  <2>7. \A i \in Insts : InCare(i)' <=> InCare(i)
    BY <2>1, <2>2 DEF InCare
  <2>8. Current(m)'
    BY <1>1, <2>1, <2>7 DEF Current, Exposed, DueSince, Effective
  <2>9. QED
    BY <2>6, <2>8 DEF SweepInv
<1>9. CASE WorkerStop
  <2>1. now' = now /\ row' = row /\ since' = since /\ worker.pc = "stop" /\ worker.inst \in Insts
    BY <1>9 DEF WorkerStop, Base, WorkerAimed
  <2>2. /\ worker'.pc \in {"write", "sweep"} /\ worker'.todo = worker.todo /\ worker'.tick = worker.tick
        /\ cont'[worker.inst] # "on" /\ \A i \in Insts : i # worker.inst => cont'[i] = cont[i]
    BY <1>2, <1>9, <2>1 DEF WorkerStop, CanStop, Worker, SweepAssumption, Base, TypeOK
  <2>3. now + Cardinality(worker.todo) * StopTime <= m + Longest
    <3>1. now <= worker.by /\ worker.by + Cardinality(worker.todo) * StopTime <= m + Longest
      BY <1>1, <2>1 DEF Paced
    <3>2. worker.by \in Nat
      BY <1>2, Basics DEF Worker
    <3>3. QED
      BY <1>2, <1>3, <3>1, <3>2
  <2>4. Paced(m)'
    BY <1>1, <2>1, <2>2, <2>3 DEF Paced
  <2>5. Current(m)'
    BY <1>1, <2>1, <2>2 DEF Current, Exposed, InCare, DueSince, Effective
  <2>6. QED
    BY <2>4, <2>5 DEF SweepInv
<1>10. CASE WorkerWrite
  <2>1. /\ now' = now /\ cont' = cont /\ worker.pc = "write" /\ worker.inst \in Insts
        /\ worker' = [worker EXCEPT !.pc = "sweep", !.inst = None]
        /\ row' = [row EXCEPT ![worker.inst].status = "stopped"] /\ since' = [since EXCEPT ![worker.inst] = now]
    BY <1>10 DEF WorkerWrite, Written, Base, WorkerAimed
  <2>2. worker'.pc = "sweep" /\ worker'.todo = worker.todo /\ worker'.tick = worker.tick
    BY <1>2, <2>1 DEF Worker
  <2>3. /\ row'[worker.inst].status = "stopped"
        /\ \A i \in Insts : i # worker.inst => row'[i] = row[i] /\ since'[i] = since[i]
    BY <2>1 DEF Base, TypeOK, Row
  <2>4. Paced(m)'
    BY <1>1, <2>1, <2>2 DEF Paced
  <2>5. Current(m)'
    BY <1>1, <2>1, <2>2, <2>3 DEF Current, Exposed, InCare, DueSince, Effective
  <2>6. QED
    BY <2>4, <2>5 DEF SweepInv
<1>11. ASSUME NEW p \in Procs, Step(p) \/ Begins(p) PROVE SweepInv'
  <2>1. now' = now /\ worker' = worker
    BY <1>11, StepAlone, BeginTyped DEF Base
  <2>2. Paced(m)'
    BY <1>1, <2>1 DEF Paced
  <2>3. ASSUME NEW i \in Insts, Exposed(i)'
        PROVE  IF InCare(i)' THEN m <= DueSince(i)' + Interval ELSE m <= DueSince(i)'
    <3>1. InCare(i)' <=> InCare(i)
      BY <2>1 DEF InCare
    <3>2. CASE Exposed(i) /\ DueSince(i)' = DueSince(i)
      BY <1>1, <3>1, <3>2 DEF Current
    <3>3. CASE now <= DueSince(i)'
      <4>1. m <= now
        BY <1>1 DEF Paced
      <4>2. DueSince(i)' \in Nat
        BY <1>4 DEF DueFacts
      <4>3. QED
        BY <1>2, <3>3, <4>1, <4>2
    <3>4. QED
      BY <1>11, <2>3, <3>2, <3>3, RequestMoves
  <2>4. Current(m)'
    BY <2>3 DEF Current
  <2>5. QED
    BY <2>2, <2>4 DEF SweepInv
<1>12. CASE UNCHANGED vars
  BY <1>12 DEF vars, SweepInv, Paced, Current, Exposed, InCare, DueSince, Effective
<1>13. QED
  BY <1>5, <1>6, <1>7, <1>8, <1>9, <1>10, <1>11, <1>12 DEF Next, Sweep, Begins

\* Whatever the requests do and however they interleave with the sweep, what
\* runs past its deadline is stopped by the next sweep, where all the stops of
\* a sweep fit between two ticks and Incus stops what it is told to stop.
THEOREM InTime ==
    ASSUME IsFiniteSet(Insts), Cardinality(Insts) * StopTime <= Interval,
           ~InTurn, "StopInstance" \notin Faults
    PROVE  Spec => []StoppedInTime
<1>1. SweepAssumption
  BY DEF SweepAssumption, Longest
<1>2. Init => SweepInv
  <2>1. SUFFICES ASSUME Init PROVE Paced(0) /\ Current(0)
    BY DEF SweepInv
  <2>2. 0 % Interval = 0
    <3>1. PICK q \in Nat, r \in 0 .. (Interval - 1) : 0 = q * Interval + r /\ 0 % Interval = r
      <4>1. 0 \in Nat /\ Interval \in Nat \ {0}
        BY Basics
      <4>2. QED
        BY <4>1, Division
    <3>2. q * Interval \in Nat
      BY <3>1, Basics, Products
    <3>3. QED
      BY <3>1, <3>2, Basics
  <2>3. Paced(0)
    BY <2>1, <2>2, Basics DEF Init, Paced
  <2>4. Current(0)
    BY <2>1 DEF Init, Current, Exposed
  <2>5. QED
    BY <2>3, <2>4
<1>3. Spec => []SweepInv
  BY <1>1, <1>2, SpecBase, SweepNext, BaseNext, PTL DEF Spec
<1>4. Base /\ SweepInv => StoppedInTime
  <2>1. SUFFICES ASSUME Base, NEW m \in Nat, Paced(m), Current(m), NEW i \in Insts, Exposed(i)
                 PROVE  now <= DueSince(i) + Interval + Longest
    BY DEF SweepInv, StoppedInTime, Exposed, Longest
  <2>2. DueFacts(i) /\ Interval \in Nat /\ worker \in Worker
    BY <2>1, DueTyped, Basics DEF Base, TypeOK
  <2>3. Longest \in Nat
    BY <2>1, FS_CardinalityType, Products, Basics DEF Longest
  <2>4. CASE ~InCare(i)
    BY <2>1, <2>2, <2>3, <2>4 DEF Paced, Current, DueFacts
  <2>5. CASE InCare(i)
    <3>1. IsFiniteSet(worker.todo) /\ Cardinality(worker.todo) * StopTime \in Nat
      BY <2>2, FS_Subset, FS_CardinalityType, Products, Basics DEF Worker
    <3>2. worker.by \in Nat
      BY <2>2, Basics DEF Worker
    <3>3. now <= m + Longest
      BY <2>1, <2>2, <2>3, <2>5, <3>1, <3>2 DEF Paced, InCare, DueFacts, Worker
    <3>4. m <= DueSince(i) + Interval
      BY <2>1, <2>5 DEF Current
    <3>5. QED
      BY <2>2, <2>3, <3>3, <3>4 DEF DueFacts
  <2>6. QED
    BY <2>4, <2>5
<1>5. QED
  BY <1>3, <1>4, SpecBase, PTL

-----------------------------------------------------------------------------
(* One at a time about an instance.                                        *)

TurnAssumption == Ops \subseteq {"create", "start", "stop", "reset", "update"}

\* The sweep has listed the instance, or is stopping it.
Sweeping(i) ==
    \/ worker.pc # "idle" /\ i \in worker.todo
    \/ worker.pc \in {"stop", "write"} /\ i = worker.inst
\* Each instance has one request at most, and none while a sweep is at it.
SleepApart ==
    /\ \A p, q \in Procs : Busy(p) /\ Busy(q) /\ req[p].inst = req[q].inst => p = q
    /\ \A p \in Procs : Busy(p) => ~Sweeping(req[p].inst)

\* What runs says so, and its timer was started after it.
Rest(i) == cont[i] = "on" => row[i].status = "running" /\ row[i].last # None /\ upAt[i] <= row[i].last
\* How far a request is from that.
Doing(p) ==
    LET i == req[p].inst IN
    \/ /\ req[p].op = "create"
       /\ \/ At(p, "recreate") /\ cont[i] = "absent"
          \/ At(p, "start") /\ cont[i] = "off"
          \/ At(p, "error") /\ cont[i] # "on"
          \/ At(p, "touch")
          \/ At(p, "running") /\ row[i].last # None /\ upAt[i] <= row[i].last
    \/ /\ req[p].op = "start"
       /\ \/ At(p, "start") /\ Rest(i)
          \/ At(p, "running")
          \/ At(p, "touch") /\ row[i].status = "running"
    \/ /\ req[p].op = "stop"
       /\ \/ At(p, "stop") /\ Rest(i)
          \/ At(p, "stopped") /\ cont[i] # "on"
    \/ req[p].op = "reset" /\ At(p, "touch") /\ Rest(i)
    \/ req[p].op = "update" /\ At(p, "policy") /\ Rest(i)
AtRest(i) == (\A p \in Procs : Busy(p) => req[p].inst # i) /\ ~(worker.pc = "write" /\ worker.inst = i)
\* A request is where its operation puts it, and the list stays due.
Known ==
    /\ \A p \in Procs : Busy(p) => Doing(p) /\ row[req[p].inst].status # "none"
    /\ \A i \in Insts : /\ AtRest(i) => Rest(i)
                        /\ row[i].status = "none" => cont[i] = "absent"
                        /\ upAt[i] <= now
Listed ==
    /\ worker.pc # "idle" => \A i \in worker.todo : Due(i)
    /\ worker.pc = "stop" => Due(worker.inst)
    /\ worker.pc = "write" => cont[worker.inst] # "on"
    /\ worker.pc \in {"stop", "write"} => worker.inst \notin worker.todo
TurnInv == Known /\ Listed

LEMMA DueLater ==
    ASSUME TypeOK, NEW i \in Insts, Due(i), row' = row, now' = now \/ now' = now + 1 PROVE Due(i)'
<1>1. DueFacts(i)
  BY DueTyped
<1>2. Effective(i)' = Effective(i)
  BY DEF Effective
<1>3. QED
  BY <1>1, <1>2 DEF Due, DueFacts

\* The worker's steps: no request is about the instance that the sweep is at.
LEMMA WorkerTurn == ASSUME Base, TurnInv, SleepApart, Advance \/ Sweep PROVE TurnInv'
<1>1. /\ worker \in Worker /\ now \in Nat /\ req' = req /\ upAt' = upAt
      /\ \A i \in Insts : row[i] \in Row /\ upAt[i] \in Nat
      /\ \A p \in Procs : Busy(p) => req[p].inst \in Insts
  BY WorkerTyped, Basics DEF Base, Aimed, TypeOK, Advance, Sweep, List, TakeNext, WorkerStop, WorkerWrite
<1>2. CASE Advance
  <2>1. now' = now + 1 /\ row' = row /\ cont' = cont
    BY <1>2 DEF Advance
  <2>2. worker'.pc = worker.pc /\ worker'.todo = worker.todo /\ worker'.inst = worker.inst
    BY <1>1, <1>2 DEF Advance, Worker
  <2>3. Known'
    BY <1>1, <2>1, <2>2 DEF TurnInv, Known, Busy, Doing, At, Rest, AtRest
  <2>4. worker.todo \subseteq Insts /\ (worker.pc = "stop" => worker.inst \in Insts)
    BY <1>1 DEF Worker, Base, WorkerAimed
  <2>5. Listed'
    BY <2>1, <2>2, <2>4, DueLater DEF TurnInv, Listed, Base
  <2>6. QED
    BY <2>3, <2>5 DEF TurnInv
<1>3. CASE List
  <2>1. now' = now /\ row' = row /\ cont' = cont /\ worker.pc = "idle"
    BY <1>3 DEF List
  <2>2. worker'.pc = "sweep" /\ worker'.todo = {i \in Insts : Due(i)}
    BY <1>1, <1>3 DEF List, Worker
  <2>3. Known'
    BY <1>1, <2>1, <2>2 DEF TurnInv, Known, Busy, Doing, At, Rest, AtRest
  <2>4. Listed'
    BY <2>1, <2>2 DEF Listed, Due, Effective
  <2>5. QED
    BY <2>3, <2>4 DEF TurnInv
<1>4. CASE TakeNext
  <2>1. now' = now /\ row' = row /\ cont' = cont /\ worker.pc = "sweep"
    BY <1>4 DEF TakeNext
  <2>2. \/ worker'.pc = "idle"
        \/ \E k \in worker.todo : worker'.pc = "stop" /\ worker'.todo = worker.todo \ {k} /\ worker'.inst = k
    BY <1>1, <1>4 DEF TakeNext, Worker
  <2>3. Known'
    BY <1>1, <2>1, <2>2 DEF TurnInv, Known, Busy, Doing, At, Rest, AtRest
  <2>4. Listed'
    BY <2>1, <2>2 DEF TurnInv, Listed, Due, Effective
  <2>5. QED
    BY <2>3, <2>4 DEF TurnInv
<1>5. CASE WorkerStop
  <2>1. now' = now /\ row' = row /\ worker.pc = "stop" /\ worker.inst \in Insts
    BY <1>5 DEF WorkerStop, Base, WorkerAimed
  <2>2. CASE /\ CanStop(worker.inst) /\ cont' = [cont EXCEPT ![worker.inst] = "off"]
             /\ worker' = [worker EXCEPT !.pc = "write", !.by = 0]
    <3>1. /\ worker'.pc = "write" /\ worker'.todo = worker.todo /\ worker'.inst = worker.inst
          /\ cont'[worker.inst] = "off" /\ cont[worker.inst] = "on"
          /\ \A i \in Insts : i # worker.inst => cont'[i] = cont[i]
      BY <1>1, <2>1, <2>2 DEF CanStop, Worker, Base, TypeOK
    <3>2. ASSUME NEW p \in Procs, Busy(p)' PROVE Doing(p)' /\ row'[req'[p].inst].status # "none"
      <4>1. Busy(p) /\ req[p].inst \in Insts /\ req[p].inst # worker.inst
        BY <1>1, <2>1, <3>2 DEF Busy, SleepApart, Sweeping
      <4>2. cont'[req[p].inst] = cont[req[p].inst]
        BY <3>1, <4>1
      <4>3. QED
        BY <1>1, <2>1, <4>1, <4>2 DEF TurnInv, Known, Doing, At, Rest
    <3>3. ASSUME NEW i \in Insts
          PROVE  (AtRest(i)' => Rest(i)') /\ (row'[i].status = "none" => cont'[i] = "absent") /\ upAt'[i] <= now'
      <4>1. CASE i = worker.inst
        BY <1>1, <2>1, <3>1, <4>1 DEF TurnInv, Known, AtRest
      <4>2. CASE i # worker.inst
        <5>1. AtRest(i)' => AtRest(i)
          BY <1>1, <2>1 DEF AtRest, Busy
        <5>2. QED
          BY <1>1, <2>1, <3>1, <4>2, <5>1 DEF TurnInv, Known, Rest
      <4>3. QED
        BY <4>1, <4>2
    <3>4. Listed'
      BY <2>1, <3>1 DEF TurnInv, Listed, Due, Effective
    <3>5. QED
      BY <3>2, <3>3, <3>4 DEF TurnInv, Known
  <2>3. CASE cont' = cont /\ worker' = [worker EXCEPT !.pc = "sweep", !.inst = None, !.by = 0]
    <3>1. worker'.pc = "sweep" /\ worker'.todo = worker.todo
      BY <1>1, <2>3 DEF Worker
    <3>2. Known'
      BY <1>1, <2>1, <2>3, <3>1 DEF TurnInv, Known, Busy, Doing, At, Rest, AtRest
    <3>3. Listed'
      BY <2>1, <2>3, <3>1 DEF TurnInv, Listed, Due, Effective
    <3>4. QED
      BY <3>2, <3>3 DEF TurnInv
  <2>4. QED
    BY <1>5, <2>2, <2>3 DEF WorkerStop
<1>6. CASE WorkerWrite
  <2>1. /\ now' = now /\ cont' = cont /\ worker.pc = "write" /\ worker.inst \in Insts /\ cont[worker.inst] # "on"
        /\ worker.inst \notin worker.todo
    BY <1>6 DEF WorkerWrite, Base, WorkerAimed, TurnInv, Listed
  <2>2. worker'.pc = "sweep" /\ worker'.todo = worker.todo
    BY <1>1, <1>6 DEF WorkerWrite, Worker
  <2>3. /\ row'[worker.inst] = [row[worker.inst] EXCEPT !.status = "stopped"]
        /\ \A i \in Insts : i # worker.inst => row'[i] = row[i]
    BY <1>6, <2>1 DEF WorkerWrite, Written, Base, TypeOK
  <2>4. row'[worker.inst].status = "stopped"
    BY <1>1, <2>1, <2>3 DEF Row
  <2>5. Known'
    <3>1. ASSUME NEW p \in Procs, Busy(p)' PROVE Doing(p)' /\ row'[req'[p].inst].status # "none"
      <4>1. Busy(p) /\ req[p].inst \in Insts /\ req[p].inst # worker.inst
        BY <1>1, <2>1, <3>1 DEF Busy, SleepApart, Sweeping
      <4>2. row'[req[p].inst] = row[req[p].inst]
        BY <2>3, <4>1
      <4>3. QED
        BY <1>1, <2>1, <4>1, <4>2 DEF TurnInv, Known, Doing, At, Rest
    <3>2. ASSUME NEW i \in Insts, i # worker.inst
          PROVE  (AtRest(i)' => Rest(i)') /\ (row'[i].status = "none" => cont'[i] = "absent") /\ upAt'[i] <= now'
      <4>1. (AtRest(i)' => AtRest(i)) /\ row'[i] = row[i]
        BY <1>1, <2>3, <3>2 DEF AtRest, Busy
      <4>2. QED
        BY <1>1, <2>1, <4>1 DEF TurnInv, Known, Rest
    <3>3. ASSUME NEW i \in Insts, i = worker.inst
          PROVE Rest(i)' /\ row'[i].status # "none" /\ upAt'[i] <= now'
      BY <1>1, <2>1, <2>4, <3>3 DEF TurnInv, Known, Rest
    <3>4. QED
      BY <3>1, <3>2, <3>3 DEF Known
  <2>6. Listed'
    <3>1. \A i \in worker.todo : i \in Insts /\ row'[i] = row[i] /\ Due(i)
      BY <1>1, <2>1, <2>3 DEF TurnInv, Listed, Worker
    <3>2. QED
      BY <2>1, <2>2, <3>1 DEF Listed, Due, Effective
  <2>7. QED
    BY <2>5, <2>6 DEF TurnInv
<1>7. QED
  BY <1>2, <1>3, <1>4, <1>5, <1>6 DEF Sweep

Labels == {"remove", "recreate", "start", "running", "touch", "stop", "stopped", "error", "policy"}
\* A request goes on or is done, about the same instance.
LEMMA RequestMade ==
    ASSUME TypeOK, NEW p \in Procs
    PROVE  /\ \A l \in Labels : Goto(p, l) => req'[p].pc = l /\ req'[p].op = req[p].op /\ req'[p].inst = req[p].inst
           /\ Done(p) => ~Busy(p)'
BY DEF TypeOK, Request, Goto, Done, Busy, Idle

\* What a step of a request does to its instance, and that it does nothing to the others.
Outcome(p, i) ==
    /\ \A j \in Insts : j # i => row'[j] = row[j] /\ cont'[j] = cont[j] /\ upAt'[j] = upAt[j]
    /\ upAt'[i] <= now /\ row'[i].status # "none"
    /\ IF Busy(p)' THEN Doing(p)' /\ req'[p].inst = i ELSE Rest(i)'

LEMMA StepTurn ==
    ASSUME TurnAssumption, Base, TurnInv, NEW p \in Procs, Step(p), NEW i \in Insts, i = req[p].inst
    PROVE  Outcome(p, i)
<1>1. i = req[p].inst
  OBVIOUS
<1>2. /\ Doing(p) /\ row[i].status # "none" /\ upAt[i] <= now
      /\ row[i] \in Row /\ upAt[i] \in Nat /\ now \in Nat /\ now # None
      /\ row \in [Insts -> Row] /\ cont \in [Insts -> {"absent", "off", "on"}] /\ upAt \in [Insts -> Time]
  BY <1>1, BusyStep, Basics DEF TurnInv, Known, Base, TypeOK
<1>3. /\ \A l \in Labels : Goto(p, l) => req'[p].pc = l /\ req'[p].op = req[p].op /\ req'[p].inst = i
      /\ Done(p) => ~Busy(p)'
      /\ \A l \in {"running", "touch", "error", "start", "stopped"} : l \in Labels
  BY <1>1, RequestMade DEF Base, Labels
<1>4. CASE WritePolicy(p)
  <2>1. /\ row' = [row EXCEPT ![i] = [@ EXCEPT !.policy = req[p].set]] /\ cont' = cont /\ upAt' = upAt
        /\ ~Busy(p)' /\ req[p].pc = "policy"
    BY <1>1, <1>3, <1>4 DEF WritePolicy, At
  <2>2. row'[i].status = row[i].status /\ row'[i].last = row[i].last /\ \A j \in Insts : j # i => row'[j] = row[j]
    BY <1>2, <2>1 DEF Row
  <2>3. Rest(i)
    BY <1>1, <1>2, <2>1 DEF Doing, At
  <2>4. Rest(i)'
    BY <2>1, <2>2, <2>3 DEF Rest
  <2>5. QED
    BY <1>1, <1>2, <2>1, <2>2, <2>4 DEF Outcome
<1>5. CASE Touch(p)
  <2>1. row' = [row EXCEPT ![i] = [@ EXCEPT !.last = now]] /\ cont' = cont /\ upAt' = upAt /\ req[p].pc = "touch"
    BY <1>1, <1>5 DEF Touch, At
  <2>2. row'[i].status = row[i].status /\ row'[i].last = now /\ \A j \in Insts : j # i => row'[j] = row[j]
    BY <1>2, <2>1 DEF Row
  <2>3. CASE req[p].op = "create"
    <3>1. req'[p].pc = "running" /\ req'[p].op = "create" /\ req'[p].inst = i
      BY <1>3, <1>5, <2>3 DEF Touch
    <3>2. Doing(p)' /\ Busy(p)'
      BY <1>2, <2>1, <2>2, <3>1 DEF Doing, At, Busy
    <3>3. QED
      BY <1>1, <1>2, <2>1, <2>2, <3>1, <3>2 DEF Outcome
  <2>4. CASE req[p].op # "create"
    <3>1. ~Busy(p)'
      BY <1>3, <1>5, <2>4 DEF Touch
    <3>2. cont[i] = "on" => row[i].status = "running"
      BY <1>1, <1>2, <2>1, <2>4 DEF Doing, At, Rest
    <3>3. Rest(i)'
      BY <1>2, <2>1, <2>2, <3>2 DEF Rest
    <3>4. QED
      BY <1>1, <1>2, <2>1, <2>2, <3>1, <3>3 DEF Outcome
  <2>5. QED
    BY <2>3, <2>4
<1>6. CASE StartContainer(p)
  <2>1. row' = row /\ req[p].pc = "start" /\ req[p].op \in {"create", "start"}
    BY <1>1, <1>2, <1>6 DEF StartContainer, Doing, At
  <2>2. CASE /\ cont[i] = "off" /\ cont' = [cont EXCEPT ![i] = "on"] /\ upAt' = [upAt EXCEPT ![i] = now]
             /\ Goto(p, IF req[p].op = "create" THEN "touch" ELSE "running")
    <3>1. /\ req'[p].pc = (IF req[p].op = "create" THEN "touch" ELSE "running")
          /\ req'[p].op = req[p].op /\ req'[p].inst = i
      BY <1>3, <2>2
    <3>2. upAt'[i] = now /\ \A j \in Insts : j # i => cont'[j] = cont[j] /\ upAt'[j] = upAt[j]
      BY <1>2, <2>2
    <3>3. Doing(p)' /\ Busy(p)'
      BY <2>1, <3>1 DEF Doing, At, Busy
    <3>4. QED
      BY <1>1, <1>2, <2>1, <3>1, <3>2, <3>3 DEF Outcome
  <2>3. CASE /\ cont' = cont /\ upAt' = upAt
             /\ IF req[p].op \in {"create", "rebuild"} THEN Goto(p, "error") ELSE Done(p)
    <3>1. CASE req[p].op = "create"
      <4>1. req'[p].pc = "error" /\ req'[p].op = "create" /\ req'[p].inst = i
        BY <1>3, <2>3, <3>1
      <4>2. cont[i] # "on"
        BY <1>1, <1>2, <2>1, <3>1 DEF Doing, At
      <4>3. Doing(p)' /\ Busy(p)'
        BY <2>3, <4>1, <4>2 DEF Doing, At, Busy
      <4>4. QED
        BY <1>1, <1>2, <2>1, <2>3, <4>1, <4>3 DEF Outcome
    <3>2. CASE req[p].op = "start"
      <4>1. ~Busy(p)'
        BY <1>3, <2>3, <3>2
      <4>2. Rest(i)
        BY <1>1, <1>2, <2>1, <3>2 DEF Doing, At
      <4>3. Rest(i)'
        BY <2>1, <2>3, <4>2 DEF Rest
      <4>4. QED
        BY <1>1, <1>2, <2>1, <2>3, <4>1, <4>3 DEF Outcome
    <3>3. QED
      BY <2>1, <3>1, <3>2
  <2>4. QED
    BY <1>1, <1>6, <2>2, <2>3 DEF StartContainer
<1>7. CASE Remove(p) \/ Recreate(p)
  <2>1. Recreate(p) /\ req[p].pc = "recreate" /\ req[p].op = "create" /\ cont[i] = "absent"
    BY <1>1, <1>2, <1>7 DEF Remove, Recreate, Doing, At
  <2>2. cont' = [cont EXCEPT ![i] = "off"] /\ Goto(p, "start") /\ row' = row /\ upAt' = upAt
    BY <1>1, <2>1 DEF Recreate
  <2>3. req'[p].pc = "start" /\ req'[p].op = "create" /\ req'[p].inst = i
    BY <1>3, <2>1, <2>2
  <2>4. Doing(p)' /\ Busy(p)'
    BY <1>2, <2>2, <2>3 DEF Doing, At, Busy
  <2>5. QED
    BY <1>1, <1>2, <2>2, <2>3, <2>4 DEF Outcome
<1>8. CASE StopContainer(p)
  <2>1. row' = row /\ upAt' = upAt /\ req[p].pc = "stop" /\ req[p].op = "stop" /\ Rest(i)
    BY <1>1, <1>2, <1>8 DEF StopContainer, Doing, At
  <2>2. CASE cont' = [cont EXCEPT ![i] = "off"] /\ Goto(p, "stopped")
    <3>1. req'[p].pc = "stopped" /\ req'[p].op = "stop" /\ req'[p].inst = i
      BY <1>3, <2>1, <2>2
    <3>2. Doing(p)' /\ Busy(p)'
      BY <1>2, <2>2, <3>1 DEF Doing, At, Busy
    <3>3. QED
      BY <1>1, <1>2, <2>1, <2>2, <3>1, <3>2 DEF Outcome
  <2>3. CASE cont' = cont /\ Done(p)
    <3>1. ~Busy(p)' /\ Rest(i)'
      BY <1>3, <2>1, <2>3 DEF Rest
    <3>2. QED
      BY <1>1, <1>2, <2>1, <2>3, <3>1 DEF Outcome
  <2>4. QED
    BY <1>1, <1>8, <2>2, <2>3 DEF StopContainer
<1>9. CASE WriteRunning(p)
  <2>1. row' = [row EXCEPT ![i] = [@ EXCEPT !.status = "running"]] /\ cont' = cont /\ upAt' = upAt /\ req[p].pc = "running"
    BY <1>1, <1>9 DEF WriteRunning, Written, At
  <2>2. row'[i].status = "running" /\ row'[i].last = row[i].last /\ \A j \in Insts : j # i => row'[j] = row[j]
    BY <1>2, <2>1 DEF Row
  <2>3. CASE req[p].op = "start"
    <3>1. req'[p].pc = "touch" /\ req'[p].op = "start" /\ req'[p].inst = i
      BY <1>3, <1>9, <2>3 DEF WriteRunning
    <3>2. Doing(p)' /\ Busy(p)'
      BY <2>2, <3>1 DEF Doing, At, Busy
    <3>3. QED
      BY <1>1, <1>2, <2>1, <2>2, <3>1, <3>2 DEF Outcome
  <2>4. CASE req[p].op # "start"
    <3>1. ~Busy(p)'
      BY <1>3, <1>9, <2>4 DEF WriteRunning
    <3>2. row[i].last # None /\ upAt[i] <= row[i].last
      BY <1>1, <1>2, <2>1, <2>4 DEF Doing, At
    <3>3. Rest(i)'
      BY <2>1, <2>2, <3>2 DEF Rest
    <3>4. QED
      BY <1>1, <1>2, <2>1, <2>2, <3>1, <3>3 DEF Outcome
  <2>5. QED
    BY <2>3, <2>4
<1>10. CASE WriteStopped(p) \/ WriteError(p)
  <2>1. PICK s \in {"stopped", "error"} :
          /\ row' = [row EXCEPT ![i] = [@ EXCEPT !.status = s]] /\ cont' = cont /\ upAt' = upAt /\ req[p].pc = s
    BY <1>1, <1>10 DEF WriteStopped, WriteError, Written, At
  <2>2. row'[i].status = s /\ \A j \in Insts : j # i => row'[j] = row[j]
    BY <1>2, <2>1 DEF Row
  <2>3. cont[i] # "on" /\ req[p].op # "rename"
    BY <1>1, <1>2, <2>1 DEF Doing, At
  <2>4. ~Busy(p)'
    BY <1>3, <1>10, <2>3 DEF WriteStopped, WriteError
  <2>5. Rest(i)'
    BY <2>1, <2>3 DEF Rest
  <2>6. QED
    BY <1>1, <1>2, <2>1, <2>2, <2>4, <2>5 DEF Outcome
<1>11. QED
  BY <1>1, <1>4, <1>5, <1>6, <1>7, <1>8, <1>9, <1>10 DEF Step

\* A request begins at rest, on an instance that has a row or is to have one.
LEMMA BeginTurn ==
    ASSUME TurnAssumption, Base, TurnInv, SleepApart', NEW p \in Procs, Begins(p)
    PROVE  \E i \in Insts : /\ Outcome(p, i) /\ ~Busy(p) /\ ~Sweeping(i)
                            /\ \A q \in Procs \ {p} : Busy(q) => req[q].inst # i
<1>1. PICK i \in Insts : BeginCreate(p, i) \/ BeginUpdate(p, i) \/ \E o \in AllOps : Begin(p, o, i)
  BY DEF Begins
<1>2. /\ cont' = cont /\ upAt' = upAt /\ worker' = worker /\ row \in [Insts -> Row] /\ req \in [Procs -> Request]
      /\ \A q \in Procs \ {p} : req'[q] = req[q]
  BY BeginTyped DEF Base, TypeOK
<1>3. ~Busy(p) /\ Busy(p)' /\ req'[p].inst = i
  <2>1. ~Busy(p)
    BY <1>1 DEF BeginCreate, BeginUpdate, Begin, MayBegin, At, Busy
  <2>2. CASE BeginCreate(p, i)
    BY <1>2, <2>1, <2>2 DEF BeginCreate, Idle, Busy
  <2>3. CASE BeginUpdate(p, i)
    BY <1>2, <2>1, <2>3 DEF BeginUpdate, Busy
  <2>4. ASSUME NEW o \in AllOps, Begin(p, o, i) PROVE Busy(p)' /\ req'[p].inst = i
    BY <1>2, <2>4 DEF Begin, FirstCall, Idle, Busy
  <2>5. QED
    BY <1>1, <2>1, <2>2, <2>3, <2>4
<1>4. ~Sweeping(i) /\ \A q \in Procs \ {p} : Busy(q) => req[q].inst # i
  BY <1>2, <1>3 DEF SleepApart, Sweeping, Busy
<1>5. Rest(i) /\ upAt[i] <= now /\ (row[i].status = "none" => cont[i] = "absent")
  BY <1>3, <1>4 DEF TurnInv, Known, AtRest, Sweeping
<1>6. ASSUME BeginCreate(p, i) PROVE Outcome(p, i)
  <2>1. PICK s \in Policy : row' = [row EXCEPT ![i].status = "creating", ![i].policy = s]
    BY <1>6 DEF BeginCreate
  <2>2. row' = [row EXCEPT ![i] = [@ EXCEPT !.status = "creating", !.policy = s]]
    BY <1>2, <2>1
  <2>3. row'[i].status = "creating" /\ \A j \in Insts : j # i => row'[j] = row[j]
    BY <1>2, <2>2 DEF Row
  <2>4. req'[p].pc = "recreate" /\ req'[p].op = "create" /\ req'[p].inst = i
    BY <1>2, <1>6 DEF BeginCreate, Idle
  <2>5. Doing(p)' /\ Busy(p)'
    BY <1>2, <1>5, <1>6, <2>4 DEF Doing, At, Busy, BeginCreate
  <2>6. QED
    BY <1>2, <1>5, <2>3, <2>4, <2>5 DEF Outcome
<1>7. ASSUME BeginUpdate(p, i) PROVE Outcome(p, i)
  <2>1. req'[p].pc = "policy" /\ req'[p].op = "update" /\ req'[p].inst = i /\ row' = row /\ row[i].status # "none"
    BY <1>2, <1>7 DEF BeginUpdate
  <2>2. Doing(p)' /\ Busy(p)'
    BY <1>2, <1>5, <2>1 DEF Doing, At, Busy, Rest
  <2>3. QED
    BY <1>2, <1>5, <2>1, <2>2 DEF Outcome
<1>8. ASSUME NEW o \in AllOps, Begin(p, o, i) PROVE Outcome(p, i)
  <2>1. o \in {"start", "stop", "reset"} /\ row' = row /\ row[i].status # "none"
    BY <1>8 DEF Begin, FirstCall, TurnAssumption
  <2>2. \/ o = "start" /\ FirstCall[o] = "start"
        \/ o = "stop" /\ FirstCall[o] = "stop"
        \/ o = "reset" /\ FirstCall[o] = "touch"
    BY <2>1 DEF FirstCall
  <2>3. req'[p].pc = FirstCall[o] /\ req'[p].op = o /\ req'[p].inst = i
    BY <1>2, <1>8 DEF Begin, Idle
  <2>4. Doing(p)' /\ Busy(p)'
    BY <1>2, <1>5, <2>1, <2>2, <2>3 DEF Doing, At, Busy, Rest
  <2>5. QED
    BY <1>2, <1>5, <2>1, <2>3, <2>4 DEF Outcome
<1>9. QED
  BY <1>1, <1>3, <1>4, <1>6, <1>7, <1>8

\* What a request does changes nothing for the other instances.
LEMMA OutcomeTurn ==
    ASSUME Base, Base', TurnInv, NEW p \in Procs, NEW i \in Insts, Outcome(p, i), ~Sweeping(i),
           now' = now, worker' = worker, Busy(p) => req[p].inst = i,
           \A q \in Procs \ {p} : req'[q] = req[q] /\ (Busy(q) => req[q].inst # i)
    PROVE  TurnInv'
<1>1. ASSUME NEW q \in Procs, Busy(q)' PROVE Doing(q)' /\ row'[req'[q].inst].status # "none"
  <2>1. CASE q = p
    BY <1>1, <2>1 DEF Outcome
  <2>2. CASE q # p
    <3>1. Busy(q) /\ req'[q] = req[q] /\ req[q].inst # i /\ req[q].inst \in Insts
      BY <1>1, <2>2 DEF Busy, Base, Aimed
    <3>2. Doing(q) /\ row[req[q].inst].status # "none"
      BY <3>1 DEF TurnInv, Known
    <3>3. /\ row'[req[q].inst] = row[req[q].inst] /\ cont'[req[q].inst] = cont[req[q].inst]
          /\ upAt'[req[q].inst] = upAt[req[q].inst]
      BY <3>1 DEF Outcome
    <3>4. QED
      BY <3>1, <3>2, <3>3 DEF Doing, At, Rest
  <2>3. QED
    BY <2>1, <2>2
<1>2. ASSUME NEW j \in Insts, j # i
      PROVE  (AtRest(j)' => Rest(j)') /\ (row'[j].status = "none" => cont'[j] = "absent") /\ upAt'[j] <= now'
  <2>1. AtRest(j)' => AtRest(j)
    BY <1>2 DEF AtRest, Busy
  <2>2. row'[j] = row[j] /\ cont'[j] = cont[j] /\ upAt'[j] = upAt[j]
    BY <1>2 DEF Outcome
  <2>3. QED
    BY <2>1, <2>2 DEF TurnInv, Known, Rest
<1>3. (AtRest(i)' => Rest(i)') /\ row'[i].status # "none" /\ upAt'[i] <= now'
  BY DEF Outcome, AtRest
<1>4. Known'
  BY <1>1, <1>2, <1>3 DEF Known
<1>5. \A k \in Insts : Sweeping(k) => row'[k] = row[k] /\ cont'[k] = cont[k]
  BY DEF Outcome
<1>6. worker.todo \subseteq Insts /\ (worker.pc \in {"stop", "write"} => worker.inst \in Insts)
  BY DEF Base, WorkerAimed, TypeOK, Worker
<1>7. Listed'
  BY <1>5, <1>6 DEF TurnInv, Listed, Sweeping, Due, Effective
<1>8. QED
  BY <1>4, <1>7 DEF TurnInv

LEMMA TurnNext == ASSUME TurnAssumption, Base, TurnInv, SleepApart, SleepApart', [Next]_vars PROVE TurnInv'
<1>1. Base'
  BY BaseNext
<1>2. CASE Advance \/ Sweep
  BY <1>2, WorkerTurn
<1>3. ASSUME NEW p \in Procs, Step(p) PROVE TurnInv'
  <2>1. PICK i \in Insts : i = req[p].inst /\ Busy(p) /\ Outcome(p, i)
    BY <1>3, StepTurn, BusyStep DEF Base, Aimed
  <2>2. ~Sweeping(i) /\ \A q \in Procs \ {p} : Busy(q) => req[q].inst # i
    BY <2>1 DEF SleepApart
  <2>3. now' = now /\ worker' = worker /\ \A q \in Procs \ {p} : req'[q] = req[q]
    BY <1>3, StepAlone
  <2>4. QED
    BY <1>1, <2>1, <2>2, <2>3, OutcomeTurn
<1>4. ASSUME NEW p \in Procs, Begins(p) PROVE TurnInv'
  <2>1. PICK i \in Insts : /\ Outcome(p, i) /\ ~Busy(p) /\ ~Sweeping(i)
                           /\ \A q \in Procs \ {p} : Busy(q) => req[q].inst # i
    BY <1>4, BeginTurn
  <2>2. now' = now /\ worker' = worker /\ \A q \in Procs \ {p} : req'[q] = req[q]
    BY <1>4, BeginTyped DEF Base
  <2>3. QED
    BY <1>1, <2>1, <2>2, OutcomeTurn
<1>5. CASE UNCHANGED vars
  BY <1>5 DEF vars, TurnInv, Known, Listed, Busy, Doing, At, Rest, AtRest, Due, Effective
<1>6. QED
  BY <1>2, <1>3, <1>4, <1>5 DEF Next, Begins

LEMMA SpecTurn == ASSUME TurnAssumption PROVE Spec /\ []SleepApart => [](Base /\ TurnInv)
<1>1. Init => TurnInv
  BY Basics DEF Init, TurnInv, Known, Listed, Busy, Idle, Rest, AtRest
<1>2. Base /\ TurnInv /\ SleepApart /\ SleepApart' /\ [Next]_vars => TurnInv'
  BY TurnNext
<1>3. QED
  BY <1>1, <1>2, SpecBase, PTL DEF Spec

\* Requests and sweeps that take their turn are apart.
Alone ==
    /\ \A p, q \in Procs : Busy(p) /\ Busy(q) => p = q
    /\ worker.pc # "idle" => \A p \in Procs : ~Busy(p)

\* InTurn, the setting of the run AutoStopInTurn, keeps requests and sweeps apart.
THEOREM TurnsAreApart == ASSUME InTurn PROVE Spec => []SleepApart
<1>1. Init => Alone
  BY DEF Init, Alone, Busy, Idle
<1>2. ASSUME Base, Alone, [Next]_vars PROVE Alone'
  <2>1. CASE Advance \/ Sweep
    <3>1. req' = req
      BY <2>1 DEF Advance, Sweep, List, TakeNext, WorkerStop, WorkerWrite
    <3>2. (worker.pc = "idle" => worker'.pc = "idle") \/ \A p \in Procs : ~Busy(p)
      BY <1>2, <2>1 DEF Advance, Sweep, List, TakeNext, WorkerStop, WorkerWrite, Overlapping, Busy, Base, TypeOK, Worker
    <3>3. QED
      BY <1>2, <3>1, <3>2 DEF Alone, Busy
  <2>2. ASSUME NEW p \in Procs, Step(p) PROVE Alone'
    BY <1>2, <2>2, StepAlone, BusyStep DEF Alone, Busy
  <2>3. ASSUME NEW p \in Procs, Begins(p) PROVE Alone'
    <3>1. worker.pc = "idle" /\ \A q \in Procs : ~Busy(q)
      BY <2>3 DEF Begins, BeginCreate, BeginUpdate, Begin, MayBegin, WorkerIdle, At, Busy
    <3>2. worker' = worker /\ \A q \in Procs \ {p} : req'[q] = req[q]
      BY <1>2, <2>3, BeginTyped DEF Base
    <3>3. QED
      BY <3>1, <3>2 DEF Alone, Busy
  <2>4. CASE UNCHANGED vars
    BY <1>2, <2>4 DEF vars, Alone, Busy
  <2>5. QED
    BY <1>2, <2>1, <2>2, <2>3, <2>4 DEF Next, Begins
<1>3. Alone => SleepApart
  BY DEF Alone, SleepApart, Sweeping
<1>4. QED
  BY <1>1, <1>2, <1>3, SpecBase, PTL DEF Spec

\* While each instance has one request at a time, and none during its sweep, a
\* container that runs is in the next list: its row says that it runs.
THEOREM NothingUnlisted == ASSUME TurnAssumption PROVE Spec /\ []SleepApart => []RunningIsListed
<1>1. Base /\ TurnInv => RunningIsListed
  BY DEF TurnInv, Known, AtRest, Rest, RunningIsListed, WorkerIdle, At, Busy
<1>2. QED
  BY <1>1, SpecTurn, PTL

\* Then too the worker stops only what has run for its whole timeout since it came up.
THEOREM FullTimeout == ASSUME TurnAssumption PROVE Spec /\ []SleepApart => CountedFromStart
<1>1. ASSUME Base, TurnInv, SleepApart, [Next]_vars, NEW i \in Insts, WorkerStops(i) PROVE upAt[i] + Effective(i) <= now
  <2>1. worker.pc = "stop" /\ worker.inst = i /\ worker'.pc = "write"
    BY <1>1 DEF WorkerStops
  <2>2. cont[i] = "on"
    <3>1. worker' # worker
      BY <2>1
    <3>2. CASE Advance
      BY <2>1, <3>2 DEF Advance, Base, TypeOK, Worker
    <3>3. CASE List \/ TakeNext \/ WorkerWrite
      BY <2>1, <3>3 DEF List, TakeNext, WorkerWrite
    <3>4. CASE WorkerStop
      <4>1. worker' = [worker EXCEPT !.pc = "sweep", !.inst = None, !.by = 0] => worker'.pc = "sweep"
        BY <1>1 DEF Base, TypeOK, Worker
      <4>2. QED
        BY <2>1, <3>4, <4>1 DEF WorkerStop, CanStop
    <3>5. ASSUME NEW p \in Procs, Step(p) \/ Begins(p) PROVE FALSE
      BY <1>1, <3>1, <3>5, StepAlone, BeginTyped DEF Base
    <3>6. QED
      BY <1>1, <3>1, <3>2, <3>3, <3>4, <3>5 DEF Next, Sweep, Begins, vars
  <2>3. Rest(i) /\ Due(i)
    BY <1>1, <2>1 DEF TurnInv, Known, AtRest, Listed, SleepApart, Sweeping
  <2>4. row[i].last \in Nat /\ Effective(i) \in Nat /\ now \in Nat /\ upAt[i] \in Nat
    BY <1>1, <2>2, <2>3, DueTyped, Basics DEF Rest, DueFacts, Base, TypeOK
  <2>5. upAt[i] <= row[i].last /\ row[i].last + Effective(i) < now
    BY <2>2, <2>3 DEF Rest, Due
  <2>6. QED
    BY <2>4, <2>5
<1>2. Base /\ TurnInv /\ SleepApart /\ [Next]_vars => [\A i \in Insts : WorkerStops(i) => upAt[i] + Effective(i) <= now]_vars
  BY <1>1
<1>3. QED
  BY <1>2, SpecTurn, PTL DEF Spec, CountedFromStart

-----------------------------------------------------------------------------
(* One field of the policy at a time.                                      *)

\* No two updates of an instance's policy are between their read and their write.
UpdatesApart == \A p, q \in Procs : At(p, "policy") /\ At(q, "policy") /\ req[p].inst = req[q].inst => p = q
\* What an update will write is the policy of the row, but for its fields.
Fresh(p) ==
    LET i == req[p].inst IN
    /\ row[i].status # "none"
    /\ \A f \in {"disabled", "timeout"} \ req[p].fields : req[p].set[f] = row[i].policy[f]
PoliciesFresh == \A p \in Procs : At(p, "policy") => Fresh(p)

\* A step that touches neither an update nor the policy of its row.
LEMMA PolicyCalm ==
    ASSUME Base, PoliciesFresh,
           \A q \in Procs : At(q, "policy")' => /\ At(q, "policy") /\ req'[q] = req[q]
                                               /\ row'[req[q].inst].policy = row[req[q].inst].policy
                                               /\ row'[req[q].inst].status # "none"
    PROVE  PoliciesFresh'
BY DEF PoliciesFresh, Fresh

\* All but three actions leave every policy alone, and begin and end no update.
PoliciesStay == \A i \in Insts : row'[i].policy = row[i].policy /\ (row[i].status # "none" => row'[i].status # "none")
LEMMA WrittenStay ==
    ASSUME Base, NEW k \in Insts, NEW s \in {"running", "stopped", "error"}, Written(k, s) PROVE PoliciesStay
<1>1. row \in [Insts -> Row] /\ row' = [row EXCEPT ![k].status = s] /\ s # "none"
  BY DEF Base, TypeOK, Written
<1>2. row'[k].policy = row[k].policy /\ row'[k].status = s
  BY <1>1 DEF Row
<1>3. \A i \in Insts : i # k => row'[i] = row[i]
  BY <1>1
<1>4. QED
  BY <1>1, <1>2, <1>3 DEF PoliciesStay

LEMMA OtherSteps ==
    ASSUME Base, NEW p \in Procs, Step(p), ~WritePolicy(p)
    PROVE  /\ ~At(p, "policy") /\ ~At(p, "policy")'
           /\ PoliciesStay
<1>1. row \in [Insts -> Row] /\ req \in [Procs -> Request] /\ req[p].inst \in Insts /\ now \in Time
  BY BusyStep DEF Base, TypeOK, Aimed
<1>2. ~At(p, "policy")
  BY DEF Step, Remove, Recreate, StartContainer, WriteRunning, Touch, StopContainer, WriteStopped, WriteError, At
<1>3. ~At(p, "policy")'
  <2>1. PICK l \in {"idle", "recreate", "start", "running", "touch", "stopped", "error"} : Goto(p, l) \/ Done(p)
    BY DEF Step, Remove, Recreate, StartContainer, WriteRunning, Touch, StopContainer, WriteStopped, WriteError
  <2>2. QED
    BY <1>1, <2>1 DEF Goto, Done, Idle, At, Request
<1>4. CASE WriteRunning(p) \/ WriteStopped(p) \/ WriteError(p)
  <2>1. \E s \in {"running", "stopped", "error"} : Written(req[p].inst, s)
    BY <1>4 DEF WriteRunning, WriteStopped, WriteError
  <2>2. QED
    BY <1>1, <1>2, <1>3, <2>1, WrittenStay
<1>5. CASE Touch(p)
  <2>1. PICK k \in Insts : k = req[p].inst
    BY <1>1
  <2>2. row' = [row EXCEPT ![k].last = now]
    BY <1>5, <2>1 DEF Touch
  <2>3. row'[k].policy = row[k].policy /\ row'[k].status = row[k].status
    BY <1>1, <2>2 DEF Row
  <2>4. \A i \in Insts : i # k => row'[i] = row[i]
    BY <1>1, <2>2
  <2>5. QED
    BY <1>2, <1>3, <2>3, <2>4 DEF PoliciesStay
<1>6. CASE Remove(p) \/ Recreate(p) \/ StartContainer(p) \/ StopContainer(p)
  <2>1. row' = row
    BY <1>6 DEF Remove, Recreate, StartContainer, StopContainer
  <2>2. QED
    BY <1>2, <1>3, <2>1 DEF PoliciesStay
<1>7. QED
  BY <1>2, <1>3, <1>4, <1>5, <1>6 DEF Step

LEMMA WorkerSteps == ASSUME Base, Advance \/ Sweep PROVE req' = req /\ PoliciesStay
<1>1. CASE Advance \/ List \/ TakeNext \/ WorkerStop
  BY <1>1 DEF Advance, List, TakeNext, WorkerStop, PoliciesStay
<1>2. CASE WorkerWrite
  BY <1>2, WrittenStay DEF WorkerWrite, Base, WorkerAimed
<1>3. QED
  BY <1>1, <1>2 DEF Sweep

LEMMA PolicyWritten ==
    ASSUME Base, NEW p \in Procs, WritePolicy(p)
    PROVE  /\ At(p, "policy") /\ ~At(p, "policy")' /\ row'[req[p].inst].policy = req[p].set
           /\ \A q \in Procs : q # p => req'[q] = req[q]
           /\ \A i \in Insts : i # req[p].inst => row'[i] = row[i]
<1>1. row \in [Insts -> Row] /\ req \in [Procs -> Request] /\ req[p].inst \in Insts
  BY DEF Base, TypeOK, Aimed, WritePolicy, At, Busy
<1>2. row' = [row EXCEPT ![req[p].inst].policy = req[p].set]
  BY DEF WritePolicy
<1>3. row'[req[p].inst].policy = req[p].set
  BY <1>1, <1>2 DEF Row
<1>4. req' = [req EXCEPT ![p] = Idle] /\ At(p, "policy")
  BY DEF WritePolicy, Done
<1>5. QED
  BY <1>1, <1>2, <1>3, <1>4 DEF At, Idle

LEMMA BeginPolicy ==
    ASSUME Base, PoliciesFresh, NEW p \in Procs, Begins(p) PROVE PoliciesFresh'
<1>1. row \in [Insts -> Row] /\ req \in [Procs -> Request] /\ \A q \in Procs \ {p} : req'[q] = req[q]
  BY BeginTyped DEF Base, TypeOK
<1>2. \A q \in Procs : At(q, "policy") => req[q].inst \in Insts /\ row[req[q].inst].status # "none"
  BY DEF Base, Aimed, Busy, At, PoliciesFresh, Fresh
<1>3. ASSUME NEW i \in Insts, BeginUpdate(p, i) PROVE PoliciesFresh'
  <2>1. row' = row
    BY <1>3 DEF BeginUpdate
  <2>2. PICK s \in Policy, F \in SUBSET {"disabled", "timeout"} :
          req' = [req EXCEPT ![p] = [op |-> "update", pc |-> "policy", inst |-> i, fields |-> F,
                                     set |-> [disabled |-> (IF "disabled" \in F THEN s ELSE row[i].policy).disabled,
                                             timeout  |-> (IF "timeout" \in F THEN s ELSE row[i].policy).timeout]]]
    BY <1>3 DEF BeginUpdate
  <2>3. row[i].policy \in Policy /\ row[i].status # "none"
    BY <1>1, <1>3 DEF BeginUpdate, Row
  <2>4. PICK t : /\ t = [disabled |-> (IF "disabled" \in F THEN s ELSE row[i].policy).disabled,
                                             timeout  |-> (IF "timeout" \in F THEN s ELSE row[i].policy).timeout]
                 /\ \A f \in {"disabled", "timeout"} \ F : t[f] = row[i].policy[f]
    <3>1. PICK t : t = [disabled |-> (IF "disabled" \in F THEN s ELSE row[i].policy).disabled,
                                             timeout  |-> (IF "timeout" \in F THEN s ELSE row[i].policy).timeout]
      OBVIOUS
    <3>2. "disabled" \notin F => t["disabled"] = row[i].policy["disabled"]
      BY <2>3, <3>1 DEF Policy
    <3>3. "timeout" \notin F => t["timeout"] = row[i].policy["timeout"]
      BY <2>3, <3>1 DEF Policy
    <3>4. QED
      BY <3>1, <3>2, <3>3
  <2>5. req'[p].inst = i /\ req'[p].fields = F /\ req'[p].set = t
    <3>1. req' = [req EXCEPT ![p] = [op |-> "update", pc |-> "policy", inst |-> i, fields |-> F, set |-> t]]
      BY <2>2, <2>4
    <3>2. QED
      BY <1>1, <3>1
  <2>6. Fresh(p)'
    BY <2>1, <2>3, <2>4, <2>5 DEF Fresh
  <2>7. QED
    BY <1>1, <2>1, <2>6 DEF PoliciesFresh, Fresh, At
<1>4. ASSUME NEW i \in Insts, BeginCreate(p, i) PROVE PoliciesFresh'
  <2>1. row[i].status = "none" /\ \A k \in Insts : k # i => row'[k] = row[k]
    BY <1>1, <1>4 DEF BeginCreate
  <2>2. ~At(p, "policy")'
    BY <1>1, <1>4 DEF BeginCreate, At
  <2>3. QED
    BY <1>1, <1>2, <2>1, <2>2, PolicyCalm DEF At
<1>5. ASSUME NEW i \in Insts, NEW o \in AllOps, Begin(p, o, i) PROVE PoliciesFresh'
  <2>1. row' = row /\ req'[p].pc = FirstCall[o] /\ o \in DOMAIN FirstCall
    BY <1>1, <1>5 DEF Begin
  <2>2. ~At(p, "policy")'
    BY <2>1 DEF FirstCall, At
  <2>3. QED
    BY <1>1, <1>2, <2>1, <2>2, PolicyCalm DEF At
<1>6. QED
  BY <1>3, <1>4, <1>5 DEF Begins

LEMMA PolicyNext == ASSUME Base, PoliciesFresh, UpdatesApart, [Next]_vars PROVE PoliciesFresh'
<1>1. \A q \in Procs : At(q, "policy") => req[q].inst \in Insts /\ row[req[q].inst].status # "none"
  BY DEF Base, Aimed, Busy, At, PoliciesFresh, Fresh
<1>2. CASE Advance \/ Sweep
  BY <1>1, <1>2, WorkerSteps, PolicyCalm DEF At, PoliciesStay
<1>3. ASSUME NEW p \in Procs, Step(p) PROVE PoliciesFresh'
  <2>1. \A q \in Procs \ {p} : req'[q] = req[q]
    BY <1>3, StepAlone
  <2>2. CASE WritePolicy(p)
    <3>1. \A q \in Procs : At(q, "policy")' => q # p /\ At(q, "policy") /\ req[q].inst # req[p].inst
      BY <2>1, <2>2, PolicyWritten DEF UpdatesApart, At
    <3>2. QED
      BY <1>1, <2>1, <2>2, <3>1, PolicyWritten, PolicyCalm
  <2>3. CASE ~WritePolicy(p)
    <3>1. \A q \in Procs : At(q, "policy")' => q # p /\ At(q, "policy")
      BY <1>3, <2>1, <2>3, OtherSteps DEF At
    <3>2. QED
      BY <1>1, <1>3, <2>1, <2>3, <3>1, OtherSteps, PolicyCalm DEF PoliciesStay
  <2>4. QED
    BY <2>2, <2>3
<1>4. CASE UNCHANGED vars
  BY <1>1, <1>4, PolicyCalm DEF vars, At
<1>5. QED
  BY <1>2, <1>3, <1>4, BeginPolicy DEF Next, Begins

\* SleepHandler.Update leaves a field that it is not given as it is, whatever
\* the worker and other requests do meanwhile, unless two updates of one
\* instance overlap.
THEOREM OtherFieldStays == Spec /\ []UpdatesApart => FieldKept
<1>1. Init => PoliciesFresh
  BY DEF Init, PoliciesFresh, At, Idle
<1>2. Base /\ PoliciesFresh /\ UpdatesApart /\ [Next]_vars => PoliciesFresh'
  BY PolicyNext
<1>3. ASSUME Base, PoliciesFresh, [Next]_vars, NEW p \in Procs, At(p, "policy"), ~At(p, "policy")'
      PROVE  LET i == req[p].inst IN
               \A f \in {"disabled", "timeout"} \ req[p].fields : row'[i].policy[f] = row[i].policy[f]
  <2>1. req'[p] # req[p]
    BY <1>3 DEF At
  <2>2. WritePolicy(p)
    <3>1. ~(Advance \/ Sweep \/ UNCHANGED vars)
      BY <1>3, <2>1, WorkerSteps DEF vars
    <3>2. \A q \in Procs : Begins(q) => FALSE
      <4>1. \A q \in Procs : Begins(q) => q = p
        BY <1>3, <2>1, BeginTyped DEF Base
      <4>2. Begins(p) => ~At(p, "policy")
        BY DEF Begins, BeginCreate, BeginUpdate, Begin, MayBegin, At
      <4>3. QED
        BY <1>3, <4>1, <4>2
    <3>3. PICK q \in Procs : Step(q)
      BY <1>3, <3>1, <3>2 DEF Next, Begins
    <3>4. q = p
      BY <1>3, <2>1, <3>3, StepAlone
    <3>5. QED
      BY <1>3, <3>3, <3>4, OtherSteps
  <2>3. row'[req[p].inst].policy = req[p].set
    BY <1>3, <2>2, PolicyWritten
  <2>4. Fresh(p)
    BY <1>3 DEF PoliciesFresh
  <2>5. QED
    BY <2>3, <2>4 DEF Fresh
<1>4. Base /\ PoliciesFresh /\ [Next]_vars =>
        [\A p \in Procs : At(p, "policy") /\ ~At(p, "policy")' =>
           LET i == req[p].inst IN
             \A f \in {"disabled", "timeout"} \ req[p].fields :
                 row'[i].policy[f] = row[i].policy[f]]_vars
  BY <1>3
<1>5. QED
  BY <1>1, <1>2, <1>4, SpecBase, PTL DEF Spec, FieldKept
=============================================================================
