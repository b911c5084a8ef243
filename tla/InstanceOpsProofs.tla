--------------------------- MODULE InstanceOpsProofs ---------------------------
(***************************************************************************)
(* Theorems about InstanceOps, for any instances, users, keys, names and   *)
(* requests at once.                                                       *)
(***************************************************************************)
EXTENDS InstanceOps, TLAPS

-----------------------------------------------------------------------------
(* The types.                                                              *)

RowsTyped ==
    /\ row \in [Insts -> Row]
    /\ \A i, j \in Insts : Exists(i) /\ Exists(j) /\ row[i].key = row[j].key => i = j
ContTyped == cont \in [IncusNames -> Container]
JobsTyped == job \in [Jobs -> Request \cup {Idle}]
MakingTyped == making \in [Insts -> Creation \cup {NoCreation}]
RestTyped ==
    /\ own \in [Users -> SUBSET Keys]
    /\ made \in 0..MaxRequests
    /\ loose \subseteq Insts /\ behind \subseteq Insts /\ kept \subseteq Insts
    /\ torn \subseteq Insts /\ raced \subseteq Users /\ clashed \subseteq Insts
    /\ dropped \subseteq Keys /\ granted \subseteq Insts \X Keys
\* Containers, requests and creations are those of rows that there are.
Linked ==
    /\ \A k \in IncusNames : Live(k) => Exists(cont[k].of)
    /\ \A p \in Busy : Exists(job[p].id)
    /\ \A i \in Insts : Making(i) => Exists(i)

LEMMA TypeParts ==
    TypeOK <=> RowsTyped /\ ContTyped /\ JobsTyped /\ MakingTyped /\ RestTyped /\ Linked
BY DEF TypeOK, RowsTyped, ContTyped, JobsTyped, MakingTyped, RestTyped, Linked
LEMMA TypePartsNext ==
    ASSUME RowsTyped', ContTyped', JobsTyped', MakingTyped', RestTyped', Linked' PROVE TypeOK'
BY DEF TypeOK, RowsTyped, ContTyped, JobsTyped, MakingTyped, RestTyped, Linked

LEMMA RowsSame == ASSUME RowsTyped, UNCHANGED row PROVE RowsTyped'
BY DEF RowsTyped, Exists
LEMMA ContSame == ASSUME ContTyped, UNCHANGED cont PROVE ContTyped'
BY DEF ContTyped

LEMMA Bounds == MaxRequests \in Nat /\ None \notin Insts /\ MaxName \in Nat
BY OpsAssumption

LEMMA MadeTyped ==
    ASSUME TypeOK, Asked \/ UNCHANGED made PROVE made' \in 0..MaxRequests
BY Bounds DEF TypeOK, Asked

\* A request under way.
LEMMA BusyJob ==
    ASSUME TypeOK, NEW p \in Jobs, job[p].pc # "idle" PROVE job[p] \in Request
BY DEF TypeOK, Idle
LEMMA RequestFields ==
    ASSUME NEW j \in Request
    PROVE  /\ j.pc # "idle" /\ j.id \in Insts /\ j.owner \in Users /\ j.user \in Users
           /\ j.key \in IncusNames /\ j.host \in Names /\ j.name \in Names
           /\ j.limit \in Limits \cup {Unset} /\ j.keys \subseteq Keys
           /\ NewKey(j) \in IncusNames
BY DEF Request, NewKey, IncusNames

Labels == {"name", "owner", "rename", "stop", "stopped", "move", "record", "restart", "started",
           "host", "install", "revoke", "apply", "raw", "store", "add", "restore"}

LEMMA BecomeTyped ==
    ASSUME TypeOK, NEW p \in Jobs, NEW j \in Request \cup {Idle}, Become(p, j)
    PROVE  JobsTyped' /\ job'[p] = j /\ \A q \in Jobs \ {p} : job'[q] = job[q]
BY DEF TypeOK, JobsTyped, Become
LEMMA DoneTyped ==
    ASSUME TypeOK, NEW p \in Jobs, Done(p)
    PROVE  JobsTyped' /\ job'[p] = Idle /\ \A q \in Jobs \ {p} : job'[q] = job[q]
BY BecomeTyped DEF Done
LEMMA GotoTyped ==
    ASSUME TypeOK, NEW p \in Jobs, NEW l \in Labels, job[p] \in Request, Goto(p, l)
    PROVE  /\ JobsTyped' /\ job'[p] = [job[p] EXCEPT !.pc = l]
           /\ \A q \in Jobs \ {p} : job'[q] = job[q]
<1>1. [job[p] EXCEPT !.pc = l] \in Request
  BY DEF Request, Labels
<1>2. QED
  BY <1>1, BecomeTyped DEF Goto

LEMMA ReadTyped ==
    ASSUME TypeOK, NEW i \in Insts, NEW l \in Labels,
           NEW o \in {"rename", "transfer", "resources", "config", "start", "stop", "key", "restore"}
    PROVE  Read(i, o, l) \in Request
<1>1. row[i] \in Row
  BY DEF TypeOK
<1>2. QED
  BY <1>1 DEF Read, Request, Row, Labels

\* What a call to Incus writes.
LEMMA ContainerTyped ==
    ASSUME TypeOK, NEW k \in IncusNames, NEW c \in Container, cont' = [cont EXCEPT ![k] = c]
    PROVE  ContTyped'
BY DEF TypeOK, ContTyped
LEMMA MovedTyped ==
    ASSUME TypeOK, NEW k \in IncusNames, NEW l \in IncusNames, cont' = Moved(k, l)
    PROVE  ContTyped'
<1>1. Absent \in Container
  BY Bounds DEF Absent, Container, IncusNames, Names
<1>2. QED
  BY <1>1 DEF TypeOK, ContTyped, Moved
LEMMA TouchTyped ==
    ASSUME TypeOK, NEW p, NEW k \in IncusNames, Touch(p, k) PROVE loose' \subseteq Insts
BY DEF TypeOK, Touch, Container
LEMMA ArriveTyped ==
    ASSUME TypeOK, NEW p, NEW k \in IncusNames, NEW l, Arrive(p, k, l) PROVE loose' \subseteq Insts
BY DEF TypeOK, Arrive, Shadowed, Container
LEMMA FailsTyped ==
    ASSUME TypeOK, NEW b \in BOOLEAN, Fails(b) PROVE ContTyped' /\ loose' = loose /\ made' \in 0..MaxRequests
BY MadeTyped DEF TypeOK, Fails, ContTyped

-----------------------------------------------------------------------------
(* One step of a request.                                                  *)

LEMMA StepRequest ==
    ASSUME TypeOK, NEW p \in Jobs, Step(p) PROVE job[p] \in Request /\ job[p].pc # "idle"
<1>1. job[p].pc # "idle"
  BY DEF Step, WriteName, WriteOwner, CheckKey, StopInstance, Stopped, MoveContainer, RecordKey,
         StartInstance, Started, SetHost, InstallKeys, RevokeKeys, ApplyResources,
         UpdateIncusConfig, StoreResources, AddAuthorizedKey, RestoreSnapshot
<1>2. QED
  BY <1>1, BusyJob

\* A step of a request changes no other request, and ends its own or takes it
\* to a place past the choice of a name, about the same instance.
Onwards(p, j) ==
    j = Idle \/ (j \in Request /\ j.id = job[p].id /\ j.pc \notin {"name", "owner"})

LEMMA OnwardsIdle == ASSUME NEW p, Done(p) PROVE \E j : Onwards(p, j) /\ Become(p, j)
BY DEF Done, Onwards
LEMMA OnwardsGoto ==
    ASSUME NEW p, job[p] \in Request, NEW l \in Labels \ {"name", "owner"}, Goto(p, l)
    PROVE  \E j : Onwards(p, j) /\ Become(p, j)
<1>1. /\ [job[p] EXCEPT !.pc = l] \in Request
      /\ [job[p] EXCEPT !.pc = l].id = job[p].id
      /\ [job[p] EXCEPT !.pc = l].pc = l
  BY DEF Request, Labels
<1>2. QED
  BY <1>1 DEF Goto, Onwards
LEMMA OnwardsReach ==
    ASSUME NEW p, NEW j \in Request, j.id = job[p].id, Reach(p, j)
    PROVE  \E i : Onwards(p, i) /\ Become(p, i)
<1> DEFINE g == [j EXCEPT !.pc = IF j.container THEN "rename" ELSE "host"]
<1>1. g \in Request /\ g.id = job[p].id /\ g.pc \notin {"name", "owner"}
  BY DEF Request
<1>2. CASE Become(p, g)
  BY <1>1, <1>2 DEF Onwards
<1>3. CASE Done(p)
  BY <1>3, OnwardsIdle
<1>4. QED
  BY <1>2, <1>3 DEF Reach
LEMMA OnwardsRestart ==
    ASSUME NEW p, NEW j \in Request, j.id = job[p].id, Restart(p, j)
    PROVE  \E i : Onwards(p, i) /\ Become(p, i)
<1> DEFINE g(l) == [j EXCEPT !.pc = l]
<1>1. \A l \in {"restart", "host"} : g(l) \in Request /\ g(l).id = job[p].id /\ g(l).pc = l
  BY DEF Request
<1>2. Become(p, g("restart")) \/ Become(p, g("host"))
  BY DEF Restart
<1> HIDE DEF g
<1>3. QED
  BY <1>1, <1>2 DEF Onwards

LEMMA StepOnwards ==
    ASSUME TypeOK, NEW p \in Jobs, Step(p)
    PROVE  \E j : Onwards(p, j) /\ Become(p, j)
<1> USE StepRequest, RequestFields
<1>1. CASE WriteName(p)
  <2>1. [job[p] EXCEPT !.name = job[p].host] \in Request
    BY DEF Request
  <2>2. [job[p] EXCEPT !.name = job[p].host].id = job[p].id
        /\ [job[p] EXCEPT !.name = job[p].host].op = job[p].op
    BY DEF Request
  <2>3. QED
    BY <1>1, <2>1, <2>2, OnwardsReach DEF WriteName
<1>2. CASE WriteOwner(p)
  <2>1. [job[p] EXCEPT !.owner = job[p].user] \in Request
    BY DEF Request
  <2>2. [job[p] EXCEPT !.owner = job[p].user].id = job[p].id
        /\ [job[p] EXCEPT !.owner = job[p].user].op = job[p].op
    BY DEF Request
  <2>3. QED
    BY <1>2, <2>1, <2>2, OnwardsReach DEF WriteOwner
<1>3. CASE CheckKey(p)
  BY <1>3, OnwardsGoto DEF CheckKey, AfterRename, Labels
<1>4. CASE StopInstance(p)
  BY <1>4, OnwardsGoto, OnwardsIdle DEF StopInstance, AfterRename, Labels
<1>5. CASE Stopped(p)
  <2> DEFINE g == [job[p] EXCEPT !.pc = "move", !.was = TRUE]
  <2>1. g \in Request /\ g.id = job[p].id /\ g.pc \notin {"name", "owner"}
    BY DEF Request
  <2>2. QED
    BY <1>5, <2>1, OnwardsIdle DEF Stopped, Onwards
<1>6. CASE MoveContainer(p)
  BY <1>6, OnwardsGoto, OnwardsRestart DEF MoveContainer, Labels
<1>7. CASE RecordKey(p)
  <2>0. job[p] \in Request /\ NewKey(job[p]) \in IncusNames
    OBVIOUS
  <2>1. /\ [job[p] EXCEPT !.key = NewKey(job[p])] \in Request
        /\ [job[p] EXCEPT !.key = NewKey(job[p])].id = job[p].id
    BY <2>0 DEF Request
  <2>2. QED
    BY <1>7, <2>1, OnwardsRestart DEF RecordKey
<1>8. CASE StartInstance(p)
  BY <1>8, OnwardsGoto, OnwardsIdle DEF StartInstance, AfterRename, Labels
<1>9. CASE Started(p)
  <2> DEFINE g == [job[p] EXCEPT !.pc = "host", !.status = "running"]
  <2>1. g \in Request /\ g.id = job[p].id /\ g.pc \notin {"name", "owner"}
    BY DEF Request, Statuses
  <2>2. QED
    BY <1>9, <2>1, OnwardsIdle DEF Started, Onwards
<1>10. CASE SetHost(p)
  BY <1>10, OnwardsGoto, OnwardsIdle DEF SetHost, AfterHost, Labels
<1>11. CASE InstallKeys(p)
  BY <1>11, OnwardsGoto, OnwardsIdle DEF InstallKeys, Labels
<1>12. CASE RevokeKeys(p) \/ ApplyResources(p) \/ StoreResources(p) \/ AddAuthorizedKey(p) \/ RestoreSnapshot(p)
  BY <1>12, OnwardsIdle DEF RevokeKeys, ApplyResources, StoreResources, AddAuthorizedKey, RestoreSnapshot
<1>13. CASE UpdateIncusConfig(p)
  BY <1>13, OnwardsGoto, OnwardsIdle DEF UpdateIncusConfig, Labels
<1>14. QED
  BY <1>1, <1>2, <1>3, <1>4, <1>5, <1>6, <1>7, <1>8, <1>9, <1>10, <1>11, <1>12, <1>13 DEF Step

LEMMA StepJobs ==
    ASSUME TypeOK, NEW p \in Jobs, Step(p)
    PROVE  /\ JobsTyped'
           /\ job'[p] = Idle \/ (job'[p] \in Request /\ job'[p].id = job[p].id /\ job'[p].pc \notin {"name", "owner"})
           /\ \A q \in Jobs \ {p} : job'[q] = job[q]
<1>1. PICK j : Onwards(p, j) /\ Become(p, j)
  BY StepOnwards
<1>2. QED
  BY <1>1, BecomeTyped DEF Onwards

\* What a step writes of the rows.
LEMMA StepRows == ASSUME TypeOK, NEW p \in Jobs, Step(p) PROVE RowsTyped'
<1>1. /\ RowsTyped
      /\ job[p] \in Request /\ job[p].id \in Insts /\ job[p].limit \in Limits \cup {Unset}
      /\ job[p].host \in Names /\ job[p].user \in Users /\ NewKey(job[p]) \in IncusNames
  BY StepRequest, RequestFields, TypeParts
<1>2. row[job[p].id] \in Row
  BY <1>1 DEF RowsTyped
<1> DEFINE i == job[p].id
           k == NewKey(job[p])
<1>e. Exists(i)
  BY <1>1, StepRequest DEF TypeOK, Busy
<1>3. ASSUME NEW r \in Row, r.key = row[i].key, row' = [row EXCEPT ![i] = r]
      PROVE  RowsTyped'
  <2>1. row' \in [Insts -> Row] /\ \A h \in Insts : row'[h] = IF h = i THEN r ELSE row[h]
    BY <1>1, <1>2, <1>3 DEF RowsTyped
  <2>2. \A h \in Insts : row'[h].key = row[h].key /\ (row'[h].status # "none" => row[h].status # "none")
    BY <1>e, <1>3, <2>1 DEF Exists
  <2>3. QED
    BY <1>1, <2>1, <2>2 DEF RowsTyped, Exists
<1>4. CASE UNCHANGED row
  BY <1>1, <1>4, RowsSame
<1>5. CASE WriteName(p)
  <2>1. [row[i] EXCEPT !.name = job[p].host] \in Row
    BY <1>1, <1>2 DEF Row
  <2>2. row' = row \/ row' = [row EXCEPT ![i] = [row[i] EXCEPT !.name = job[p].host]]
    BY <1>5 DEF WriteName
  <2>3. QED
    BY <1>2, <1>3, <1>4, <2>1, <2>2 DEF Row
<1>6. CASE WriteOwner(p)
  <2>1. [row[i] EXCEPT !.owner = job[p].user, !.name = job[p].host] \in Row
    BY <1>1, <1>2 DEF Row
  <2>2. row' = [row EXCEPT ![i] = [row[i] EXCEPT !.owner = job[p].user, !.name = job[p].host]]
    BY <1>6, <1>1 DEF WriteOwner, RowsTyped
  <2>3. QED
    BY <1>2, <1>3, <2>1, <2>2 DEF Row
<1>7. CASE Stopped(p) \/ Started(p)
  <2>1. \A s \in Statuses : [row[i] EXCEPT !.status = s] \in Row
    BY <1>1, <1>2 DEF Row
  <2>2. \E s \in Statuses : row' = [row EXCEPT ![i] = [row[i] EXCEPT !.status = s]]
    BY <1>7 DEF Stopped, Started, Statuses
  <2>3. QED
    BY <1>2, <1>3, <2>1, <2>2 DEF Row
<1>8. CASE StoreResources(p)
  <2>1. [row[i] EXCEPT !.limit = job[p].limit] \in Row
    BY <1>1, <1>2 DEF Row
  <2>2. row' = [row EXCEPT ![i] = [row[i] EXCEPT !.limit = job[p].limit]]
    BY <1>8 DEF StoreResources
  <2>3. QED
    BY <1>2, <1>3, <2>1, <2>2 DEF Row
<1>9. CASE RecordKey(p)
  <2>1. [row[i] EXCEPT !.key = k] \in Row
    BY <1>1, <1>2 DEF Row
  <2>2. \/ row' = row
        \/ /\ row' = [row EXCEPT ![i] = [row[i] EXCEPT !.key = k]]
           /\ ~IncusNameTaken(i, k)
    BY <1>9 DEF RecordKey, Refused
  <2>3. CASE row' = row
    BY <2>3, <1>4
  <2>4. CASE row' = [row EXCEPT ![i] = [row[i] EXCEPT !.key = k]] /\ ~IncusNameTaken(i, k)
    <3> DEFINE r == [row[i] EXCEPT !.key = k]
    <3>1. r \in Row /\ r.key = k /\ i \in Insts
      BY <1>1, <1>2, <2>1 DEF Row
    <3>2. row' = [row EXCEPT ![i] = r] /\ \A j \in Insts \ {i} : Exists(j) => row[j].key # k
      BY <2>4 DEF IncusNameTaken
    <3> HIDE DEF r
    <3>3. \A j \in Insts : row'[j] = IF j = i THEN r ELSE row[j]
      BY <1>1, <3>2 DEF RowsTyped
    <3>4. row' \in [Insts -> Row]
      BY <1>1, <3>1, <3>2 DEF RowsTyped
    <3>5. QED
      BY <1>1, <3>1, <3>2, <3>3, <3>4 DEF RowsTyped, Exists
  <2>5. QED
    BY <2>2, <2>3, <2>4
<1>10. QED
  BY <1>4, <1>5, <1>6, <1>7, <1>8, <1>9
     DEF Step, CheckKey, StopInstance, MoveContainer, StartInstance, SetHost, InstallKeys, RevokeKeys,
         ApplyResources, UpdateIncusConfig, AddAuthorizedKey, RestoreSnapshot

\* What a step writes of the containers: the one that the request knows, or
\* the two that it renames.
StepConts(p) ==
    \/ UNCHANGED cont
    \/ \E c \in Container : cont' = [cont EXCEPT ![job[p].key] = c] /\ c.of = cont[job[p].key].of
                            /\ Touch(p, job[p].key) /\ Live(job[p].key)
    \/ /\ cont' = Moved(job[p].key, NewKey(job[p])) /\ Arrive(p, job[p].key, NewKey(job[p]))
       /\ Live(job[p].key) /\ ~Live(NewKey(job[p]))
    \/ /\ cont' = Moved(NewKey(job[p]), job[p].key) /\ Arrive(p, NewKey(job[p]), job[p].key)
       /\ Live(NewKey(job[p])) /\ ~Live(job[p].key)
LEMMA StepContainers == ASSUME TypeOK, NEW p \in Jobs, Step(p) PROVE StepConts(p)
<1> DEFINE k == job[p].key
           c == cont[k]
<1>1. job[p] \in Request /\ k \in IncusNames /\ job[p].host \in Names /\ job[p].keys \subseteq Keys
      /\ job[p].limit \in Limits \cup {Unset} /\ job[p].user \in Users
  BY StepRequest, RequestFields
<1>2. c \in Container /\ cont \in [IncusNames -> Container]
  BY <1>1 DEF TypeOK
<1>3. ASSUME NEW d \in Container, d.of = c.of, cont' = [cont EXCEPT ![k] = d], Touch(p, k), Live(k)
      PROVE  StepConts(p)
  BY <1>3 DEF StepConts
<1>4. CASE UNCHANGED cont
  BY <1>4 DEF StepConts
<1>5. CASE StopInstance(p) \/ StartInstance(p)
  <2>1. \A b \in BOOLEAN : [c EXCEPT !.on = b] \in Container /\ [c EXCEPT !.on = b].of = c.of
    BY <1>2 DEF Container
  <2>2. UNCHANGED cont \/ (Live(k) /\ \E b \in BOOLEAN : cont' = [cont EXCEPT ![k] = [c EXCEPT !.on = b]] /\ Touch(p, k))
    BY <1>5 DEF StopInstance, StartInstance, Fails, Running
  <2>3. QED
    BY <1>3, <1>4, <2>1, <2>2
<1>6. CASE MoveContainer(p)
  BY <1>4, <1>6 DEF MoveContainer, Fails, StepConts
<1>7. CASE RecordKey(p)
  BY <1>4, <1>7 DEF RecordKey, StepConts
<1>8. CASE SetHost(p)
  <2>1. [c EXCEPT !.host = job[p].host] \in Container /\ [c EXCEPT !.host = job[p].host].of = c.of
    BY <1>1, <1>2 DEF Container
  <2>2. QED
    BY <1>3, <1>4, <1>8, <2>1 DEF SetHost, SetConfig, Fails
<1>9. CASE InstallKeys(p) \/ RevokeKeys(p) \/ AddAuthorizedKey(p)
  <2>1. \A K \in SUBSET Keys : [c EXCEPT !.keys = K] \in Container /\ [c EXCEPT !.keys = K].of = c.of
    BY <1>2 DEF Container
  <2>2. own[job[p].user] \subseteq Keys /\ c.keys \subseteq Keys
    BY <1>1, <1>2 DEF TypeOK, Container
  <2>3. UNCHANGED cont \/ (Live(k) /\ \E K \in SUBSET Keys : cont' = [cont EXCEPT ![k] = [c EXCEPT !.keys = K]] /\ Touch(p, k))
    <3>1. CASE InstallKeys(p) /\ ~UNCHANGED cont
      <4>1. Live(k) /\ \E K \in SUBSET own[job[p].user] : cont' = [cont EXCEPT ![k].keys = @ \cup K] /\ Touch(p, k)
        BY <3>1 DEF InstallKeys, Running
      <4>0. PICK K \in SUBSET own[job[p].user] : cont' = [cont EXCEPT ![k].keys = @ \cup K] /\ Touch(p, k)
        BY <4>1
      <4>2. c.keys \cup K \in SUBSET Keys /\ cont' = [cont EXCEPT ![k] = [c EXCEPT !.keys = c.keys \cup K]]
        BY <2>2, <4>0
      <4>3. QED
        BY <4>0, <4>1, <4>2
    <3>2. CASE RevokeKeys(p)
      <4>1. c.keys \ job[p].keys \in SUBSET Keys
        BY <2>2
      <4>2. QED
        BY <3>2, <4>1 DEF RevokeKeys, Fails, Running
    <3>3. CASE AddAuthorizedKey(p)
      <4>1. c.keys \cup job[p].keys \in SUBSET Keys
        BY <1>1, <2>2
      <4>2. QED
        BY <3>3, <4>1 DEF AddAuthorizedKey, Fails, Running
    <3>4. QED
      BY <1>9, <3>1, <3>2, <3>3
  <2>4. QED
    BY <1>3, <1>4, <2>1, <2>3
<1>10. CASE ApplyResources(p) \/ UpdateIncusConfig(p)
  <2>1. \A l \in Limits \cup {Template, Unset} :
          [c EXCEPT !.limit = l] \in Container /\ [c EXCEPT !.limit = l].of = c.of
    BY <1>2 DEF Container
  <2>2. job[p].limit \in Limits \cup {Template, Unset} /\ Effective(job[p].limit) \in Limits \cup {Template, Unset}
    BY <1>1 DEF Effective
  <2>3. QED
    BY <1>3, <1>4, <1>10, <2>1, <2>2 DEF ApplyResources, UpdateIncusConfig, SetConfig, Fails
<1>11. QED
  BY <1>4, <1>5, <1>6, <1>7, <1>8, <1>9, <1>10
     DEF Step, WriteName, WriteOwner, CheckKey, Stopped, Started, StoreResources, RestoreSnapshot

\* A step writes the row of its own instance only.
LEMMA OwnRow ==
    ASSUME TypeOK, NEW p \in Jobs, Step(p), NEW i \in Insts, i # job[p].id
    PROVE  row'[i] = row[i]
<1>1. job[p].id \in Insts /\ row \in [Insts -> Row]
  BY StepRequest, RequestFields DEF TypeOK
<1>2. QED
  BY <1>1 DEF Step, WriteName, WriteOwner, CheckKey, StopInstance, Stopped, MoveContainer, RecordKey,
       StartInstance, Started, SetHost, InstallKeys, RevokeKeys, ApplyResources,
       UpdateIncusConfig, StoreResources, AddAuthorizedKey, RestoreSnapshot

\* It makes no row and takes none away, and sees to no creation.
LEMMA StepExists ==
    ASSUME TypeOK, NEW p \in Jobs, Step(p)
    PROVE  making' = making /\ \A i \in Insts : Exists(i)' <=> Exists(i)
<1>1. /\ job[p].id \in Insts /\ row \in [Insts -> Row] /\ row[job[p].id] \in Row /\ Exists(job[p].id)
      /\ job[p] \in Request
  BY StepRequest, RequestFields DEF TypeOK, Busy
<1>2. making' = making
  BY DEF Step, WriteName, WriteOwner, CheckKey, StopInstance, Stopped, MoveContainer, RecordKey,
         StartInstance, Started, SetHost, InstallKeys, RevokeKeys, ApplyResources,
         UpdateIncusConfig, StoreResources, AddAuthorizedKey, RestoreSnapshot, rest
<1> DEFINE i == job[p].id
<1>3. row'[i].status = row[i].status \/ row'[i].status \in {"stopped", "running"}
  <2>1. CASE WriteName(p) \/ WriteOwner(p) \/ StoreResources(p) \/ RecordKey(p)
    BY <1>1, <2>1 DEF WriteName, WriteOwner, StoreResources, RecordKey, Row
  <2>2. CASE Stopped(p) \/ Started(p)
    BY <1>1, <2>2 DEF Stopped, Started, Row
  <2>3. CASE row' = row
    BY <2>3
  <2>4. QED
    BY <2>1, <2>2, <2>3
       DEF Step, CheckKey, StopInstance, MoveContainer, StartInstance, SetHost, InstallKeys, RevokeKeys,
           ApplyResources, UpdateIncusConfig, AddAuthorizedKey, RestoreSnapshot
<1>4. row'[i].status # "none" /\ row[i].status # "none"
  BY <1>1, <1>3 DEF Exists
<1>5. \A h \in Insts : h # i => row'[h] = row[h]
  BY OwnRow
<1> HIDE DEF i
<1>6. QED
  BY <1>2, <1>4, <1>5 DEF Exists

LEMMA StepLinked == ASSUME TypeOK, NEW p \in Jobs, Step(p) PROVE Linked'
<1>1. /\ job[p].id \in Insts /\ job[p].key \in IncusNames /\ NewKey(job[p]) \in IncusNames
      /\ Exists(job[p].id) /\ cont \in [IncusNames -> Container] /\ Linked
  BY StepRequest, RequestFields, TypeParts DEF TypeOK, Busy
<1>2. making' = making /\ \A i \in Insts : Exists(i)' <=> Exists(i)
  BY StepExists
<1>3. \A k \in IncusNames : Live(k) => cont[k].of \in Insts
  BY <1>1 DEF Live, Container
<1>4. ASSUME NEW k \in IncusNames, Live(k)' PROVE \E l \in IncusNames : Live(l) /\ cont'[k].of = cont[l].of
  <2>1. ASSUME NEW c \in Container, cont' = [cont EXCEPT ![job[p].key] = c], c.of = cont[job[p].key].of
        PROVE  cont'[k].of = cont[k].of
    BY <1>1, <2>1
  <2>2. ASSUME NEW l \in IncusNames, NEW m \in IncusNames, cont' = Moved(l, m)
        PROVE  cont'[k] \in {Absent, cont[l], cont[k]}
    BY <1>1, <2>2 DEF Moved
  <2>3. cont'[k].of = cont[k].of \/ cont'[k] \in {Absent} \cup {cont[l] : l \in IncusNames}
    BY <1>1, <2>1, <2>2, StepContainers DEF StepConts
  <2>4. QED
    BY <1>4, <2>3 DEF Live, Absent
<1>5. \A k \in IncusNames : Live(k)' => Exists(cont[k].of)'
  BY <1>1, <1>2, <1>3, <1>4 DEF Linked, Exists
<1>6. \A q \in Busy' : job'[q].id \in Insts /\ Exists(job[q].id)'
  <2>1. SUFFICES ASSUME NEW q \in Jobs, job'[q].pc # "idle" PROVE job'[q].id \in Insts /\ Exists(job[q].id)'
    BY DEF Busy
  <2>2. job[q].pc # "idle" /\ job'[q].id = job[q].id
    BY <2>1, StepJobs, StepRequest DEF Idle
  <2>3. job[q].id \in Insts /\ Exists(job[q].id)
    BY <1>1, <2>2, BusyJob, RequestFields DEF Linked, Busy
  <2>4. QED
    BY <1>2, <2>2, <2>3 DEF Exists
<1>7. \A i \in Insts : Making(i)' => Exists(i)'
  BY <1>1, <1>2 DEF Linked, Making
<1>8. QED
  BY <1>5, <1>6, <1>7 DEF Linked

LEMMA StepTyped == ASSUME TypeOK, NEW p \in Jobs, Step(p) PROVE TypeOK'
<1>1. /\ job[p] \in Request /\ job[p].id \in Insts /\ job[p].key \in IncusNames
      /\ job[p].owner \in Users /\ job[p].user \in Users /\ NewKey(job[p]) \in IncusNames
  BY StepRequest, RequestFields
<1>2. ContTyped'
  <2>1. \A c \in Container : cont' = [cont EXCEPT ![job[p].key] = c] => ContTyped'
    BY <1>1, ContainerTyped
  <2>2. QED
    BY <1>1, <2>1, StepContainers, MovedTyped, ContSame, TypeParts DEF StepConts
<1>3. loose' \subseteq Insts
  <2>1. loose \subseteq Insts
    BY DEF TypeOK
  <2>2. \/ loose' = loose \/ Touch(p, job[p].key)
        \/ Arrive(p, job[p].key, NewKey(job[p])) \/ Arrive(p, NewKey(job[p]), job[p].key)
        \/ loose' = loose \cup {job[p].id}
    BY DEF Step, WriteName, WriteOwner, CheckKey, StopInstance, Stopped, MoveContainer, RecordKey,
         StartInstance, Started, SetHost, InstallKeys, RevokeKeys, ApplyResources, Fails, SetConfig, history,
         UpdateIncusConfig, StoreResources, AddAuthorizedKey, RestoreSnapshot
  <2>3. QED
    BY <1>1, <2>1, <2>2, TouchTyped, ArriveTyped
<1>4. made' \in 0..MaxRequests
  BY MadeTyped
     DEF Step, WriteName, WriteOwner, Reach, CheckKey, StopInstance, Stopped, MoveContainer, RecordKey,
         StartInstance, Started, SetHost, InstallKeys, RevokeKeys, ApplyResources, Fails, SetConfig,
         UpdateIncusConfig, StoreResources, AddAuthorizedKey, RestoreSnapshot
<1>5. /\ own' = own /\ dropped' = dropped /\ clashed' \subseteq clashed /\ granted' \subseteq granted
      /\ behind' \in {behind, behind \cup {job[p].id}} /\ kept' \in {kept, kept \cup {job[p].id}}
      /\ torn' \in {torn, torn \cup {job[p].id}}
      /\ raced' \in {raced, raced \cup {job[p].owner}, raced \cup {job[p].user}}
  <2>1. CASE WriteName(p)
    <3>1. [job[p] EXCEPT !.name = job[p].host].id = job[p].id
      BY <1>1 DEF Request
    <3>2. QED
      BY <2>1, <3>1 DEF WriteName, Reach, Named
  <2>2. CASE WriteOwner(p)
    <3>1. [job[p] EXCEPT !.owner = job[p].user].id = job[p].id
      BY <1>1 DEF Request
    <3>2. QED
      BY <2>2, <3>1 DEF WriteOwner, Reach, Named
  <2>3. CASE CheckKey(p) \/ StopInstance(p) \/ Stopped(p) \/ MoveContainer(p) \/ RecordKey(p) \/ Started(p)
             \/ StartInstance(p)
    BY <2>3 DEF CheckKey, StopInstance, Stopped, MoveContainer, RecordKey, StartInstance, Started, history, rest
  <2>4. CASE SetHost(p) \/ InstallKeys(p) \/ RevokeKeys(p)
    BY <2>4 DEF SetHost, AfterHost, InstallKeys, RevokeKeys, rest
  <2>5. CASE ApplyResources(p) \/ UpdateIncusConfig(p) \/ StoreResources(p) \/ AddAuthorizedKey(p)
             \/ RestoreSnapshot(p)
    BY <2>5 DEF ApplyResources, UpdateIncusConfig, StoreResources, AddAuthorizedKey, RestoreSnapshot, history, rest
  <2>6. QED
    BY <2>1, <2>2, <2>3, <2>4, <2>5 DEF Step
<1>6. RestTyped'
  BY <1>1, <1>3, <1>4, <1>5 DEF TypeOK, RestTyped
<1>7. MakingTyped'
  BY StepExists, TypeParts DEF MakingTyped
<1>8. QED
  BY <1>2, <1>6, <1>7, StepJobs, StepRows, StepLinked, TypePartsNext

\* The beginning of a request.
LEMMA BeginTyped == ASSUME TypeOK, NEW p \in Jobs, Begin(p) PROVE TypeOK'
<1>1. PICK i \in Insts :
      \/ \E n \in Names, c \in BOOLEAN : BeginRename(p, i, n, c)
      \/ \E u \in Users, c, keep \in BOOLEAN : BeginTransfer(p, i, u, c, keep)
      \/ \E l \in Limits \cup {Unset} : BeginResources(p, i, l) \/ BeginConfig(p, i, l)
      \/ \E o \in {"start", "stop"} : BeginPower(p, i, o)
      \/ \E u \in Users, k \in Keys : BeginKey(p, i, u, k)
      \/ BeginRestore(p, i)
  BY DEF Begin
<1>2. loose' \subseteq Insts
  <2>1. Overlap(i)
    BY <1>1 DEF BeginRename, BeginTransfer, BeginResources, BeginConfig, BeginPower, BeginKey, BeginRestore
  <2>2. QED
    BY <2>1 DEF TypeOK, Overlap
<1>3. made' \in 0..MaxRequests
  BY <1>1, MadeTyped
     DEF BeginRename, BeginTransfer, BeginResources, BeginConfig, BeginPower, BeginKey, BeginRestore
<1>4. /\ own' = own /\ cont' = cont /\ dropped' = dropped /\ behind' = behind /\ torn' = torn /\ raced' = raced
      /\ kept' \in {kept, kept \cup {i}} /\ clashed' = clashed /\ making' = making
      /\ Exists(i) /\ p \notin Busy
      /\ granted' = granted \/ \E k \in Keys : granted' = granted \cup {<<i, k>>}
  BY <1>1 DEF BeginRename, BeginTransfer, BeginResources, BeginConfig, BeginPower, BeginKey, BeginRestore,
              rest, Exists, Free
<1>5. RestTyped' /\ ContTyped' /\ MakingTyped'
  BY <1>2, <1>3, <1>4, TypeParts DEF RestTyped, ContTyped, MakingTyped
<1>6. RowsTyped'
  <2>1. row[i] \in Row /\ RowsTyped
    BY TypeParts DEF RowsTyped
  <2>2. \A l \in Limits \cup {Unset} :
          /\ [row[i] EXCEPT !.limit = l] \in Row /\ [row[i] EXCEPT !.limit = l].key = row[i].key
          /\ [row[i] EXCEPT !.limit = l].status = row[i].status
    BY <2>1 DEF Row
  <2>3. row' = row \/ \E l \in Limits \cup {Unset} : row' = [row EXCEPT ![i] = [row[i] EXCEPT !.limit = l]]
    BY <1>1 DEF BeginRename, BeginTransfer, BeginResources, BeginConfig, BeginPower, BeginKey, BeginRestore
  <2>4. CASE row' = row
    BY <2>1, <2>4, RowsSame
  <2>5. ASSUME NEW l \in Limits \cup {Unset}, row' = [row EXCEPT ![i] = [row[i] EXCEPT !.limit = l]]
        PROVE  RowsTyped'
    <3> DEFINE r == [row[i] EXCEPT !.limit = l]
    <3>1. r \in Row /\ r.key = row[i].key /\ r.status = row[i].status /\ row' = [row EXCEPT ![i] = r]
      BY <2>2, <2>5
    <3> HIDE DEF r
    <3>2. \A h \in Insts : row'[h].key = row[h].key /\ row'[h].status = row[h].status
      BY <2>1, <3>1 DEF RowsTyped
    <3>3. row' \in [Insts -> Row]
      BY <2>1, <3>1 DEF RowsTyped
    <3>4. QED
      BY <2>1, <3>2, <3>3 DEF RowsTyped, Exists
  <2>6. QED
    BY <2>3, <2>4, <2>5
<1>7. JobsTyped'
  <2> DEFINE R(o, l) == Read(i, o, l)
  <2>1. /\ R("rename", "name") \in Request /\ R("transfer", "owner") \in Request
        /\ R("resources", "apply") \in Request /\ R("config", "raw") \in Request
        /\ R("start", "restart") \in Request /\ R("stop", "stop") \in Request
        /\ R("key", "add") \in Request /\ R("restore", "restore") \in Request
    BY ReadTyped DEF Labels
  <2> HIDE DEF R
  <2>2. ASSUME NEW n \in Names, NEW c \in BOOLEAN, BeginRename(p, i, n, c) PROVE JobsTyped'
    <3>1. [R("rename", "name") EXCEPT !.host = n, !.container = c] \in Request
      BY <2>1 DEF Request
    <3>2. QED
      BY <2>2, <3>1, BecomeTyped DEF BeginRename, R
  <2>3. ASSUME NEW u \in Users, NEW c \in BOOLEAN, NEW keep \in BOOLEAN, BeginTransfer(p, i, u, c, keep)
        PROVE  JobsTyped'
    <3>1. PICK m \in Names :
            Become(p, [R("transfer", "owner") EXCEPT !.host = m, !.user = u, !.container = c,
                         !.keys = IF keep THEN {} ELSE KeysToRevoke(row[i].owner, u)])
      BY <2>3 DEF BeginTransfer, R
    <3>2. KeysToRevoke(row[i].owner, u) \subseteq Keys
      BY DEF TypeOK, KeysToRevoke, Row
    <3>3. [R("transfer", "owner") EXCEPT !.host = m, !.user = u, !.container = c,
                         !.keys = IF keep THEN {} ELSE KeysToRevoke(row[i].owner, u)] \in Request
      BY <2>1, <3>2 DEF Request
    <3>4. QED
      BY <3>1, <3>3, BecomeTyped
  <2>4. ASSUME NEW l \in Limits \cup {Unset}, BeginResources(p, i, l) \/ BeginConfig(p, i, l) PROVE JobsTyped'
    <3>1. [R("resources", "apply") EXCEPT !.limit = l] \in Request /\ [R("config", "raw") EXCEPT !.limit = l] \in Request
      BY <2>1 DEF Request
    <3>2. QED
      BY <2>4, <3>1, BecomeTyped DEF BeginResources, BeginConfig, R
  <2>5. ASSUME NEW o \in {"start", "stop"}, BeginPower(p, i, o) PROVE JobsTyped'
    BY <2>1, <2>5, BecomeTyped DEF BeginPower, R
  <2>6. ASSUME NEW u \in Users, NEW k \in Keys, BeginKey(p, i, u, k) PROVE JobsTyped'
    <3>1. [R("key", "add") EXCEPT !.keys = {k}] \in Request
      BY <2>1 DEF Request
    <3>2. QED
      BY <2>6, <3>1, BecomeTyped DEF BeginKey, R
  <2>7. CASE BeginRestore(p, i)
    BY <2>1, <2>7, BecomeTyped DEF BeginRestore, R
  <2>8. QED
    BY <1>1, <2>2, <2>3, <2>4, <2>5, <2>6, <2>7
<1>8. Linked'
  <2>1. row \in [Insts -> Row] /\ Linked /\ job \in [Jobs -> Request \cup {Idle}]
    BY TypeParts DEF RowsTyped, JobsTyped
  <2>2. \A h \in Insts : Exists(h)' <=> Exists(h)
    <3>1. row' = row \/ \E l : row' = [row EXCEPT ![i].limit = l]
      BY <1>1 DEF BeginRename, BeginTransfer, BeginResources, BeginConfig, BeginPower, BeginKey, BeginRestore
    <3>2. QED
      BY <2>1, <3>1 DEF Exists, Row
  <2>3. \E j : Become(p, j) /\ j.id = i
    <3>1. CASE \E n \in Names, c \in BOOLEAN : BeginRename(p, i, n, c)
      <4>1. PICK n \in Names, c \in BOOLEAN : BeginRename(p, i, n, c)
        BY <3>1
      <4> DEFINE j == [Read(i, "rename", "name") EXCEPT !.host = n, !.container = c]
      <4>2. j.id = i
        BY DEF Read
      <4>3. Become(p, j)
        BY <4>1 DEF BeginRename
      <4> HIDE DEF j
      <4>4. QED
        BY <4>2, <4>3
    <3>2. CASE \E u \in Users, c, keep \in BOOLEAN : BeginTransfer(p, i, u, c, keep)
      <4>1. PICK u \in Users, c \in BOOLEAN, keep \in BOOLEAN : BeginTransfer(p, i, u, c, keep)
        BY <3>2
      <4> DEFINE j(m) == [Read(i, "transfer", "owner") EXCEPT !.host = m, !.user = u, !.container = c,
                            !.keys = IF keep THEN {} ELSE KeysToRevoke(row[i].owner, u)]
      <4>2. \A m : j(m).id = i
        BY DEF Read
      <4>3. \E m \in Names : Become(p, j(m))
        BY <4>1 DEF BeginTransfer
      <4> HIDE DEF j
      <4>4. QED
        BY <4>2, <4>3
    <3>3. CASE \E l \in Limits \cup {Unset} : BeginResources(p, i, l)
      BY <3>3 DEF BeginResources, Read
    <3>4. CASE \E l \in Limits \cup {Unset} : BeginConfig(p, i, l)
      BY <3>4 DEF BeginConfig, Read
    <3>5. CASE \E o \in {"start", "stop"} : BeginPower(p, i, o)
      BY <3>5 DEF BeginPower, Read
    <3>6. CASE \E u \in Users, k \in Keys : BeginKey(p, i, u, k)
      BY <3>6 DEF BeginKey, Read
    <3>7. CASE BeginRestore(p, i)
      BY <3>7 DEF BeginRestore, Read
    <3>8. QED
      BY <1>1, <3>1, <3>2, <3>3, <3>4, <3>5, <3>6, <3>7
  <2>4. \A k \in IncusNames : Live(k) => cont[k].of \in Insts
    BY DEF TypeOK, Live, Container
  <2>5. \A k \in IncusNames : Live(k)' => Exists(cont[k].of)'
    BY <1>4, <2>1, <2>2, <2>4 DEF Linked, Live, Exists
  <2>6. \A q \in Busy : job[q].id \in Insts
    BY BusyJob, RequestFields DEF Busy
  <2>7. \A q \in Busy' : Exists(job[q].id)'
    BY <1>4, <2>1, <2>2, <2>3, <2>6 DEF Linked, Become, Busy, Exists
  <2>8. QED
    BY <1>4, <2>1, <2>2, <2>5, <2>7 DEF Linked, Making
<1>9. QED
  BY <1>5, <1>6, <1>7, <1>8, TypePartsNext

LEMMA NoRowTyped == NoRow \in Row /\ NoRow.status = "none" /\ NoRow.key \in IncusNames
<1>1. (CHOOSE u \in Users : TRUE) \in Users /\ 1 \in Names
  BY GivenAssumption, Bounds DEF Names
<1>2. QED
  BY <1>1 DEF NoRow, Row, IncusNames, Statuses

LEMMA TypeInit == Init => TypeOK
<1> SUFFICES ASSUME Init PROVE TypeOK
  OBVIOUS
<1>1. /\ DOMAIN Given \subseteq Insts /\ \A i \in DOMAIN Given : Given[i] \in IncusNames
      /\ \A i, j \in DOMAIN Given : Given[i] = Given[j] => i = j
  BY GivenAssumption DEF IncusNames, Names
<1>2. RowsTyped /\ \A i \in DOMAIN Given : Exists(i)
  <2>1. \A i \in DOMAIN Given : row[i] \in Row /\ row[i].key = Given[i] /\ Exists(i)
    BY <1>1 DEF Init, Row, IncusNames, Statuses, Exists
  <2>2. \A i \in Insts \ DOMAIN Given : row[i] = NoRow
    BY DEF Init
  <2>3. QED
    BY <1>1, <2>1, <2>2, NoRowTyped DEF RowsTyped, Init, Exists
<1>3. ContTyped /\ \A k \in IncusNames : Live(k) => cont[k].of \in DOMAIN Given
  <2>1. ASSUME NEW k \in IncusNames PROVE cont[k] \in Container /\ (Live(k) => cont[k].of \in DOMAIN Given)
    <3>1. k[1] \in Users /\ k[2] \in Names /\ 1 \in Names /\ GivenKeys[k[1]] \subseteq Keys
      BY Bounds, OpsAssumption DEF IncusNames, Names
    <3>2. CASE \E i \in DOMAIN Given : Given[i] = k
      <4> DEFINE o == CHOOSE i \in DOMAIN Given : Given[i] = k
      <4>1. o \in DOMAIN Given
        BY <3>2
      <4>2. cont[k] = [of |-> o, on |-> TRUE, host |-> k[2], limit |-> Template, keys |-> GivenKeys[k[1]]]
        BY <3>2 DEF Init
      <4> HIDE DEF o
      <4>3. QED
        BY <1>1, <3>1, <4>1, <4>2 DEF Container
    <3>3. CASE ~\E i \in DOMAIN Given : Given[i] = k
      BY <3>1, <3>3 DEF Init, Absent, Container, Live
    <3>4. QED
      BY <3>2, <3>3
  <2>2. QED
    BY <2>1 DEF ContTyped, Init
<1>4. JobsTyped /\ MakingTyped /\ RestTyped
  BY Bounds, OpsAssumption DEF Init, JobsTyped, MakingTyped, RestTyped
<1>5. Linked
  BY <1>2, <1>3 DEF Linked, Init, Busy, Idle, Making
<1>6. QED
  BY <1>2, <1>3, <1>4, <1>5, TypeParts

\* A new row, of an instance that there is none of yet.
LEMMA CreateRow ==
    ASSUME TypeOK, NEW i \in Insts, NEW u \in Users, NEW n \in Names, NEW l \in Limits \cup {Unset},
           CreateAsync(i, u, n, l)
    PROVE  /\ RowsTyped' /\ <<u, n>> \in IncusNames
           /\ row'[i].owner = u /\ row'[i].name = n /\ row'[i].key = <<u, n>>
           /\ row'[i].status = "creating" /\ row'[i].limit = l
           /\ ~Exists(i) /\ \A h \in Insts \ {i} : row'[h] = row[h] /\ (Exists(h) => row[h].key # <<u, n>>)
<1> DEFINE r == [owner |-> u, name |-> n, key |-> <<u, n>>, status |-> "creating", limit |-> l]
<1>1. /\ r \in Row /\ r.key = <<u, n>> /\ r.owner = u /\ r.name = n /\ r.status = "creating" /\ r.limit = l
      /\ <<u, n>> \in IncusNames
  BY DEF Row, IncusNames, Statuses
<1>2. row' = [row EXCEPT ![i] = r] /\ ~Exists(i) /\ ~IncusNameTaken(i, <<u, n>>)
  BY DEF CreateAsync
<1>3. RowsTyped
  BY TypeParts
<1> HIDE DEF r
<1>4. row' \in [Insts -> Row] /\ \A h \in Insts : row'[h] = IF h = i THEN r ELSE row[h]
  BY <1>1, <1>2, <1>3 DEF RowsTyped
<1>5. \A h \in Insts \ {i} : Exists(h) => row[h].key # <<u, n>>
  BY <1>2 DEF IncusNameTaken
<1>6. RowsTyped'
  BY <1>1, <1>3, <1>4, <1>5 DEF RowsTyped, Exists
<1>7. QED
  BY <1>1, <1>2, <1>4, <1>5, <1>6

LEMMA CreateTyped ==
    ASSUME TypeOK, NEW i \in Insts, NEW u \in Users, NEW n \in Names, NEW l \in Limits \cup {Unset},
           CreateAsync(i, u, n, l)
    PROVE  TypeOK'
<1> DEFINE c == [key |-> <<u, n>>, host |-> n, limit |-> l, keys |-> own[u]]
<1>1. c \in Creation
  BY CreateRow DEF Creation, TypeOK
<1>2. making' = [making EXCEPT ![i] = c] /\ UNCHANGED <<cont, own, job>>
  BY DEF CreateAsync
<1> HIDE DEF c
<1>3. MakingTyped' /\ ContTyped' /\ JobsTyped'
  BY <1>1, <1>2, TypeParts DEF MakingTyped, ContTyped, JobsTyped
<1>4. RestTyped'
  BY MadeTyped, TypeParts DEF CreateAsync, RestTyped
<1>5. \A h \in Insts : Exists(h) => Exists(h)'
  BY CreateRow DEF Exists
<1>6. Exists(i)'
  BY CreateRow DEF Exists
<1>7. Linked'
  <2>1. Linked /\ making \in [Insts -> Creation \cup {NoCreation}]
    BY TypeParts DEF MakingTyped
  <2>2. \A k \in IncusNames : Live(k) => cont[k].of \in Insts
    BY DEF TypeOK, Live, Container
  <2>3. \A q \in Busy : job[q].id \in Insts
    BY BusyJob, RequestFields DEF Busy
  <2>4. \A k \in IncusNames : Live(k)' => Exists(cont[k].of)'
    BY <1>2, <1>5, <2>1, <2>2 DEF Linked, Live, Exists
  <2>5. \A q \in Busy' : Exists(job[q].id)'
    BY <1>2, <1>5, <2>1, <2>3 DEF Linked, Busy, Exists
  <2>6. \A h \in Insts : Making(h)' => Exists(h)'
    BY <1>2, <1>5, <1>6, <2>1 DEF Linked, Making
  <2>7. QED
    BY <2>4, <2>5, <2>6 DEF Linked
<1>8. QED
  BY <1>3, <1>4, <1>7, CreateRow, TypePartsNext

\* The end of a creation: a container, that runs or does not, or none.
Finished(i) ==
    LET c == making[i] IN
    /\ Making(i) /\ c \in Creation /\ Exists(i)
    /\ making' = [making EXCEPT ![i] = NoCreation]
    /\ own' = own /\ job' = job /\ behind' = behind /\ kept' = kept /\ raced' = raced
    /\ clashed' = clashed /\ dropped' = dropped /\ granted' = granted /\ torn' = torn
    /\ row' \in [Insts -> Row] /\ \A h \in Insts \ {i} : row'[h] = row[h]
    /\ row'[i].key = row[i].key /\ row'[i].owner = row[i].owner
    /\ row'[i].name = row[i].name /\ row'[i].limit = row[i].limit
    /\ \/ /\ ~Live(c.key) /\ \A k \in IncusNames \ {c.key} : cont'[k] = cont[k]
          /\ cont'[c.key] \in Container /\ cont'[c.key].of = i /\ cont'[c.key].host = c.host
          /\ cont'[c.key].limit = Effective(c.limit) /\ cont'[c.key].keys \subseteq c.keys
          /\ IF cont'[c.key].on THEN row'[i].status = "running" ELSE row'[i].status = "error"
          /\ loose' = loose \cup Shadowed(i, c.key)
       \/ row'[i].status = "error" /\ cont' = cont /\ loose' = loose
LEMMA FinishFacts ==
    ASSUME TypeOK, NEW i \in Insts, FinishCreate(i) PROVE Finished(i) /\ (Asked \/ UNCHANGED made)
<1> DEFINE c == making[i]
           new == [of |-> i, on |-> FALSE, host |-> c.host, limit |-> Effective(c.limit), keys |-> {}]
<1>1. /\ Making(i) /\ c \in Creation /\ Exists(i) /\ row \in [Insts -> Row] /\ row[i] \in Row
      /\ cont \in [IncusNames -> Container]
  BY DEF TypeOK, FinishCreate, Making
<1>2. c.key \in IncusNames /\ c.host \in Names /\ c.limit \in Limits \cup {Unset} /\ c.keys \subseteq Keys
  BY <1>1 DEF Creation
<1>3. /\ new \in Container /\ new.of = i /\ ~new.on /\ new.host = c.host /\ new.limit = Effective(c.limit)
      /\ new.keys = {}
  BY <1>2 DEF Container, Effective
<1>4. ASSUME NEW K \in SUBSET c.keys, NEW d, d = [new EXCEPT !.on = TRUE, !.keys = K]
      PROVE  d \in Container /\ d.of = i /\ d.on /\ d.host = c.host /\ d.limit = Effective(c.limit)
             /\ d.keys = K
  <2>1. K \subseteq Keys
    BY <1>2
  <2>2. d = [of |-> i, on |-> TRUE, host |-> c.host, limit |-> Effective(c.limit), keys |-> K]
    BY <1>4
  <2>3. QED
    BY <1>2, <2>1, <2>2 DEF Container, Effective
<1>5. /\ making' = [making EXCEPT ![i] = NoCreation]
      /\ own' = own /\ job' = job /\ behind' = behind /\ kept' = kept /\ raced' = raced
      /\ clashed' = clashed /\ dropped' = dropped /\ granted' = granted /\ torn' = torn
  BY DEF FinishCreate
<1>6. ASSUME NEW t \in {"running", "error"}, row' = [row EXCEPT ![i].status = t]
      PROVE  /\ row' \in [Insts -> Row] /\ \A h \in Insts \ {i} : row'[h] = row[h]
             /\ row'[i].key = row[i].key /\ row'[i].owner = row[i].owner /\ row'[i].status = t
             /\ row'[i].name = row[i].name /\ row'[i].limit = row[i].limit
  <2>1. t \in Statuses
    BY DEF Statuses
  <2>2. QED
    BY <1>1, <1>6, <2>1 DEF Row
<1>7. \/ \E K \in SUBSET c.keys :
           /\ ~Live(c.key) /\ (Asked \/ UNCHANGED made)
           /\ cont' = [cont EXCEPT ![c.key] = [new EXCEPT !.on = TRUE, !.keys = K]]
           /\ row' = [row EXCEPT ![i].status = "running"] /\ loose' = loose \cup Shadowed(i, c.key)
      \/ /\ ~Live(c.key) /\ Asked /\ cont' = [cont EXCEPT ![c.key] = new]
         /\ row' = [row EXCEPT ![i].status = "error"] /\ loose' = loose \cup Shadowed(i, c.key)
      \/ /\ (Asked \/ UNCHANGED made)
         /\ row' = [row EXCEPT ![i].status = "error"] /\ cont' = cont /\ loose' = loose
  BY DEF FinishCreate
<1> HIDE DEF c, new
<1>8. c = making[i]
  BY DEF c
<1>9. CASE \E K \in SUBSET c.keys :
           /\ ~Live(c.key) /\ (Asked \/ UNCHANGED made)
           /\ cont' = [cont EXCEPT ![c.key] = [new EXCEPT !.on = TRUE, !.keys = K]]
           /\ row' = [row EXCEPT ![i].status = "running"] /\ loose' = loose \cup Shadowed(i, c.key)
  <2>1. PICK K \in SUBSET c.keys : cont' = [cont EXCEPT ![c.key] = [new EXCEPT !.on = TRUE, !.keys = K]]
    BY <1>9
  <2> DEFINE d == [new EXCEPT !.on = TRUE, !.keys = K]
  <2>2. d \in Container /\ d.of = i /\ d.on /\ d.host = c.host /\ d.limit = Effective(c.limit) /\ d.keys \subseteq c.keys
    BY <1>4
  <2>3. cont'[c.key] = d /\ \A k \in IncusNames \ {c.key} : cont'[k] = cont[k]
    BY <1>1, <1>2, <2>1
  <2> HIDE DEF d
  <2>4. QED
    BY <1>1, <1>5, <1>6, <1>8, <1>9, <2>2, <2>3 DEF Finished
<1>10. CASE /\ ~Live(c.key) /\ Asked /\ cont' = [cont EXCEPT ![c.key] = new]
            /\ row' = [row EXCEPT ![i].status = "error"] /\ loose' = loose \cup Shadowed(i, c.key)
  <2>1. cont'[c.key] = new /\ \A k \in IncusNames \ {c.key} : cont'[k] = cont[k]
    BY <1>1, <1>2, <1>10
  <2>2. QED
    BY <1>1, <1>3, <1>5, <1>6, <1>8, <1>10, <2>1 DEF Finished
<1>11. CASE /\ (Asked \/ UNCHANGED made)
            /\ row' = [row EXCEPT ![i].status = "error"] /\ cont' = cont /\ loose' = loose
  BY <1>1, <1>5, <1>6, <1>8, <1>11 DEF Finished
<1>12. QED
  BY <1>7, <1>9, <1>10, <1>11

LEMMA FinishTyped == ASSUME TypeOK, NEW i \in Insts, FinishCreate(i) PROVE TypeOK'
<1>1. Finished(i) /\ (Asked \/ UNCHANGED made)
  BY FinishFacts
<1> DEFINE c == making[i]
<1>2. c.key \in IncusNames
  BY <1>1 DEF Finished, Creation
<1>3. \A h \in Insts : Exists(h)' <=> Exists(h)
  BY <1>1 DEF Finished, Exists
<1>4. RowsTyped'
  BY <1>1, <1>3, TypeParts DEF Finished, RowsTyped, Exists
<1>5. ContTyped'
  BY <1>1, <1>2, TypeParts DEF Finished, ContTyped, FinishCreate
<1>6. JobsTyped' /\ MakingTyped'
  BY <1>1, TypeParts DEF Finished, JobsTyped, MakingTyped
<1>7. RestTyped'
  BY <1>1, MadeTyped, TypeParts DEF Finished, RestTyped, Shadowed
<1>8. Linked'
  <2>1. Linked /\ making \in [Insts -> Creation \cup {NoCreation}]
    BY TypeParts DEF MakingTyped
  <2>2. \A k \in IncusNames : Live(k) => cont[k].of \in Insts
    BY DEF TypeOK, Live, Container
  <2>3. \A q \in Busy : job[q].id \in Insts
    BY BusyJob, RequestFields DEF Busy
  <2>4. \A k \in IncusNames : Live(k)' => (cont'[k] = cont[k] \/ cont'[k].of = i)
    BY <1>1, <1>2 DEF Finished
  <2>5. \A k \in IncusNames : Live(k)' => Exists(cont[k].of)'
    BY <1>1, <1>3, <2>1, <2>2, <2>4 DEF Linked, Live, Exists, Finished
  <2>6. \A q \in Busy' : Exists(job[q].id)'
    BY <1>1, <1>3, <2>1, <2>3 DEF Linked, Busy, Exists, Finished
  <2>7. \A h \in Insts : Making(h)' => Exists(h)'
    BY <1>1, <1>3, <2>1 DEF Linked, Making, Finished
  <2>8. QED
    BY <2>5, <2>6, <2>7 DEF Linked
<1>9. QED
  BY <1>4, <1>5, <1>6, <1>7, <1>8, TypePartsNext

LEMMA TypeNext == ASSUME TypeOK, [Next]_vars PROVE TypeOK'
<1>0. ASSUME UNCHANGED <<row, cont, job, making>> PROVE Linked'
  BY <1>0, TypeParts DEF Linked, Live, Exists, Busy, Making
<1>1. CASE \E p \in Jobs : Begin(p) \/ Step(p)
  BY <1>1, BeginTyped, StepTyped
<1>2. CASE \E u \in Users, k \in Keys : CreateSSHKey(u, k) \/ DeleteSSHKey(u, k)
  <2>1. PICK u \in Users, k \in Keys : CreateSSHKey(u, k) \/ DeleteSSHKey(u, k)
    BY <1>2
  <2>2. RestTyped'
    BY <2>1, MadeTyped DEF CreateSSHKey, DeleteSSHKey, history, TypeOK, RestTyped
  <2>3. RowsTyped' /\ ContTyped' /\ JobsTyped' /\ MakingTyped' /\ Linked'
    BY <1>0, <2>1, TypeParts
       DEF CreateSSHKey, DeleteSSHKey, RowsTyped, ContTyped, JobsTyped, MakingTyped, Exists
  <2>4. QED
    BY <2>2, <2>3, TypePartsNext
<1>3. CASE Crash
  <2>1. {job[p].id : p \in Busy} \subseteq Insts
    BY BusyJob, RequestFields DEF Busy
  <2>2. {job[p].id : p \in {q \in Busy : job[q].pc \in {"stopped", "record", "started"}}} \subseteq Insts
    BY <2>1
  <2>3. RestTyped'
    BY <1>3, <2>1, <2>2, MadeTyped DEF Crash, TypeOK, RestTyped
  <2>4. RowsTyped' /\ ContTyped' /\ JobsTyped' /\ MakingTyped'
    BY <1>3, TypeParts DEF Crash, RowsTyped, ContTyped, JobsTyped, MakingTyped, Exists
  <2>5. Linked'
    BY <1>3, TypeParts DEF Crash, Linked, Live, Exists, Busy, Making, Idle
  <2>6. QED
    BY <2>3, <2>4, <2>5, TypePartsNext
<1>4. CASE UNCHANGED vars
  <2>1. RowsTyped' /\ ContTyped' /\ JobsTyped' /\ MakingTyped' /\ RestTyped' /\ Linked'
    BY <1>0, <1>4, TypeParts
       DEF vars, history, RowsTyped, ContTyped, JobsTyped, MakingTyped, RestTyped, Exists
  <2>2. QED
    BY <2>1, TypePartsNext
<1>5. CASE \E i \in Insts : \E u \in Users, n \in Names, l \in Limits \cup {Unset} : CreateAsync(i, u, n, l)
  BY <1>5, CreateTyped
<1>6. CASE \E i \in Insts : FinishCreate(i)
  BY <1>6, FinishTyped
<1>7. QED
  BY <1>1, <1>2, <1>3, <1>4, <1>5, <1>6 DEF Next, Quiet

\* Every reachable state is well typed, and no two rows ever have the same
\* incus_name, whatever is renamed and handed over at once.
THEOREM TypeCorrect == Spec => []TypeOK
<1>1. QED
  BY TypeInit, TypeNext, PTL DEF Spec

-----------------------------------------------------------------------------
(* The invariant behind RowsReachContainers: where a request has got to    *)
(* tells how far row and container of its instance are apart, as long as   *)
(* it is the only one on the instance; and what is done to other instances *)
(* does not reach the container.                                           *)

\* The containers of an instance are the one of name k, at most.
OnlyAt(i, k) == \A m \in IncusNames : cont[m].of = i => m = k
Reached(i) ==
    /\ OnlyAt(i, row[i].key)
    /\ cont[row[i].key].of \in {i, None}
    /\ row[i].status \in {"running", "stopped"} => cont[row[i].key].of = i
    /\ cont[row[i].key].of = i /\ cont[row[i].key].on <=> row[i].status = "running"
Apart == {"stopped", "record", "started"}
At(p, i) ==
    /\ job[p].key = row[i].key /\ job[p].owner = row[i].owner
    /\ job[p].pc \in {"stopped", "started"} => OnlyAt(i, row[i].key) /\ cont[row[i].key].of = i
    /\ job[p].pc = "stopped" => ~cont[row[i].key].on
    /\ job[p].pc = "started" => cont[row[i].key].on
    /\ job[p].pc = "record" =>
         /\ OnlyAt(i, NewKey(job[p]))
         /\ cont[NewKey(job[p])].of = i /\ ~cont[NewKey(job[p])].on
         /\ row[i].status # "running" /\ row[i].key # NewKey(job[p])
    /\ job[p].pc \notin Apart => Reached(i)
    /\ job[p].pc = "restore" => row[i].status # "running"
\* A creation is under way: what it will make is what the row says.
Coming(i) ==
    /\ OnInst(i) = {} /\ row[i].status = "creating"
    /\ making[i].key = row[i].key /\ making[i].host = row[i].name /\ making[i].limit = row[i].limit
    /\ cont[row[i].key].of = None /\ \A m \in IncusNames : cont[m].of # i
Settled(i) ==
    /\ \A p, q \in OnInst(i) : p = q
    /\ \A p \in OnInst(i) : At(p, i)
    /\ OnInst(i) = {} /\ ~Making(i) => Reached(i)
    /\ Making(i) => Coming(i)
AllSettled == \A i \in Insts \ loose : Exists(i) => Settled(i)

LEMMA LooseGrows == ASSUME NEW p \in Jobs, Step(p) PROVE loose \subseteq loose'
BY DEF Step, WriteName, WriteOwner, CheckKey, StopInstance, Stopped, MoveContainer, RecordKey,
       StartInstance, Started, SetHost, InstallKeys, RevokeKeys, ApplyResources, Fails, SetConfig, history,
       UpdateIncusConfig, StoreResources, AddAuthorizedKey, RestoreSnapshot, Touch, Arrive

\* A step leaves the container of another instance as it is, or that instance
\* is one that a call meant for another has found; and it gives the name that
\* the other's row has to no container.
LEMMA OwnContainer ==
    ASSUME TypeOK, NEW p \in Jobs, Step(p), NEW i \in Insts \ loose', i # job[p].id, Exists(i)
    PROVE  /\ \A k \in IncusNames : cont[k].of = i => cont'[k] = cont[k]
           /\ \A k \in IncusNames : cont'[k].of = i => cont[k].of = i
           /\ cont[row[i].key].of = None => cont'[row[i].key] = cont[row[i].key]
<1>1. /\ job[p].key \in IncusNames /\ NewKey(job[p]) \in IncusNames /\ cont \in [IncusNames -> Container]
      /\ row[i].key \in IncusNames
  BY StepRequest, RequestFields DEF TypeOK, Row
<1>2. i # None
  BY Bounds
<1>3. ASSUME NEW k \in IncusNames
      PROVE  /\ cont[k].of = i => cont'[k] = cont[k]
             /\ cont'[k].of = i => cont[k].of = i
             /\ cont[k].of = None /\ k = row[i].key => cont'[k] = cont[k]
  <2>1. ASSUME NEW l \in IncusNames, Touch(p, l) PROVE cont[l].of # i
    BY <1>2, <2>1 DEF Touch
  <2>2. ASSUME NEW c \in Container, cont' = [cont EXCEPT ![job[p].key] = c], Touch(p, job[p].key),
               c.of = cont[job[p].key].of, Live(job[p].key)
        PROVE  /\ cont[k].of = i => cont'[k] = cont[k]
               /\ cont'[k].of = i => cont[k].of = i
               /\ cont[k].of = None /\ k = row[i].key => cont'[k] = cont[k]
    BY <1>1, <2>1, <2>2 DEF Live
  <2>3. ASSUME NEW l \in IncusNames, NEW m \in IncusNames, cont' = Moved(l, m), Arrive(p, l, m),
               Live(l), ~Live(m)
        PROVE  /\ cont[k].of = i => cont'[k] = cont[k]
               /\ cont'[k].of = i => cont[k].of = i
               /\ cont[k].of = None /\ k = row[i].key => cont'[k] = cont[k]
    <3>1. cont[l].of # i
      BY <1>2, <2>3 DEF Arrive
    <3>2. row[i].key # m
      BY <2>3 DEF Arrive, Shadowed
    <3>3. cont'[k] = IF k = l THEN Absent ELSE IF k = m THEN cont[l] ELSE cont[k]
      BY <1>1, <2>3 DEF Moved
    <3>4. cont[m].of = None /\ cont[l].of # None /\ Absent.of = None
      BY <2>3 DEF Live, Absent
    <3>5. QED
      BY <1>2, <3>1, <3>2, <3>3, <3>4
  <2>4. QED
    BY <1>1, <2>2, <2>3, StepContainers DEF StepConts
<1>4. QED
  BY <1>1, <1>3

LEMMA Elsewhere ==
    ASSUME TypeOK, NEW p \in Jobs, Step(p), NEW i \in Insts \ loose', i # job[p].id, Exists(i), Settled(i)
    PROVE  Settled(i)'
<1>1. row'[i] = row[i] /\ row[i].key \in IncusNames /\ making' = making
  BY OwnRow, StepExists DEF TypeOK, Row
<1>2. /\ \A k \in IncusNames : cont[k].of = i => cont'[k] = cont[k]
      /\ \A k \in IncusNames : cont'[k].of = i => cont[k].of = i
      /\ cont[row[i].key].of = None => cont'[row[i].key] = cont[row[i].key]
  BY OwnContainer
<1>3. OnInst(i)' = OnInst(i) /\ \A q \in OnInst(i) : q \in Jobs /\ job'[q] = job[q]
  BY StepJobs, StepRequest DEF OnInst, Busy, Idle
<1>5. Reached(i) => Reached(i)'
  <2>1. OnlyAt(i, row[i].key) => OnlyAt(i, row[i].key)'
    BY <1>1, <1>2 DEF OnlyAt
  <2>2. QED
    BY <1>1, <1>2, <2>1 DEF Reached
<1>6. ASSUME NEW q \in OnInst(i), At(q, i) PROVE At(q, i)'
  <2>1. job'[q] = job[q] /\ job[q] \in Request
    BY <1>3, BusyJob DEF OnInst, Busy
  <2>2. NewKey(job[q]) \in IncusNames /\ NewKey(job[q])' = NewKey(job[q])
    BY <2>1, RequestFields DEF NewKey
  <2>3. /\ OnlyAt(i, row[i].key) => OnlyAt(i, row[i].key)'
        /\ OnlyAt(i, NewKey(job[q])) => OnlyAt(i, NewKey(job[q]))'
    BY <1>1, <1>2, <2>2 DEF OnlyAt
  <2>4. QED
    BY <1>1, <1>2, <1>5, <1>6, <2>1, <2>2, <2>3 DEF At, Apart
<1>7. Coming(i) => Coming(i)'
  BY <1>1, <1>2, <1>3, Bounds DEF Coming
<1>8. QED
  BY <1>1, <1>3, <1>5, <1>6, <1>7 DEF Settled, Making

\* A request that is alone on its instance, after a step of its own.
Fit(p, i) == IF job[p].pc = "idle" THEN Reached(i) ELSE At(p, i)
LEMMA FitSettles ==
    ASSUME TypeOK, NEW p \in Jobs, Step(p), NEW i \in Insts, i = job[p].id, Settled(i), Fit(p, i)'
    PROVE  Settled(i)'
<1>1. p \in OnInst(i)
  BY StepRequest DEF OnInst, Busy
<1>0. ~Making(i)'
  BY <1>1, StepExists DEF Settled, Coming, Making
<1>2. \A q \in OnInst(i)' : q = p
  BY <1>1, StepJobs DEF Settled, OnInst, Busy
<1>3. job'[p].pc # "idle" => p \in OnInst(i)'
  BY StepJobs DEF OnInst, Busy, Idle
<1>4. job'[p].pc = "idle" => p \notin OnInst(i)'
  BY DEF OnInst, Busy
<1>5. QED
  BY <1>0, <1>2, <1>3, <1>4 DEF Settled, Fit

\* Where the row and the container have what the two are compared by, and the
\* request is at no place between them.
LEMMA FitCalmly ==
    ASSUME TypeOK, NEW p \in Jobs, NEW i \in Insts, Reached(i),
           row'[i].key = row[i].key, row'[i].status = row[i].status,
           \A m \in IncusNames : cont'[m].of = cont[m].of, cont'[row[i].key].on = cont[row[i].key].on,
           \/ job'[p] = Idle
           \/ /\ job'[p].key = row'[i].key /\ job'[p].owner = row'[i].owner
              /\ job'[p].pc \notin Apart \cup {"restore", "idle"}
    PROVE  Fit(p, i)'
<1>1. Reached(i)'
  BY DEF Reached, OnlyAt, TypeOK, Row
<1>2. CASE job'[p] = Idle
  BY <1>1, <1>2 DEF Fit, Idle
<1>3. CASE job'[p] # Idle
  BY <1>1, <1>3 DEF Fit, At, Apart
<1>4. QED
  BY <1>2, <1>3

LEMMA Here ==
    ASSUME TypeOK, NEW p \in Jobs, Step(p), NEW i \in Insts \ loose', i = job[p].id, Settled(i)
    PROVE  Settled(i)'
<1> DEFINE j == job[p]
           k == row[i].key
           c == cont[k]
<1>1. /\ j \in Request /\ j.pc # "idle" /\ At(p, i)
      /\ row \in [Insts -> Row] /\ row[i] \in Row /\ cont \in [IncusNames -> Container]
      /\ k \in IncusNames /\ c \in Container /\ job \in [Jobs -> Request \cup {Idle}]
      /\ NewKey(j) \in IncusNames /\ j.key = k /\ j.owner = row[i].owner
  BY StepRequest, RequestFields DEF TypeOK, Row, Settled, OnInst, Busy, At
<1>2. SUFFICES Fit(p, i)'
  BY FitSettles
<1> HIDE DEF j
<1>3. j = job[p]
  BY DEF j
<1>a. ASSUME NEW d, d.of = c.of, cont' = [cont EXCEPT ![k] = d]
      PROVE  \A m \in IncusNames : cont'[m].of = cont[m].of
  BY <1>1, <1>a
<1>b. i # None
  BY Bounds
<1>4. ASSUME j.pc \notin Apart, NEW l \in Labels \ (Apart \cup {"restore"}), Goto(p, l), UNCHANGED <<row, cont>>
      PROVE  Fit(p, i)'
  <2>1. job'[p] = [j EXCEPT !.pc = l]
    BY <1>1, <1>3, <1>4, GotoTyped
  <2>2. job'[p].key = j.key /\ job'[p].owner = j.owner /\ job'[p].pc = l
    BY <1>1, <2>1 DEF Request
  <2>3. Reached(i)
    BY <1>1, <1>3, <1>4 DEF At
  <2>4. l # "idle"
    BY DEF Labels
  <2>5. QED
    BY <1>1, <1>4, <2>2, <2>3, <2>4, FitCalmly
<1>5. ASSUME j.pc \notin Apart, Done(p), UNCHANGED <<row, cont>> PROVE Fit(p, i)'
  <2>1. job'[p] = Idle
    BY <1>5, DoneTyped
  <2>2. Reached(i)
    BY <1>1, <1>3, <1>5 DEF At
  <2>3. QED
    BY <1>1, <1>5, <2>1, <2>2, FitCalmly
<1>6. ASSUME NEW g \in Request, g.key = row'[i].key, g.owner = row'[i].owner, Restart(p, g) PROVE
        /\ job'[p].key = row'[i].key /\ job'[p].owner = row'[i].owner /\ job'[p].pc \in {"restart", "host"}
  <2>1. job'[p] = [g EXCEPT !.pc = "restart"] \/ job'[p] = [g EXCEPT !.pc = "host"]
    BY <1>1, <1>6 DEF Restart, Become
  <2>2. QED
    BY <1>6, <2>1 DEF Request
<1>7. CASE WriteName(p) \/ WriteOwner(p)
  <2>1. j.pc \notin Apart /\ UNCHANGED cont
    BY <1>3, <1>7 DEF WriteName, WriteOwner, Apart
  <2>2. Reached(i)
    BY <1>1, <1>3, <2>1 DEF At
  <2>3. /\ row'[i].key = k /\ row'[i].status = row[i].status
        /\ row'[i].owner = IF WriteOwner(p) THEN j.user ELSE j.owner
    BY <1>1, <1>3, <1>7 DEF WriteName, WriteOwner, Row
  <2>4. ASSUME NEW g \in Request, g.key = k, g.owner = row'[i].owner, Reach(p, g)
        PROVE  Fit(p, i)'
    <3>1. \/ job'[p] = Idle \/ job'[p] = [g EXCEPT !.pc = "rename"] \/ job'[p] = [g EXCEPT !.pc = "host"]
      BY <1>1, <2>4 DEF Reach, Become, Done
    <3>2. \/ job'[p] = Idle
          \/ job'[p].key = k /\ job'[p].owner = row'[i].owner /\ job'[p].pc \in {"rename", "host"}
      BY <2>4, <3>1 DEF Request
    <3>3. QED
      BY <2>1, <2>2, <2>3, <3>2, FitCalmly DEF Apart
  <2>5. CASE WriteName(p)
    <3>1. [j EXCEPT !.name = j.host] \in Request
          /\ [j EXCEPT !.name = j.host].key = k /\ [j EXCEPT !.name = j.host].owner = j.owner
      BY <1>1 DEF Request
    <3>2. Reach(p, [j EXCEPT !.name = j.host]) /\ ~WriteOwner(p)
      BY <2>5, <1>3 DEF WriteName, WriteOwner
    <3>3. QED
      BY <2>3, <2>4, <3>1, <3>2
  <2>6. CASE WriteOwner(p)
    <3>1. [j EXCEPT !.owner = j.user] \in Request
          /\ [j EXCEPT !.owner = j.user].key = k /\ [j EXCEPT !.owner = j.user].owner = j.user
      BY <1>1 DEF Request
    <3>2. Reach(p, [j EXCEPT !.owner = j.user])
      BY <2>6, <1>3 DEF WriteOwner
    <3>3. QED
      BY <2>3, <2>4, <2>6, <3>1, <3>2
  <2>7. QED
    BY <1>7, <2>5, <2>6
<1>8. CASE CheckKey(p)
  BY <1>3, <1>4, <1>8 DEF CheckKey, AfterRename, Apart, Labels
<1>9. CASE StopInstance(p)
  <2>1. j.pc \notin Apart /\ UNCHANGED row
    BY <1>3, <1>9 DEF StopInstance, Apart
  <2>2. Reached(i)
    BY <1>1, <1>3, <2>1 DEF At
  <2>3. CASE Live(k) /\ cont' = [cont EXCEPT ![k].on = FALSE] /\ Goto(p, "stopped")
    <3>1. job'[p] = [j EXCEPT !.pc = "stopped"]
      BY <1>1, <1>3, <2>3, GotoTyped DEF Labels
    <3>2. job'[p].key = k /\ job'[p].owner = row[i].owner /\ job'[p].pc = "stopped"
      BY <1>1, <3>1 DEF Request
    <3>3. cont'[k].of = i /\ ~cont'[k].on
      BY <1>1, <2>2, <2>3 DEF Reached, Container, Live
    <3>4. OnlyAt(i, k) /\ \A m \in IncusNames : cont'[m].of = cont[m].of
      BY <1>1, <2>2, <2>3 DEF Reached, Container
    <3>5. OnlyAt(i, row[i].key)'
      BY <1>1, <2>1, <3>4 DEF OnlyAt
    <3>6. QED
      BY <2>1, <3>2, <3>3, <3>5 DEF Fit, At, Apart
  <2>4. CASE UNCHANGED cont /\ (Done(p) \/ AfterRename(p))
    BY <1>4, <1>5, <2>1, <2>4 DEF AfterRename, Labels, Apart
  <2>5. QED
    BY <1>1, <1>3, <1>9, <2>3, <2>4 DEF StopInstance, Fails, Running
<1>10. CASE Stopped(p)
  <2>1. j.pc = "stopped" /\ UNCHANGED cont
    BY <1>3, <1>10 DEF Stopped
  <2>2. row'[i].key = k /\ row'[i].owner = row[i].owner /\ row'[i].status = "stopped"
    BY <1>1, <1>3, <1>10 DEF Stopped, Row
  <2>3. Reached(i)'
    BY <1>1, <1>3, <2>1, <2>2 DEF Reached, At, OnlyAt
  <2>4. job'[p] = Idle \/ job'[p] = [j EXCEPT !.pc = "move", !.was = TRUE]
    BY <1>1, <1>3, <1>10 DEF Stopped, Done, Become
  <2>5. job'[p] = Idle \/ (job'[p].key = k /\ job'[p].owner = row[i].owner /\ job'[p].pc = "move")
    BY <1>1, <2>4 DEF Request
  <2>6. QED
    BY <2>2, <2>3, <2>5 DEF Fit, At, Apart, Idle
<1>11. CASE MoveContainer(p)
  <2>1. j.pc \notin Apart /\ UNCHANGED row
    BY <1>3, <1>11 DEF MoveContainer, Apart
  <2>2. Reached(i)
    BY <1>1, <1>3, <2>1 DEF At
  <2>3. CASE Live(k) /\ ~cont[k].on /\ ~Live(NewKey(j)) /\ cont' = Moved(k, NewKey(j)) /\ Goto(p, "record")
    <3>1. job'[p] = [j EXCEPT !.pc = "record"]
      BY <1>1, <1>3, <2>3, GotoTyped DEF Labels
    <3>2. /\ job'[p].key = k /\ job'[p].owner = row[i].owner /\ job'[p].pc = "record"
          /\ NewKey(job[p])' = NewKey(j)
      BY <1>1, <3>1 DEF Request, NewKey
    <3>3. k # NewKey(j)
      BY <2>3
    <3>4. cont'[NewKey(j)] = cont[k]
      BY <1>1, <2>3, <3>3 DEF Moved
    <3>5. cont[k].of = i /\ \A m \in IncusNames : cont[m].of = i => m = k
      BY <1>1, <2>2, <2>3 DEF Reached, Live, OnlyAt
    <3>6. \A m \in IncusNames : cont'[m] = IF m = k THEN Absent ELSE IF m = NewKey(j) THEN cont[k] ELSE cont[m]
      BY <1>1, <2>3 DEF Moved
    <3>7. Absent.of # i
      BY <1>b DEF Absent
    <3>8. \A m \in IncusNames : cont'[m].of = i => m = NewKey(j)
      BY <3>5, <3>6, <3>7
    <3>9. OnlyAt(i, NewKey(job[p]))'
      BY <3>2, <3>8 DEF OnlyAt
    <3>10. row[i].status # "running"
      BY <2>2, <2>3, <3>5 DEF Reached
    <3>11. QED
      BY <2>1, <2>3, <3>2, <3>3, <3>4, <3>5, <3>9, <3>10 DEF Fit, At, Apart
  <2>4. CASE UNCHANGED cont /\ Restart(p, j)
    BY <1>1, <1>6, <2>1, <2>2, <2>4, FitCalmly DEF Apart
  <2>5. QED
    BY <1>1, <1>3, <1>11, <2>3, <2>4 DEF MoveContainer, Fails
<1>12. CASE RecordKey(p)
  <2>1. /\ cont[NewKey(j)].of = i /\ ~cont[NewKey(j)].on
        /\ row[i].status # "running" /\ k # NewKey(j)
        /\ \A m \in IncusNames : cont[m].of = i => m = NewKey(j)
    BY <1>1, <1>3, <1>12 DEF RecordKey, At, OnlyAt
  <2> DEFINE g == [j EXCEPT !.key = NewKey(j)]
  <2>2. CASE /\ row' = IF row[j.id].owner = j.owner THEN [row EXCEPT ![j.id].key = NewKey(j)] ELSE row
             /\ Restart(p, g) /\ UNCHANGED cont
    <3>1. row' = [row EXCEPT ![i].key = NewKey(j)]
      BY <1>1, <1>3, <2>2
    <3>2. row'[i].key = NewKey(j) /\ row'[i].owner = row[i].owner /\ row'[i].status = row[i].status
      BY <1>1, <3>1 DEF Row
    <3>3. g \in Request /\ g.key = NewKey(j) /\ g.owner = j.owner
      BY <1>1 DEF Request
    <3>4. job'[p].key = row'[i].key /\ job'[p].owner = row'[i].owner /\ job'[p].pc \in {"restart", "host"}
      BY <1>1, <1>6, <2>2, <3>2, <3>3
    <3>5. Reached(i)'
      BY <2>1, <2>2, <3>2 DEF Reached, OnlyAt
    <3>6. QED
      BY <3>4, <3>5 DEF Fit, At, Apart
  <2>3. CASE UNCHANGED row /\ Restart(p, j) /\ cont' = Moved(NewKey(j), k)
    <3>1. cont'[k] = cont[NewKey(j)]
      BY <1>1, <2>1, <2>3 DEF Moved
    <3>2. job'[p].key = row'[i].key /\ job'[p].owner = row'[i].owner /\ job'[p].pc \in {"restart", "host"}
      BY <1>1, <1>6, <2>3
    <3>5. \A m \in IncusNames : cont'[m] = IF m = NewKey(j) THEN Absent ELSE IF m = k THEN cont[NewKey(j)] ELSE cont[m]
      BY <1>1, <2>3 DEF Moved
    <3>6. \A m \in IncusNames : cont'[m].of = i => m = k
      BY <1>b, <2>1, <3>5 DEF Absent
    <3>3. Reached(i)'
      BY <2>1, <2>3, <3>1, <3>6 DEF Reached, OnlyAt
    <3>4. QED
      BY <3>2, <3>3 DEF Fit, At, Apart
  <2>4. CASE loose' = loose \cup {i}
    BY <2>4
  <2>5. QED
    BY <1>1, <1>3, <1>12, <2>2, <2>3, <2>4 DEF RecordKey
<1>13. CASE StartInstance(p)
  <2>1. j.pc \notin Apart /\ UNCHANGED row
    BY <1>3, <1>13 DEF StartInstance, Apart
  <2>2. Reached(i)
    BY <1>1, <1>3, <2>1 DEF At
  <2>3. CASE Live(k) /\ cont' = [cont EXCEPT ![k].on = TRUE] /\ Goto(p, "started")
    <3>1. job'[p] = [j EXCEPT !.pc = "started"]
      BY <1>1, <1>3, <2>3, GotoTyped DEF Labels
    <3>2. job'[p].key = k /\ job'[p].owner = row[i].owner /\ job'[p].pc = "started"
      BY <1>1, <3>1 DEF Request
    <3>3. cont'[k].of = i /\ cont'[k].on
      BY <1>1, <2>2, <2>3 DEF Reached, Container, Live
    <3>4. OnlyAt(i, k) /\ \A m \in IncusNames : cont'[m].of = cont[m].of
      BY <1>1, <2>2, <2>3 DEF Reached, Container
    <3>5. OnlyAt(i, row[i].key)'
      BY <1>1, <2>1, <3>4 DEF OnlyAt
    <3>6. QED
      BY <2>1, <3>2, <3>3, <3>5 DEF Fit, At, Apart
  <2>4. CASE UNCHANGED cont /\ (Done(p) \/ AfterRename(p))
    BY <1>4, <1>5, <2>1, <2>4 DEF AfterRename, Labels, Apart
  <2>5. QED
    BY <1>1, <1>3, <1>13, <2>3, <2>4 DEF StartInstance, Fails, Running
<1>14. CASE Started(p)
  <2>1. j.pc = "started" /\ UNCHANGED cont
    BY <1>3, <1>14 DEF Started
  <2>2. row'[i].key = k /\ row'[i].owner = row[i].owner /\ row'[i].status = "running"
    BY <1>1, <1>3, <1>14 DEF Started, Row
  <2>3. Reached(i)'
    BY <1>1, <1>3, <2>1, <2>2 DEF Reached, At, OnlyAt
  <2>4. job'[p] = Idle \/ job'[p] = [j EXCEPT !.pc = "host", !.status = "running"]
    BY <1>1, <1>3, <1>14 DEF Started, Done, Become
  <2>5. job'[p] = Idle \/ (job'[p].key = k /\ job'[p].owner = row[i].owner /\ job'[p].pc = "host")
    BY <1>1, <2>4 DEF Request
  <2>6. QED
    BY <2>2, <2>3, <2>5 DEF Fit, At, Apart, Idle
<1>15. CASE SetHost(p) \/ InstallKeys(p) \/ RevokeKeys(p) \/ ApplyResources(p) \/ AddAuthorizedKey(p)
            \/ UpdateIncusConfig(p)
  <2>1. j.pc \notin Apart /\ UNCHANGED row
    BY <1>3, <1>15 DEF SetHost, InstallKeys, RevokeKeys, ApplyResources, AddAuthorizedKey, UpdateIncusConfig, Apart
  <2>2. Reached(i)
    BY <1>1, <1>3, <2>1 DEF At
  <2>3. (\A m \in IncusNames : cont'[m].of = cont[m].of) /\ cont'[k].on = c.on
    <3>1. \A x : /\ [c EXCEPT !.host = x].of = c.of /\ [c EXCEPT !.host = x].on = c.on
                 /\ [c EXCEPT !.keys = x].of = c.of /\ [c EXCEPT !.keys = x].on = c.on
                 /\ [c EXCEPT !.limit = x].of = c.of /\ [c EXCEPT !.limit = x].on = c.on
      BY <1>1 DEF Container
    <3>2. CASE SetHost(p)
      <4>1. UNCHANGED cont \/ \E l : cont' = [cont EXCEPT ![k] = [c EXCEPT !.host = l]]
        BY <1>1, <1>3, <3>2 DEF SetHost, SetConfig, Fails
      <4>2. CASE UNCHANGED cont
        BY <4>2
      <4>3. CASE \E l : cont' = [cont EXCEPT ![k] = [c EXCEPT !.host = l]]
        BY <1>1, <1>a, <3>1, <4>3
      <4>4. QED
        BY <4>1, <4>2, <4>3
    <3>3. CASE InstallKeys(p)
      <4>1. UNCHANGED cont \/ \E K : cont' = [cont EXCEPT ![k] = [c EXCEPT !.keys = K]]
        BY <1>1, <1>3, <3>3 DEF InstallKeys
      <4>2. CASE UNCHANGED cont
        BY <4>2
      <4>3. CASE \E K : cont' = [cont EXCEPT ![k] = [c EXCEPT !.keys = K]]
        BY <1>1, <1>a, <3>1, <4>3
      <4>4. QED
        BY <4>1, <4>2, <4>3
    <3>4. CASE RevokeKeys(p) \/ AddAuthorizedKey(p)
      <4>1. UNCHANGED cont \/ \E K : cont' = [cont EXCEPT ![k] = [c EXCEPT !.keys = K]]
        BY <1>1, <1>3, <3>4 DEF RevokeKeys, AddAuthorizedKey, Fails
      <4>2. CASE UNCHANGED cont
        BY <4>2
      <4>3. CASE \E K : cont' = [cont EXCEPT ![k] = [c EXCEPT !.keys = K]]
        BY <1>1, <1>a, <3>1, <4>3
      <4>4. QED
        BY <4>1, <4>2, <4>3
    <3>5. CASE ApplyResources(p) \/ UpdateIncusConfig(p)
      <4>1. UNCHANGED cont \/ \E l : cont' = [cont EXCEPT ![k] = [c EXCEPT !.limit = l]]
        BY <1>1, <1>3, <3>5 DEF ApplyResources, UpdateIncusConfig, SetConfig, Fails
      <4>2. CASE UNCHANGED cont
        BY <4>2
      <4>3. CASE \E l : cont' = [cont EXCEPT ![k] = [c EXCEPT !.limit = l]]
        BY <1>1, <1>a, <3>1, <4>3
      <4>4. QED
        BY <4>1, <4>2, <4>3
    <3>6. QED
      BY <1>15, <3>2, <3>3, <3>4, <3>5
  <2>4. Done(p) \/ Goto(p, "install") \/ Goto(p, "revoke") \/ Goto(p, "store")
    BY <1>15 DEF SetHost, AfterHost, InstallKeys, RevokeKeys, ApplyResources, AddAuthorizedKey, UpdateIncusConfig
  <2>5. \/ job'[p] = Idle
        \/ \E l \in {"install", "revoke", "store"} : job'[p] = [j EXCEPT !.pc = l]
    BY <1>1, <1>3, <2>4 DEF Done, Goto, Become
  <2>6. \/ job'[p] = Idle
        \/ job'[p].key = k /\ job'[p].owner = row[i].owner /\ job'[p].pc \in {"install", "revoke", "store"}
    BY <1>1, <2>5 DEF Request
  <2>7. QED
    BY <2>1, <2>2, <2>3, <2>6, FitCalmly DEF Apart
<1>16. CASE StoreResources(p)
  <2>1. j.pc \notin Apart /\ UNCHANGED cont /\ Done(p)
    BY <1>3, <1>16 DEF StoreResources, Apart
  <2>2. Reached(i) /\ job'[p] = Idle
    BY <1>1, <1>3, <2>1, DoneTyped DEF At
  <2>3. row'[i].key = k /\ row'[i].status = row[i].status
    BY <1>1, <1>3, <1>16 DEF StoreResources, Row
  <2>4. QED
    BY <2>1, <2>2, <2>3, FitCalmly
<1>17. CASE RestoreSnapshot(p)
  BY <1>3, <1>5, <1>17 DEF RestoreSnapshot, Apart
<1>18. QED
  BY <1>7, <1>8, <1>9, <1>10, <1>11, <1>12, <1>13, <1>14, <1>15, <1>16, <1>17 DEF Step

LEMMA BeginKeepsRows ==
    ASSUME TypeOK, NEW p \in Jobs, Begin(p)
    PROVE  /\ cont' = cont /\ torn' = torn /\ raced' = raced /\ making' = making /\ clashed' = clashed
           /\ \A i \in Insts : /\ row'[i].key = row[i].key /\ row'[i].owner = row[i].owner
                               /\ row'[i].name = row[i].name /\ row'[i].status = row[i].status
<1>1. row \in [Insts -> Row]
  BY DEF TypeOK
<1>2. /\ cont' = cont /\ torn' = torn /\ raced' = raced /\ making' = making /\ clashed' = clashed
      /\ row' = row \/ \E l : \E i \in Insts : row' = [row EXCEPT ![i].limit = l]
  BY DEF Begin, BeginRename, BeginTransfer, BeginResources, BeginConfig, BeginPower, BeginKey, BeginRestore, rest
<1>3. QED
  BY <1>1, <1>2 DEF Row

\* The request that begins: alone on its instance, or the two overlap.
BegunOn(p, i) ==
    /\ p \notin Busy /\ Exists(i)
    /\ \E j : /\ Become(p, j) /\ j.id = i /\ j.key = row[i].key /\ j.owner = row[i].owner
              /\ j.pc \in {"name", "owner", "apply", "raw", "restart", "stop", "add", "restore"}
              /\ j.pc = "restore" => row[i].status # "running"
              /\ j.pc = "name" => ~Taken(j.owner, j.host, i)
              /\ j.pc = "owner" => \A l \in Of(j.user) : row[l].name # j.host
    /\ Overlap(i) /\ \A h \in Insts \ {i} : row'[h] = row[h]
LEMMA Begun == ASSUME TypeOK, NEW p \in Jobs, Begin(p) PROVE \E i \in Insts : BegunOn(p, i)
<1>1. PICK i \in Insts :
      \/ \E n \in Names, c \in BOOLEAN : BeginRename(p, i, n, c)
      \/ \E u \in Users, c, keep \in BOOLEAN : BeginTransfer(p, i, u, c, keep)
      \/ \E l \in Limits \cup {Unset} : BeginResources(p, i, l) \/ BeginConfig(p, i, l)
      \/ \E o \in {"start", "stop"} : BeginPower(p, i, o)
      \/ \E u \in Users, k \in Keys : BeginKey(p, i, u, k)
      \/ BeginRestore(p, i)
  BY DEF Begin
<1>2. p \notin Busy /\ Overlap(i) /\ Exists(i) /\ \A h \in Insts \ {i} : row'[h] = row[h]
  <2>1. p \notin Busy /\ Overlap(i) /\ Exists(i)
    BY <1>1 DEF BeginRename, BeginTransfer, BeginResources, BeginConfig, BeginPower, BeginKey, BeginRestore, Free, Exists
  <2>2. row' = row \/ \E l : row' = [row EXCEPT ![i].limit = l]
    BY <1>1 DEF BeginRename, BeginTransfer, BeginResources, BeginConfig, BeginPower, BeginKey, BeginRestore
  <2>3. QED
    BY <2>1, <2>2 DEF TypeOK
<1>3. ASSUME NEW n \in Names, NEW c \in BOOLEAN, BeginRename(p, i, n, c) PROVE BegunOn(p, i)
  <2> DEFINE j == [Read(i, "rename", "name") EXCEPT !.host = n, !.container = c]
  <2>1. /\ j.id = i /\ j.key = row[i].key /\ j.owner = row[i].owner /\ j.pc = "name" /\ j.host = n
    BY DEF Read
  <2>2. Become(p, j) /\ ~Taken(row[i].owner, n, i)
    BY <1>3 DEF BeginRename
  <2> HIDE DEF j
  <2>3. QED
    BY <1>2, <2>1, <2>2 DEF BegunOn
<1>4. ASSUME NEW u \in Users, NEW c \in BOOLEAN, NEW keep \in BOOLEAN, BeginTransfer(p, i, u, c, keep)
      PROVE  BegunOn(p, i)
  <2>1. PICK m \in Names :
          /\ FreeName(u, row[i].name, m)
          /\ Become(p, [Read(i, "transfer", "owner") EXCEPT !.host = m, !.user = u, !.container = c,
                         !.keys = IF keep THEN {} ELSE KeysToRevoke(row[i].owner, u)])
    BY <1>4 DEF BeginTransfer
  <2> DEFINE j == [Read(i, "transfer", "owner") EXCEPT !.host = m, !.user = u, !.container = c,
                         !.keys = IF keep THEN {} ELSE KeysToRevoke(row[i].owner, u)]
  <2>2. /\ j.id = i /\ j.key = row[i].key /\ j.owner = row[i].owner /\ j.pc = "owner" /\ j.host = m /\ j.user = u
    BY DEF Read
  <2>3. Become(p, j) /\ \A l \in Of(u) : row[l].name # m
    BY <2>1 DEF FreeName
  <2> HIDE DEF j
  <2>4. QED
    BY <1>2, <2>2, <2>3 DEF BegunOn
<1>5. ASSUME NEW l \in Limits \cup {Unset}, BeginResources(p, i, l) \/ BeginConfig(p, i, l) PROVE BegunOn(p, i)
  <2> DEFINE g(o, m) == [Read(i, o, m) EXCEPT !.limit = l]
  <2>1. \A o, m : g(o, m).id = i /\ g(o, m).key = row[i].key /\ g(o, m).owner = row[i].owner /\ g(o, m).pc = m
    BY DEF Read
  <2>2. Become(p, g("resources", "apply")) \/ Become(p, g("config", "raw"))
    BY <1>5 DEF BeginResources, BeginConfig
  <2> HIDE DEF g
  <2>3. QED
    BY <1>2, <2>1, <2>2 DEF BegunOn
<1>6. ASSUME NEW u \in Users, NEW k \in Keys, BeginKey(p, i, u, k) PROVE BegunOn(p, i)
  <2> DEFINE j == [Read(i, "key", "add") EXCEPT !.keys = {k}]
  <2>1. j.id = i /\ j.key = row[i].key /\ j.owner = row[i].owner /\ j.pc = "add"
    BY DEF Read
  <2>2. Become(p, j)
    BY <1>6 DEF BeginKey
  <2> HIDE DEF j
  <2>3. QED
    BY <1>2, <2>1, <2>2 DEF BegunOn
<1>7. ASSUME NEW o \in {"start", "stop"}, BeginPower(p, i, o) PROVE BegunOn(p, i)
  <2>1. \A m : Read(i, o, m).id = i /\ Read(i, o, m).key = row[i].key /\ Read(i, o, m).owner = row[i].owner
               /\ Read(i, o, m).pc = m
    BY DEF Read
  <2>2. Become(p, Read(i, o, "restart")) \/ Become(p, Read(i, o, "stop"))
    BY <1>7 DEF BeginPower
  <2>3. QED
    BY <1>2, <2>1, <2>2 DEF BegunOn
<1>8. CASE BeginRestore(p, i)
  <2> DEFINE j == Read(i, "restore", "restore")
  <2>1. j.id = i /\ j.key = row[i].key /\ j.owner = row[i].owner /\ j.pc = "restore"
    BY DEF Read
  <2>2. Become(p, j) /\ row[i].status # "running"
    BY <1>8 DEF BeginRestore
  <2> HIDE DEF j
  <2>3. QED
    BY <1>2, <2>1, <2>2 DEF BegunOn
<1>9. QED
  BY <1>1, <1>3, <1>4, <1>5, <1>6, <1>7, <1>8

LEMMA BegunSettled ==
    ASSUME TypeOK, NEW p \in Jobs, Begin(p), NEW i \in Insts \ loose', Settled(i)
    PROVE  Settled(i)'
<1>1. PICK h \in Insts : BegunOn(p, h)
  BY Begun
<1>2. PICK j : /\ Become(p, j) /\ j.id = h /\ j.key = row[h].key /\ j.owner = row[h].owner
               /\ j.pc \in {"name", "owner", "apply", "raw", "restart", "stop", "add", "restore"}
               /\ j.pc = "restore" => row[h].status # "running"
  BY <1>1 DEF BegunOn
<1>3. /\ job \in [Jobs -> Request \cup {Idle}] /\ job' = [job EXCEPT ![p] = j] /\ job[p].pc = "idle"
  BY <1>1, <1>2 DEF TypeOK, Become, BegunOn, Busy
<1>4. /\ Reached(i) => Reached(i)'
      /\ making' = making /\ cont' = cont /\ row'[i].key = row[i].key
  BY BeginKeepsRows DEF Reached, OnlyAt
<1>5. CASE h = i
  <2>1. OnInst(i) = {} /\ i \notin loose /\ ~Making(i)
    BY <1>1, <1>5 DEF BegunOn, Overlap
  <2>2. Reached(i)'
    BY <1>4, <2>1 DEF Settled
  <2>3. job'[p] = j /\ \A q \in OnInst(i)' : q = p
    BY <1>3, <2>1 DEF OnInst, Busy
  <2>4. p \in OnInst(i)'
    BY <1>2, <1>5, <2>3 DEF OnInst, Busy
  <2>5. At(p, i)'
    BY <1>2, <1>5, <2>2, <2>3, BeginKeepsRows DEF At, Apart
  <2>6. QED
    BY <1>4, <2>1, <2>3, <2>4, <2>5 DEF Settled, Making
<1>6. CASE h # i
  <2>1. OnInst(i)' = OnInst(i) /\ \A q \in OnInst(i) : q # p /\ job'[q] = job[q]
    BY <1>2, <1>3, <1>6 DEF OnInst, Busy
  <2>2. ASSUME NEW q \in OnInst(i), At(q, i) PROVE At(q, i)'
    BY <1>4, <2>1, <2>2, BeginKeepsRows DEF At, Apart, NewKey, OnlyAt
  <2>3. Coming(i) => Coming(i)'
    <3>1. row'[i] = row[i]
      BY <1>1, <1>6 DEF BegunOn
    <3>2. QED
      BY <1>4, <2>1, <3>1 DEF Coming
  <2>4. QED
    BY <1>4, <2>1, <2>2, <2>3 DEF Settled, Making
<1>7. QED
  BY <1>5, <1>6

LEMMA SettledInit == Init => AllSettled
<1> SUFFICES ASSUME Init, NEW i \in Insts, Exists(i) PROVE Settled(i)
  BY DEF AllSettled
<1>1. OnInst(i) = {} /\ ~Making(i)
  BY DEF Init, OnInst, Busy, Idle, Making
<1>2. i \in DOMAIN Given
  BY NoRowTyped DEF Init, Exists
<1>3. Given[i] \in IncusNames /\ \A j \in DOMAIN Given : Given[j] = Given[i] => j = i
  BY <1>2, GivenAssumption DEF IncusNames, Names
<1>4. row[i].key = Given[i] /\ row[i].status = "running"
  BY <1>2 DEF Init
<1>5. (CHOOSE j \in DOMAIN Given : Given[j] = Given[i]) = i
  BY <1>2, <1>3
<1>6. cont[Given[i]].of = i /\ cont[Given[i]].on
  BY <1>2, <1>3, <1>5 DEF Init
<1>7. ASSUME NEW m \in IncusNames, cont[m].of = i PROVE m = Given[i]
  <2>1. \E j \in DOMAIN Given : Given[j] = m
    BY <1>7, Bounds DEF Init, Absent
  <2>2. cont[m].of = CHOOSE j \in DOMAIN Given : Given[j] = m
    BY <2>1 DEF Init
  <2>3. QED
    BY <1>7, <2>1, <2>2
<1>8. QED
  BY <1>1, <1>4, <1>6, <1>7 DEF Settled, Reached, OnlyAt

\* A new row: nothing of it is in Incus, nor under its name, or else it counts
\* as loose.
LEMMA CreateSettled ==
    ASSUME TypeOK, AllSettled, NEW i \in Insts, NEW u \in Users, NEW n \in Names,
           NEW l \in Limits \cup {Unset}, CreateAsync(i, u, n, l)
    PROVE  AllSettled'
<1>1. /\ row'[i].name = n /\ row'[i].key = <<u, n>> /\ row'[i].status = "creating" /\ row'[i].limit = l
      /\ ~Exists(i) /\ \A h \in Insts \ {i} : row'[h] = row[h]
      /\ <<u, n>> \in IncusNames
  BY CreateRow
<1>2. /\ cont' = cont /\ job' = job
      /\ loose' = IF Live(<<u, n>>) THEN loose \cup {i} ELSE loose
      /\ making' = [making EXCEPT ![i] = [key |-> <<u, n>>, host |-> n, limit |-> l, keys |-> own[u]]]
  BY DEF CreateAsync
<1>3. making \in [Insts -> Creation \cup {NoCreation}] /\ Linked
  BY TypeParts DEF MakingTyped
<1> SUFFICES ASSUME NEW h \in Insts \ loose', Exists(h)' PROVE Settled(h)'
  BY DEF AllSettled
<1>4. OnInst(h)' = OnInst(h) /\ h \notin loose
  BY <1>2 DEF OnInst, Busy
<1>5. CASE h = i
  <2>1. OnInst(i) = {}
    BY <1>1, <1>3 DEF OnInst, Linked
  <2>2. /\ making'[i].key = <<u, n>> /\ making'[i].host = n /\ making'[i].limit = l
    BY <1>2, <1>3
  <2>3. \A m \in IncusNames : cont[m].of # i
    BY <1>1, <1>3, Bounds DEF Linked, Live
  <2>4. cont[<<u, n>>].of = None
    BY <1>2, <1>5 DEF Live
  <2>5. Coming(i)'
    BY <1>1, <1>2, <1>4, <1>5, <2>1, <2>2, <2>3, <2>4 DEF Coming
  <2>6. Making(i)'
    <3> DEFINE c == [key |-> <<u, n>>, host |-> n, limit |-> l, keys |-> own[u]]
    <3>1. "host" \in DOMAIN c /\ "host" \notin DOMAIN NoCreation
      BY DEF NoCreation
    <3>2. making'[i] = c
      BY <1>2, <1>3
    <3> HIDE DEF c
    <3>3. QED
      BY <3>1, <3>2 DEF Making
  <2>7. QED
    BY <1>4, <1>5, <2>1, <2>5, <2>6 DEF Settled
<1>6. CASE h # i
  <2>1. row'[h] = row[h] /\ making'[h] = making[h] /\ Exists(h)
    BY <1>1, <1>2, <1>3, <1>6 DEF Exists
  <2>2. Settled(h)
    BY <1>4, <2>1 DEF AllSettled
  <2>3. QED
    BY <1>2, <1>4, <2>1, <2>2 DEF Settled, At, Apart, Reached, OnlyAt, Coming, Making, NewKey
<1>7. QED
  BY <1>5, <1>6

\* The end of a creation is seen by no other instance, unless that one's row
\* has the name of the new container.
LEMMA FinishSettled ==
    ASSUME TypeOK, AllSettled, NEW i \in Insts, FinishCreate(i) PROVE AllSettled'
<1> DEFINE c == making[i]
<1>1. Finished(i)
  BY FinishFacts
<1>2. c.key \in IncusNames /\ making \in [Insts -> Creation \cup {NoCreation}]
  BY <1>1 DEF Finished, Creation, TypeOK
<1>3. loose \subseteq loose' /\ Making(i) /\ Exists(i)
  BY <1>1 DEF Finished
<1> SUFFICES ASSUME NEW h \in Insts \ loose', Exists(h)' PROVE Settled(h)'
  BY DEF AllSettled
<1>4. OnInst(h)' = OnInst(h) /\ h \notin loose /\ h # None
  BY <1>1, <1>3, Bounds DEF Finished, OnInst, Busy
<1>5. CASE h = i
  <2>1. Coming(i)
    BY <1>3, <1>4, <1>5 DEF AllSettled, Settled
  <2>2. ~Making(i)' /\ OnInst(i)' = {}
    BY <1>1, <1>2, <1>4, <1>5, <2>1 DEF Finished, Making, Coming
  <2>3. Reached(i)'
    <3>1. row'[i].key = c.key /\ c.key = row[i].key
      BY <1>1, <2>1 DEF Finished, Coming
    <3>2. CASE /\ \A k \in IncusNames \ {c.key} : cont'[k] = cont[k]
               /\ cont'[c.key].of = i
               /\ IF cont'[c.key].on THEN row'[i].status = "running" ELSE row'[i].status = "error"
      BY <1>2, <2>1, <3>1, <3>2 DEF Coming, Reached, OnlyAt
    <3>3. CASE row'[i].status = "error" /\ cont' = cont
      BY <1>2, <1>4, <1>5, <2>1, <3>1, <3>3 DEF Coming, Reached, OnlyAt
    <3>4. QED
      BY <1>1, <3>2, <3>3 DEF Finished
  <2>4. QED
    BY <1>5, <2>2, <2>3 DEF Settled
<1>6. CASE h # i
  <2>1. row'[h] = row[h] /\ making'[h] = making[h] /\ Exists(h) /\ job' = job
    BY <1>1, <1>2, <1>6 DEF Finished, Exists
  <2>2. Settled(h) /\ row[h].key \in IncusNames
    BY <1>4, <2>1 DEF AllSettled, TypeOK, Row
  <2>3. \/ cont' = cont
        \/ /\ ~Live(c.key) /\ cont'[c.key].of = i /\ row[h].key # c.key
           /\ \A k \in IncusNames \ {c.key} : cont'[k] = cont[k]
    BY <1>1, <1>6, <2>1 DEF Finished, Shadowed
  <2>4. /\ \A k \in IncusNames : cont[k].of = h => cont'[k] = cont[k]
        /\ \A k \in IncusNames : cont'[k].of = h => cont[k].of = h
        /\ cont'[row[h].key] = cont[row[h].key]
    BY <1>4, <1>6, <2>2, <2>3 DEF Live
  <2>5. Reached(h) => Reached(h)'
    BY <2>1, <2>2, <2>4 DEF Reached, OnlyAt
  <2>6. ASSUME NEW q \in OnInst(h), At(q, h) PROVE At(q, h)'
    <3>1. job[q] \in Request
      BY BusyJob DEF OnInst, Busy
    <3>2. NewKey(job[q]) \in IncusNames /\ NewKey(job[q])' = NewKey(job[q])
      BY <2>1, <3>1, RequestFields DEF NewKey
    <3>3. /\ OnlyAt(h, row[h].key) => OnlyAt(h, row[h].key)'
          /\ OnlyAt(h, NewKey(job[q])) => OnlyAt(h, NewKey(job[q]))'
      BY <2>1, <2>4, <3>2 DEF OnlyAt
    <3>4. QED
      BY <2>1, <2>2, <2>4, <2>5, <2>6, <3>1, <3>2, <3>3 DEF At, Apart
  <2>7. Coming(h) => Coming(h)'
    BY <1>4, <2>1, <2>2, <2>4 DEF Coming
  <2>8. QED
    BY <1>4, <2>1, <2>2, <2>5, <2>6, <2>7 DEF Settled, Making
<1>7. QED
  BY <1>5, <1>6

LEMMA SettledNext == ASSUME TypeOK, AllSettled, [Next]_vars PROVE AllSettled'
<1>1. ASSUME NEW p \in Jobs, Begin(p) PROVE AllSettled'
  <2>1. loose \subseteq loose'
    BY <1>1, Begun DEF BegunOn, Overlap
  <2>2. \A i \in Insts : Exists(i)' => Exists(i)
    BY <1>1, BeginKeepsRows DEF Exists
  <2>3. QED
    BY <1>1, <2>1, <2>2, BegunSettled DEF AllSettled
<1>2. ASSUME NEW p \in Jobs, Step(p) PROVE AllSettled'
  <2>1. \A i \in Insts : Exists(i)' => Exists(i)
    BY <1>2, StepExists
  <2>2. QED
    BY <1>2, <2>1, LooseGrows, Here, Elsewhere DEF AllSettled
<1>3. ASSUME UNCHANGED <<row, cont, job, making, loose>> PROVE AllSettled'
  BY <1>3 DEF AllSettled, Settled, At, Apart, Reached, OnlyAt, Coming, Making, Exists, OnInst, Busy, NewKey
<1>4. CASE Crash
  <2> SUFFICES ASSUME NEW i \in Insts \ loose', Exists(i)' PROVE Settled(i)'
    BY DEF AllSettled
  <2>1. i \notin loose /\ Exists(i) /\ \A p \in OnInst(i) : job[p].pc \notin Apart
    BY <1>4 DEF Crash, OnInst, Apart, Exists
  <2>2. Settled(i) /\ i # None
    BY <2>1, Bounds DEF AllSettled
  <2>3. Reached(i)
    <3>1. CASE Making(i)
      BY <2>2, <3>1 DEF Settled, Coming, Reached, OnlyAt
    <3>2. CASE ~Making(i)
      BY <2>1, <2>2, <3>2 DEF Settled, At
    <3>3. QED
      BY <3>1, <3>2
  <2>4. OnInst(i)' = {} /\ Reached(i)' /\ ~Making(i)'
    BY <1>4, <2>3 DEF Crash, OnInst, Busy, Idle, Reached, OnlyAt, Making
  <2>5. QED
    BY <2>4 DEF Settled
<1>5. CASE \E u \in Users, k \in Keys : CreateSSHKey(u, k) \/ DeleteSSHKey(u, k)
  BY <1>3, <1>5 DEF CreateSSHKey, DeleteSSHKey, history
<1>6. CASE UNCHANGED vars
  BY <1>3, <1>6 DEF vars, history
<1>7. CASE \E i \in Insts : \E u \in Users, n \in Names, l \in Limits \cup {Unset} : CreateAsync(i, u, n, l)
  BY <1>7, CreateSettled
<1>8. CASE \E i \in Insts : FinishCreate(i)
  BY <1>8, FinishSettled
<1>9. QED
  BY <1>1, <1>2, <1>4, <1>5, <1>6, <1>7, <1>8 DEF Next, Quiet

LEMMA SettledAlways == Spec => [](TypeOK /\ AllSettled)
<1>1. QED
  BY TypeInit, TypeNext, SettledInit, SettledNext, PTL DEF Spec

\* At rest, the name that a row records is that of the instance's own
\* container, and its status that container's, unless requests have
\* overlapped on the instance.
THEOREM RowsReach == Spec => []RowsReachContainers
<1>1. TypeOK /\ AllSettled => RowsReachContainers
  <2> SUFFICES ASSUME TypeOK, AllSettled, NEW i \in Insts \ loose, AtRest(i)
               PROVE  /\ \A k \in IncusNames : cont[k].of = i => k = row[i].key
                      /\ \/ cont[row[i].key].of = i
                         \/ row[i].status \in {"creating", "error"} /\ ~Live(row[i].key)
                      /\ Running(row[i].key) <=> row[i].status = "running"
    BY DEF RowsReachContainers
  <2>1. Reached(i) /\ row[i].status \in Statuses /\ row[i].status # "none" /\ i # None
    BY Bounds DEF AllSettled, Settled, AtRest, TypeOK, Row, Exists
  <2>2. QED
    BY <2>1 DEF Reached, OnlyAt, Statuses, Live, Running
<1>2. QED
  BY <1>1, SettledAlways, PTL

-----------------------------------------------------------------------------
(* A volume is not restored under a running container.                     *)

LEMMA RestoredNext ==
    ASSUME TypeOK, AllSettled, RestoredAtRest, [Next]_vars PROVE RestoredAtRest'
<1>1. ASSUME NEW p \in Jobs, Step(p) PROVE RestoredAtRest'
  <2>1. CASE RestoreSnapshot(p)
    <3> DEFINE i == job[p].id
    <3>1. i \in Insts /\ loose' = loose /\ job[p].pc = "restore"
      BY <1>1, <2>1, StepRequest, RequestFields DEF RestoreSnapshot
    <3>2. CASE i \in loose
      BY <2>1, <3>1, <3>2 DEF RestoreSnapshot, RestoredAtRest
    <3>3. CASE i \notin loose
      <4>1. Reached(i) /\ row[i].status # "running" /\ row[i].key \in IncusNames
        <5>1. p \in OnInst(i) /\ Exists(i)
          BY <3>1, TypeParts DEF OnInst, Busy, Linked
        <5>2. QED
          BY <3>1, <3>3, <5>1 DEF AllSettled, Settled, At, Apart, TypeOK, Row
      <4>2. ASSUME NEW k \in IncusNames, cont[k].of = i PROVE ~cont[k].on
        BY <4>1, <4>2 DEF Reached, OnlyAt
      <4>3. torn' = torn
        BY <2>1, <4>2 DEF RestoreSnapshot
      <4>4. QED
        BY <3>1, <4>3 DEF RestoredAtRest
    <3>4. QED
      BY <3>2, <3>3
  <2>2. CASE ~RestoreSnapshot(p)
    <3>1. torn' = torn
      BY <1>1, <2>2 DEF Step, WriteName, WriteOwner, CheckKey, StopInstance, Stopped, MoveContainer, RecordKey,
           StartInstance, Started, SetHost, InstallKeys, RevokeKeys, ApplyResources,
           UpdateIncusConfig, StoreResources, AddAuthorizedKey, history
    <3>2. QED
      BY <1>1, <3>1, LooseGrows DEF RestoredAtRest
  <2>3. QED
    BY <2>1, <2>2
<1>2. ASSUME NEW p \in Jobs, Begin(p) PROVE RestoredAtRest'
  BY <1>2, BeginKeepsRows, Begun DEF BegunOn, Overlap, RestoredAtRest
<1>3. CASE Crash \/ UNCHANGED vars \/ \E u \in Users, k \in Keys : CreateSSHKey(u, k) \/ DeleteSSHKey(u, k)
  BY <1>3 DEF Crash, vars, CreateSSHKey, DeleteSSHKey, history, RestoredAtRest
<1>4. CASE \E i \in Insts : \E u \in Users, n \in Names, l \in Limits \cup {Unset} : CreateAsync(i, u, n, l)
  BY <1>4 DEF CreateAsync, RestoredAtRest
<1>5. CASE \E i \in Insts : FinishCreate(i)
  BY <1>5, FinishFacts DEF Finished, RestoredAtRest
<1>6. QED
  BY <1>1, <1>2, <1>3, <1>4, <1>5 DEF Next, Quiet

\* A volume is never restored under a running container, unless a request on
\* the instance overlapped the restore or was cut short before it.
THEOREM RestoresAreSafe == Spec => []RestoredAtRest
<1>1. Init => RestoredAtRest
  BY DEF Init, RestoredAtRest
<1>2. QED
  BY <1>1, TypeInit, TypeNext, SettledInit, SettledNext, RestoredNext, PTL DEF Spec

-----------------------------------------------------------------------------
(* Host names.                                                             *)

\* The name that a request is about to write is still free, in an account in
\* which no other has been chosen meanwhile.
ChosenFree ==
    \A p \in Jobs, u \in Users \ raced : Naming(p, u) =>
        \A i \in Insts \ {job[p].id} : Exists(i) /\ row[i].owner = u => row[i].name # job[p].host
NamesInv == HostNamesDiffer /\ ChosenFree

LEMMA NamesInit == Init => NamesInv
<1>1. ASSUME Init PROVE HostNamesDiffer
  <2>1. \A i \in Insts : Exists(i) =>
          i \in DOMAIN Given /\ row[i].owner = Given[i][1] /\ row[i].name = Given[i][2]
    BY <1>1, NoRowTyped DEF Init, Exists
  <2>2. \A i, j \in DOMAIN Given : Given[i][1] = Given[j][1] /\ Given[i][2] = Given[j][2] => i = j
    BY GivenAssumption
  <2>3. QED
    BY <2>1, <2>2 DEF HostNamesDiffer
<1>2. Init => ChosenFree
  BY DEF Init, ChosenFree, Naming, Idle
<1>3. QED
  BY <1>1, <1>2 DEF NamesInv

\* Neither an owner nor a name is written, and no name is being chosen anew.
LEMMA NamesKept ==
    ASSUME NamesInv, raced' = raced, clashed' = clashed,
           \A i \in Insts : /\ row'[i].owner = row[i].owner /\ row'[i].name = row[i].name
                            /\ Exists(i)' => Exists(i),
           \A q \in Jobs : job'[q] = job[q] \/ job'[q].pc \notin {"name", "owner"}
    PROVE  NamesInv'
<1>1. \A q \in Jobs : \A u : Naming(q, u)' => Naming(q, u) /\ job'[q] = job[q]
  BY DEF Naming
<1>2. QED
  BY <1>1 DEF NamesInv, HostNamesDiffer, ChosenFree

\* One name in u's account is written, the one that p chose.
LEMMA NamesWritten ==
    ASSUME NamesInv, NEW p \in Jobs, NEW u \in Users, Naming(p, u), Named(p, u),
           NEW i \in Insts, i = job[p].id,
           row'[i].owner = u, row'[i].name = job[p].host, clashed' = clashed \ {i},
           \A h \in Insts \ {i} : row'[h] = row[h],
           job'[p].pc \notin {"name", "owner"}, \A q \in Jobs \ {p} : job'[q] = job[q]
    PROVE  NamesInv'
<1>1. raced \subseteq raced' /\ (u \notin raced' => u \notin raced /\ \A q \in Jobs \ {p} : ~Naming(q, u))
  BY DEF Named
<1>2. HostNamesDiffer'
  <2>1. u \notin raced' => \A h \in Insts \ {i} : Exists(h)' /\ row'[h].owner = u => row'[h].name # row'[i].name
    BY <1>1 DEF NamesInv, ChosenFree, Exists
  <2>2. QED
    BY <1>1, <2>1 DEF NamesInv, HostNamesDiffer, Exists
<1>3. ChosenFree'
  <2>1. SUFFICES ASSUME NEW q \in Jobs, NEW v \in Users \ raced', Naming(q, v)',
                        NEW h \in Insts \ {job'[q].id}, Exists(h)', row'[h].owner = v
                 PROVE  row'[h].name # job'[q].host
    BY DEF ChosenFree
  <2>2. q # p /\ job'[q] = job[q] /\ Naming(q, v)
    BY <2>1 DEF Naming
  <2>3. v # u
    BY <1>1, <2>1, <2>2
  <2>4. h # i /\ row'[h] = row[h]
    BY <2>1, <2>3
  <2>5. QED
    BY <1>1, <2>1, <2>2, <2>4 DEF NamesInv, ChosenFree, Exists
<1>4. QED
  BY <1>2, <1>3 DEF NamesInv

LEMMA NamesNext == ASSUME TypeOK, NamesInv, [Next]_vars PROVE NamesInv'
<1>1. ASSUME NEW p \in Jobs, Step(p) PROVE NamesInv'
  <2> DEFINE i == job[p].id
  <2>1. /\ i \in Insts /\ job[p] \in Request /\ job[p].owner \in Users /\ job[p].user \in Users
        /\ row \in [Insts -> Row] /\ row[i] \in Row
    BY <1>1, StepRequest, RequestFields DEF TypeOK
  <2>2. job'[p].pc \notin {"name", "owner"} /\ \A q \in Jobs \ {p} : job'[q] = job[q]
    BY <1>1, StepJobs DEF Idle
  <2>3. \A h \in Insts \ {i} : row'[h] = row[h]
    BY <1>1, OwnRow
  <2> HIDE DEF i
  <2>4. i = job[p].id
    BY DEF i
  <2>5. CASE WriteName(p)
    <3>1. Naming(p, job[p].owner) /\ Named(p, job[p].owner)
      BY <2>5 DEF WriteName, Naming
    <3>2. CASE row[i].owner = job[p].owner
      <4>1. row'[i].owner = job[p].owner /\ row'[i].name = job[p].host /\ clashed' = clashed \ {i}
        BY <2>1, <2>4, <2>5, <3>2 DEF WriteName, Row
      <4>2. QED
        BY <2>1, <2>2, <2>3, <2>4, <3>1, <4>1, NamesWritten
    <3>3. CASE row[i].owner # job[p].owner
      <4>1. row' = row /\ raced \subseteq raced' /\ clashed' = clashed
        BY <2>4, <2>5, <3>1, <3>3 DEF WriteName, Named
      <4>2. \A q \in Jobs : \A u : Naming(q, u)' => Naming(q, u) /\ job'[q] = job[q]
        BY <2>2 DEF Naming
      <4>3. QED
        BY <4>1, <4>2 DEF NamesInv, HostNamesDiffer, ChosenFree, Exists
    <3>4. QED
      BY <3>2, <3>3
  <2>6. CASE WriteOwner(p)
    <3>1. Naming(p, job[p].user) /\ Named(p, job[p].user)
      BY <2>6 DEF WriteOwner, Naming
    <3>2. row'[i].owner = job[p].user /\ row'[i].name = job[p].host /\ clashed' = clashed \ {i}
      BY <2>1, <2>4, <2>6 DEF WriteOwner, Row
    <3>3. QED
      BY <2>1, <2>2, <2>3, <2>4, <3>1, <3>2, NamesWritten
  <2>7. CASE ~WriteName(p) /\ ~WriteOwner(p)
    <3>1. raced' = raced /\ clashed' = clashed
      BY <1>1, <2>7 DEF Step, CheckKey, StopInstance, Stopped, MoveContainer, RecordKey,
           StartInstance, Started, SetHost, InstallKeys, RevokeKeys, ApplyResources,
           UpdateIncusConfig, StoreResources, AddAuthorizedKey, RestoreSnapshot, history, rest
    <3>2. row'[i].owner = row[i].owner /\ row'[i].name = row[i].name
      <4>1. \/ row' = row \/ \E l : row' = [row EXCEPT ![i].limit = l]
            \/ \E t : row' = [row EXCEPT ![i].status = t] \/ \E k : row' = [row EXCEPT ![i].key = k]
        <5>1. CASE Stopped(p) \/ Started(p) \/ StoreResources(p)
          BY <2>4, <5>1 DEF Stopped, Started, StoreResources
        <5>2. CASE RecordKey(p)
          BY <2>4, <5>2 DEF RecordKey
        <5>3. CASE ~(Stopped(p) \/ Started(p) \/ StoreResources(p) \/ RecordKey(p))
          BY <1>1, <2>7, <5>3 DEF Step, CheckKey, StopInstance, MoveContainer, StartInstance, SetHost,
               InstallKeys, RevokeKeys, ApplyResources, UpdateIncusConfig, AddAuthorizedKey, RestoreSnapshot
        <5>4. QED
          BY <5>1, <5>2, <5>3
      <4>2. QED
        BY <2>1, <4>1 DEF Row
    <3>3. QED
      BY <1>1, <2>2, <2>3, <3>1, <3>2, StepExists, NamesKept
  <2>8. QED
    BY <2>5, <2>6, <2>7
<1>2. ASSUME NEW p \in Jobs, Begin(p) PROVE NamesInv'
  <2>1. PICK i \in Insts : BegunOn(p, i)
    BY <1>2, Begun
  <2>2. PICK j : /\ Become(p, j) /\ j.id = i /\ j.owner = row[i].owner
                 /\ j.pc = "name" => ~Taken(j.owner, j.host, i)
                 /\ j.pc = "owner" => \A l \in Of(j.user) : row[l].name # j.host
    BY <2>1 DEF BegunOn
  <2>3. job'[p] = j /\ \A q \in Jobs \ {p} : job'[q] = job[q]
    BY <2>2 DEF TypeOK, Become
  <2>4. HostNamesDiffer'
    BY <1>2, BeginKeepsRows DEF NamesInv, HostNamesDiffer, Exists
  <2>5. ChosenFree'
    <3>1. SUFFICES ASSUME NEW q \in Jobs, NEW v \in Users \ raced, Naming(q, v)',
                          NEW h \in Insts \ {job'[q].id}, Exists(h), row[h].owner = v
                   PROVE  row[h].name # job'[q].host
      BY <1>2, BeginKeepsRows DEF ChosenFree, Exists
    <3>2. CASE q = p
      BY <2>2, <2>3, <3>1, <3>2 DEF Naming, Taken, Of
    <3>3. CASE q # p
      <4>1. job'[q] = job[q] /\ Naming(q, v)
        BY <2>3, <3>1, <3>3 DEF Naming
      <4>2. QED
        BY <3>1, <4>1 DEF NamesInv, ChosenFree
    <3>4. QED
      BY <3>2, <3>3
  <2>6. QED
    BY <2>4, <2>5 DEF NamesInv
<1>3. CASE Crash
  BY <1>3, NamesKept DEF Crash, Idle, Exists
<1>4. CASE UNCHANGED vars \/ \E u \in Users, k \in Keys : CreateSSHKey(u, k) \/ DeleteSSHKey(u, k)
  BY <1>4, NamesKept DEF vars, CreateSSHKey, DeleteSSHKey, history, Exists
<1>5. ASSUME NEW i \in Insts, NEW u \in Users, NEW n \in Names, NEW l \in Limits \cup {Unset},
             CreateAsync(i, u, n, l)
      PROVE  NamesInv'
  <2>1. /\ row'[i].owner = u /\ row'[i].name = n /\ \A h \in Insts \ {i} : row'[h] = row[h]
    BY <1>5, CreateRow DEF Exists
  <2>2. /\ job' = job /\ raced \subseteq raced' /\ clashed \subseteq clashed'
        /\ \A q \in Jobs : Naming(q, u) => u \in raced'
        /\ i \notin clashed' => ~Taken(u, n, i)
    BY <1>5 DEF CreateAsync
  <2>3. HostNamesDiffer'
    <3>1. i \notin clashed' => \A h \in Insts \ {i} : Exists(h)' /\ row'[h].owner = u => row'[h].name # n
      BY <2>1, <2>2 DEF Taken, Of, Exists
    <3>2. QED
      BY <2>1, <2>2, <3>1 DEF NamesInv, HostNamesDiffer, Exists
  <2>4. ChosenFree'
    <3>1. SUFFICES ASSUME NEW q \in Jobs, NEW v \in Users \ raced', Naming(q, v)',
                          NEW h \in Insts \ {job'[q].id}, Exists(h)', row'[h].owner = v
                   PROVE  row'[h].name # job'[q].host
      BY DEF ChosenFree
    <3>2. Naming(q, v) /\ v # u
      BY <2>2, <3>1 DEF Naming
    <3>3. h # i /\ row'[h] = row[h] /\ Exists(h)
      BY <2>1, <3>1, <3>2 DEF Exists
    <3>4. QED
      BY <2>2, <3>1, <3>2, <3>3 DEF NamesInv, ChosenFree
  <2>5. QED
    BY <2>3, <2>4 DEF NamesInv
<1>6. ASSUME NEW i \in Insts, FinishCreate(i) PROVE NamesInv'
  <2>1. Finished(i)
    BY <1>6, FinishFacts
  <2>2. \A h \in Insts : /\ row'[h].owner = row[h].owner /\ row'[h].name = row[h].name
                         /\ Exists(h)' => Exists(h)
    BY <2>1 DEF Finished, Exists
  <2>3. QED
    BY <2>1, <2>2, NamesKept DEF Finished
<1>7. QED
  BY <1>1, <1>2, <1>3, <1>4, <1>5, <1>6 DEF Next, Quiet

\* No rename and no hand-over gives two instances of an account the same host
\* name on the tailnet, unless two names were chosen in it at once.
THEOREM HostNamesAreOwn == Spec => []HostNamesDiffer
<1>1. NamesInv => HostNamesDiffer
  BY DEF NamesInv
<1>2. QED
  BY <1>1, TypeInit, TypeNext, NamesInit, NamesNext, PTL DEF Spec
-----------------------------------------------------------------------------
(* Configuration and keys of the containers.  Where a request has got to   *)
(* tells how far they may be from the row, as it did of the status.        *)

Renaming == {"rename", "stop", "stopped", "move", "record", "restart", "started", "host"}
\* The places that each kind of request passes.
Places(o) ==
    CASE o = "rename" -> {"name"} \cup Renaming
      [] o = "transfer" -> {"owner", "install", "revoke"} \cup Renaming
      [] o = "resources" -> {"apply"}
      [] o = "config" -> {"raw", "store"}
      [] o = "start" -> {"restart", "started"}
      [] o = "stop" -> {"stop", "stopped"}
      [] o = "key" -> {"add"}
      [] o = "restore" -> {"restore"}
OnTrack == \A p \in Busy : job[p].pc \in Places(job[p].op)

\* The container of an instance that a request j works on, or none (Idle).
Body(i, j) == cont[IF j.pc = "record" THEN NewKey(j) ELSE row[i].key]

\* Of a container x, a row r and a request j: the host name is that of the
\* row, or a new one that the row has already is yet to be set.
Between(j) == j.op \in {"rename", "transfer"} /\ j.pc \in Renaming
HostFits(x, r, j) ==
    /\ ~Between(j) => x.host = r.name
    /\ Between(j) => r.name = j.host
    /\ Between(j) /\ j.op = "transfer" /\ j.host = j.name => x.host = r.name
    /\ j.pc = "owner" => j.name = r.name
\* The limit is that of the row, or one of the two is yet to be written.
LimitFits(x, r, j) ==
    /\ j.pc \notin {"apply", "store"} => x.limit = Effective(r.limit)
    /\ j.pc = "apply" => r.limit = j.limit
    /\ j.pc = "store" => x.limit = j.limit /\ j.limit # Unset
ConfigFits(x, r, j) == x.of # None => HostFits(x, r, j) /\ LimitFits(x, r, j)
\* The keys are the owner's, or gone, or, in a transfer, ones that it is to
\* revoke (a request may be about to add a key that is the owner's, or gone).
KeysIn(x, r, j, mine, gone) ==
    /\ j.op = "transfer" => x.keys \subseteq mine[j.user] \cup j.keys \cup gone
    /\ j.op = "transfer" /\ j.pc # "owner" => r.owner = j.user
    /\ j.op # "transfer" \/ j.pc = "owner" => x.keys \subseteq mine[r.owner] \cup gone
    /\ j.pc = "add" => j.keys \subseteq mine[r.owner] \cup gone
KeysFit(x, r, j, mine, gone) == x.of # None => KeysIn(x, r, j, mine, gone)
\* The keys that an instance may have beyond its owner's: deleted ones, and
\* those of other accounts put there.
Gone(i) == dropped \cup {k \in Keys : <<i, k>> \in granted}

ConfigSettled(i) ==
    /\ \A p \in OnInst(i) : ConfigFits(Body(i, job[p]), row[i], job[p])
    /\ OnInst(i) = {} => ConfigFits(Body(i, Idle), row[i], Idle)
KeysSettled(i) ==
    /\ \A p \in OnInst(i) : KeysFit(Body(i, job[p]), row[i], job[p], own, Gone(i))
    /\ OnInst(i) = {} => KeysFit(Body(i, Idle), row[i], Idle, own, Gone(i))
    /\ Making(i) => making[i].keys \subseteq own[row[i].owner] \cup Gone(i)
ConfigInv == \A i \in Insts \ (loose \cup behind) : Exists(i) => ConfigSettled(i)
KeysInv == \A i \in Insts \ (loose \cup kept) : Exists(i) => KeysSettled(i)

\* What a step leaves of a request: nothing, or the same request elsewhere.
Same(j, g) ==
    /\ g \in Request
    /\ g.op = j.op /\ g.host = j.host /\ g.user = j.user /\ g.limit = j.limit /\ g.keys = j.keys

LEMMA SameAt ==
    ASSUME NEW p \in Jobs, NEW j \in Request, NEW l \in Labels, TypeOK, Become(p, [j EXCEPT !.pc = l])
    PROVE  /\ Same(j, job'[p]) /\ job'[p].pc = l
           /\ job'[p].name = j.name /\ job'[p].owner = j.owner /\ job'[p].key = j.key
<1> DEFINE g == [j EXCEPT !.pc = l]
<1>1. g \in Request /\ g.pc = l /\ g.op = j.op /\ g.host = j.host /\ g.user = j.user
  BY DEF Request, Labels
<1>2. g.limit = j.limit /\ g.keys = j.keys /\ g.name = j.name /\ g.owner = j.owner /\ g.key = j.key
  BY DEF Request
<1> HIDE DEF g
<1>3. job'[p] = g
  BY <1>1, BecomeTyped DEF g
<1>4. QED
  BY <1>1, <1>2, <1>3 DEF Same
LEMMA SameGoto ==
    ASSUME NEW p \in Jobs, job[p] \in Request, NEW l \in Labels, TypeOK, Goto(p, l)
    PROVE  /\ Same(job[p], job'[p]) /\ job'[p].pc = l
           /\ job'[p].name = job[p].name /\ job'[p].owner = job[p].owner /\ job'[p].key = job[p].key
BY SameAt DEF Goto
LEMMA SameRestart ==
    ASSUME NEW p \in Jobs, NEW j \in Request, TypeOK, Restart(p, j)
    PROVE  Same(j, job'[p]) /\ job'[p].pc \in {"restart", "host"} /\ job'[p].name = j.name
BY SameAt DEF Restart, Labels

\* The steps of renaming, starting and stopping: they see to the container's
\* name and power only, and stay among themselves.
Calmly(p, i) ==
    /\ row'[i].owner = row[i].owner /\ row'[i].name = row[i].name /\ row'[i].limit = row[i].limit
    /\ Body(i, job[p])'.of = Body(i, job[p]).of
    /\ Body(i, job[p])'.host = Body(i, job[p]).host
    /\ Body(i, job[p])'.limit = Body(i, job[p]).limit
    /\ Body(i, job[p])'.keys = Body(i, job[p]).keys
    /\ job[p].pc \in Renaming
    /\ \/ job'[p] = Idle /\ job[p].op \in {"start", "stop"}
       \/ Same(job[p], job'[p]) /\ job'[p].name = job[p].name /\ job'[p].pc \in Places(job[p].op) \cap Renaming

LEMMA TrackFacts ==
    ASSUME OnTrack, NEW p \in Jobs, job[p] \in Request
    PROVE  /\ job[p].pc \in Places(job[p].op)
           /\ job[p].pc \in {"rename", "move", "record", "host"} => job[p].op \in {"rename", "transfer"}
           /\ job[p].pc \in {"stop", "stopped"} => job[p].op \in {"rename", "transfer", "stop"}
           /\ job[p].pc \in {"restart", "started"} => job[p].op \in {"rename", "transfer", "start"}
           /\ job[p].pc = "name" => job[p].op = "rename"
           /\ job[p].pc \in {"owner", "install", "revoke"} => job[p].op = "transfer"
           /\ job[p].pc \in {"apply", "raw", "store", "add", "restore"} => job[p].op \notin {"rename", "transfer"}
           /\ job[p].op = "rename" => job[p].pc \in {"name"} \cup Renaming
           /\ job[p].op = "transfer" => job[p].pc \in {"owner", "install", "revoke"} \cup Renaming
<1>1. p \in Busy /\ job[p].op \in {"rename", "transfer", "resources", "config", "start", "stop", "key", "restore"}
  BY RequestFields DEF Busy, Request
<1>2. job[p].pc \in Places(job[p].op)
  BY <1>1 DEF OnTrack
<1>3. QED
  BY <1>1, <1>2 DEF Places, Renaming
LEMMA RenamingPlaces ==
    Renaming \subseteq Places("rename") /\ Renaming \subseteq Places("transfer") /\ Renaming \subseteq Labels
BY DEF Places, Renaming, Labels

CalmStep(p) ==
    CheckKey(p) \/ StopInstance(p) \/ Stopped(p) \/ MoveContainer(p) \/ RecordKey(p)
    \/ StartInstance(p) \/ Started(p)

LEMMA CalmSteps ==
    ASSUME TypeOK, OnTrack, NEW p \in Jobs, Step(p), CalmStep(p), NEW i \in Insts \ loose', i = job[p].id,
           Settled(i)
    PROVE  Calmly(p, i)
<1> DEFINE j == job[p]
           k == row[i].key
           l == NewKey(j)
           g == job'[p]
<1>1. /\ j \in Request /\ j.pc # "idle" /\ At(p, i)
      /\ row \in [Insts -> Row] /\ row[i] \in Row /\ cont \in [IncusNames -> Container]
      /\ k \in IncusNames /\ cont[k] \in Container /\ l \in IncusNames /\ j.key = k /\ j.owner = row[i].owner
  BY StepRequest, RequestFields DEF TypeOK, Row, Settled, OnInst, Busy, At
<1>2. j.pc \in Renaming
  BY DEF CalmStep, CheckKey, StopInstance, Stopped, MoveContainer, RecordKey, StartInstance, Started, Renaming
<1> HIDE DEF j, k, l, g
<1>3. j = job[p] /\ k = row[i].key /\ l = NewKey(job[p]) /\ g = job'[p]
  BY DEF j, k, l, g
<1>4. /\ j.pc # "record" => Body(i, job[p]) = cont[k]
      /\ j.pc = "record" => Body(i, job[p]) = cont[l]
  BY <1>3 DEF Body
<1>5. g.pc # "record" => Body(i, job[p])' = cont'[row'[i].key]
  BY <1>3 DEF Body
<1>6. ASSUME NEW m \in Renaming, Goto(p, m), j.op \in {"rename", "transfer", "stop", "start"},
             m \in Places(j.op)
      PROVE  Same(j, g) /\ g.name = j.name /\ g.pc = m /\ g.pc \in Places(j.op) \cap Renaming
             /\ g.owner = j.owner
  BY <1>1, <1>3, <1>6, SameGoto, RenamingPlaces
<1>7. ASSUME Done(p) PROVE g = Idle /\ g.pc = "idle"
  BY <1>3, <1>7, DoneTyped DEF Idle
<1>8. \A m \in Renaming : j.op \in {"rename", "transfer"} => m \in Places(j.op)
  BY RenamingPlaces
<1> DEFINE Alike(x, y) == x.of = y.of /\ x.host = y.host /\ x.limit = y.limit /\ x.keys = y.keys
           Onward == \/ g = Idle /\ j.op \in {"start", "stop"}
                     \/ Same(j, g) /\ g.name = j.name /\ g.pc \in Places(j.op) \cap Renaming
<1>9. ASSUME UNCHANGED row, Alike(Body(i, job[p])', Body(i, job[p])), Onward PROVE Calmly(p, i)
  BY <1>2, <1>3, <1>9 DEF Calmly
<1>10. \A b \in BOOLEAN : Alike([cont[k] EXCEPT !.on = b], cont[k])
  BY <1>1 DEF Container
<1>11. CASE CheckKey(p)
  <2>1. j.pc = "rename" /\ UNCHANGED <<row, cont>> /\ \E m \in {"host", "stop", "move"} : Goto(p, m)
    BY <1>3, <1>11 DEF CheckKey, AfterRename
  <2>2. j.op \in {"rename", "transfer"}
    BY <1>1, <1>3, <2>1, TrackFacts
  <2>3. PICK m \in {"host", "stop", "move"} : Goto(p, m)
    BY <2>1
  <2>4. Onward /\ g.pc # "record"
    BY <1>6, <1>8, <2>2, <2>3 DEF Renaming
  <2>5. QED
    BY <1>4, <1>5, <1>9, <2>1, <2>4, <1>3
<1>12. CASE StopInstance(p) \/ StartInstance(p)
  <2>1. j.pc \in {"stop", "restart"} /\ UNCHANGED row
        /\ (UNCHANGED cont \/ \E b \in BOOLEAN : cont' = [cont EXCEPT ![k] = [cont[k] EXCEPT !.on = b]])
    BY <1>1, <1>3, <1>12 DEF StopInstance, StartInstance, Fails
  <2>2. \/ Goto(p, "stopped") /\ j.pc = "stop"
        \/ Goto(p, "started") /\ j.pc = "restart"
        \/ Done(p) /\ j.op \in {"stop", "start"}
        \/ Goto(p, "host") /\ ~(j.pc = "stop" /\ j.op = "stop") /\ ~(j.pc = "restart" /\ j.op = "start")
    <3>1. CASE StopInstance(p)
      BY <1>3, <3>1 DEF StopInstance, AfterRename
    <3>2. CASE StartInstance(p)
      BY <1>3, <3>2 DEF StartInstance, AfterRename
    <3>3. QED
      BY <1>12, <3>1, <3>2
  <2>3. /\ j.pc = "stop" => j.op \in {"rename", "transfer", "stop"}
        /\ j.pc = "restart" => j.op \in {"rename", "transfer", "start"}
    BY <1>1, <1>3, TrackFacts
  <2>4. "stopped" \in Places("stop") /\ "started" \in Places("start") /\ {"stopped", "started", "host"} \subseteq Renaming
    BY DEF Places, Renaming
  <2>5. Onward /\ g.pc # "record"
    <3>1. CASE Goto(p, "stopped") /\ j.pc = "stop"
      BY <1>6, <1>8, <2>3, <2>4, <3>1
    <3>2. CASE Goto(p, "started") /\ j.pc = "restart"
      BY <1>6, <1>8, <2>3, <2>4, <3>2
    <3>3. CASE Done(p) /\ j.op \in {"stop", "start"}
      BY <1>7, <3>3
    <3>4. CASE Goto(p, "host") /\ ~(j.pc = "stop" /\ j.op = "stop") /\ ~(j.pc = "restart" /\ j.op = "start")
      BY <1>6, <1>8, <2>1, <2>3, <2>4, <3>4
    <3>5. QED
      BY <2>2, <3>1, <3>2, <3>3, <3>4
  <2>6. Alike(cont'[k], cont[k])
    BY <1>1, <1>10, <2>1
  <2>7. QED
    BY <1>3, <1>4, <1>5, <1>9, <2>1, <2>5, <2>6
<1>13. CASE Stopped(p) \/ Started(p)
  <2>1. /\ j.pc \in {"stopped", "started"} /\ UNCHANGED cont
        /\ \E s : row' = [row EXCEPT ![i].status = s]
    BY <1>3, <1>13 DEF Stopped, Started
  <2>2. /\ row'[i].key = k /\ row'[i].owner = row[i].owner /\ row'[i].name = row[i].name
        /\ row'[i].limit = row[i].limit
    BY <1>1, <1>3, <2>1 DEF Row
  <2>3. Onward /\ g.pc # "record"
    <3>1. CASE (Stopped(p) /\ j.op = "stop") \/ (Started(p) /\ j.op = "start")
      <4>1. Done(p) /\ j.op \in {"stop", "start"}
        BY <1>3, <3>1 DEF Stopped, Started
      <4>2. QED
        BY <1>7, <4>1
    <3>2. CASE ~((Stopped(p) /\ j.op = "stop") \/ (Started(p) /\ j.op = "start"))
      <4>1. (Stopped(p) /\ j.pc = "stopped" /\ j.op # "stop") \/ (Started(p) /\ j.pc = "started" /\ j.op # "start")
        BY <1>3, <1>13, <3>2 DEF Stopped, Started
      <4>2. j.op \in {"rename", "transfer"}
        BY <1>1, <1>3, <4>1, TrackFacts
      <4> DEFINE h == [j EXCEPT !.pc = "move", !.was = TRUE]
                 m == [j EXCEPT !.pc = "host", !.status = "running"]
      <4>3. h \in Request /\ Same(j, h) /\ h.name = j.name /\ h.pc = "move"
        <5>1. h \in Request /\ h.pc = "move" /\ h.name = j.name
          BY <1>1 DEF Request
        <5>2. h.op = j.op /\ h.host = j.host /\ h.user = j.user /\ h.limit = j.limit /\ h.keys = j.keys
          BY <1>1 DEF Request
        <5>3. QED
          BY <5>1, <5>2 DEF Same
      <4>4. m \in Request /\ Same(j, m) /\ m.name = j.name /\ m.pc = "host"
        <5>1. m \in Request /\ m.pc = "host" /\ m.name = j.name
          BY <1>1 DEF Request, Statuses
        <5>2. m.op = j.op /\ m.host = j.host /\ m.user = j.user /\ m.limit = j.limit /\ m.keys = j.keys
          BY <1>1 DEF Request
        <5>3. QED
          BY <5>1, <5>2 DEF Same
      <4>6. g = h \/ g = m
        <5>1. job \in [Jobs -> Request \cup {Idle}]
          BY DEF TypeOK
        <5>2. job' = [job EXCEPT ![p] = h] \/ job' = [job EXCEPT ![p] = m]
          BY <1>3, <4>1 DEF Stopped, Started, Become
        <5> HIDE DEF h, m
        <5>3. QED
          BY <1>3, <5>1, <5>2
      <4> HIDE DEF h, m
      <4>5. QED
        BY <1>8, <4>2, <4>3, <4>4, <4>6 DEF Renaming
    <3>3. QED
      BY <3>1, <3>2
  <2>4. Body(i, job[p])' = cont[k] /\ Body(i, job[p]) = cont[k]
    BY <1>4, <1>5, <2>1, <2>2, <2>3
  <2>5. QED
    BY <1>2, <1>3, <2>2, <2>3, <2>4 DEF Calmly
<1>14. CASE MoveContainer(p)
  <2>1. j.pc = "move" /\ UNCHANGED row
    BY <1>3, <1>14 DEF MoveContainer
  <2>2. j.op \in {"rename", "transfer"}
    BY <1>1, <1>3, <2>1, TrackFacts
  <2>3. CASE cont' = Moved(k, l) /\ Goto(p, "record") /\ Live(k) /\ ~Live(l)
    <3>1. Same(j, g) /\ g.name = j.name /\ g.pc = "record" /\ g.owner = j.owner /\ Onward
      BY <1>6, <1>8, <2>2, <2>3 DEF Renaming
    <3>2. NewKey(g) = l
      BY <1>3, <3>1 DEF NewKey, Same
    <3>3. Body(i, job[p])' = cont'[l]
      BY <1>3, <3>1, <3>2 DEF Body, NewKey
    <3>4. cont'[l] = cont[k]
      BY <1>1, <2>3 DEF Moved
    <3>5. QED
      BY <1>4, <1>9, <2>1, <3>1, <3>3, <3>4
  <2>4. CASE UNCHANGED cont /\ Restart(p, j)
    <3>1. Onward /\ g.pc # "record"
      BY <1>1, <1>3, <1>8, <2>2, <2>4, SameRestart DEF Renaming
    <3>2. QED
      BY <1>3, <1>4, <1>5, <1>9, <2>1, <2>4, <3>1
  <2>5. QED
    BY <1>1, <1>3, <1>14, <2>3, <2>4 DEF MoveContainer, Fails
<1>15. CASE RecordKey(p)
  <2>1. j.pc = "record" /\ cont[l].of = i /\ k # l
    BY <1>1, <1>3, <1>15 DEF RecordKey, At
  <2>2. j.op \in {"rename", "transfer"}
    BY <1>1, <1>3, <2>1, TrackFacts
  <2>3. ASSUME NEW h \in Request, Restart(p, h), Same(j, h), h.name = j.name PROVE Onward /\ g.pc # "record"
    <3>1. Same(h, g) /\ g.pc \in {"restart", "host"} /\ g.name = h.name
      BY <1>3, <2>3, SameRestart
    <3>2. Same(j, g)
      BY <2>3, <3>1 DEF Same
    <3>3. QED
      BY <1>8, <2>2, <2>3, <3>1, <3>2 DEF Renaming
  <2>4. CASE /\ row' = IF row[j.id].owner = j.owner THEN [row EXCEPT ![j.id].key = l] ELSE row
             /\ Restart(p, [j EXCEPT !.key = l]) /\ UNCHANGED cont
    <3>1. row' = [row EXCEPT ![i].key = l]
      BY <1>1, <1>3, <2>4
    <3>2. /\ row'[i].key = l /\ row'[i].owner = row[i].owner /\ row'[i].name = row[i].name
          /\ row'[i].limit = row[i].limit
      BY <1>1, <3>1 DEF Row
    <3>3. [j EXCEPT !.key = l] \in Request /\ [j EXCEPT !.key = l].name = j.name
      BY <1>1 DEF Request
    <3>4. Same(j, [j EXCEPT !.key = l])
      BY <1>1, <3>3 DEF Same, Request
    <3>5. Onward /\ g.pc # "record"
      BY <2>3, <2>4, <3>3, <3>4
    <3>6. Body(i, job[p])' = cont[l] /\ Body(i, job[p]) = cont[l]
      BY <1>4, <1>5, <2>1, <2>4, <3>2, <3>5
    <3>7. QED
      BY <1>2, <1>3, <3>2, <3>5, <3>6 DEF Calmly
  <2>5. CASE UNCHANGED row /\ Restart(p, j) /\ cont' = Moved(l, k)
    <3>1. Onward /\ g.pc # "record"
      BY <1>1, <2>3, <2>5 DEF Same
    <3>2. cont'[k] = cont[l]
      BY <1>1, <2>1, <2>5 DEF Moved
    <3>3. QED
      BY <1>3, <1>4, <1>5, <1>9, <2>1, <2>5, <3>1, <3>2
  <2>6. CASE loose' = loose \cup {i}
    BY <2>6
  <2>7. QED
    BY <1>1, <1>3, <1>15, <2>4, <2>5, <2>6 DEF RecordKey
<1>16. QED
  BY <1>11, <1>12, <1>13, <1>14, <1>15 DEF CalmStep

\* Requests keep to their places.
LEMMA StepTrack ==
    ASSUME TypeOK, OnTrack, NEW p \in Jobs, Step(p)
    PROVE  job'[p] = Idle \/ (job'[p].op = job[p].op /\ job'[p].pc \in Places(job[p].op))
<1> DEFINE Keeps == job'[p] = Idle \/ (job'[p].op = job[p].op /\ job'[p].pc \in Places(job[p].op))
<1>1. job[p] \in Request /\ job[p].pc # "idle" /\ NewKey(job[p]) \in IncusNames
      /\ job[p].host \in Names /\ job[p].user \in Users
  BY StepRequest, RequestFields
<1>2. ASSUME NEW m \in Labels, m \in Places(job[p].op), Goto(p, m) PROVE Keeps
  BY <1>1, <1>2, SameGoto DEF Same
<1>3. ASSUME Done(p) PROVE Keeps
  BY <1>3, DoneTyped
<1>4. ASSUME NEW h \in Request, h.op = job[p].op, Restart(p, h), job[p].op \in {"rename", "transfer"} PROVE Keeps
  BY <1>4, SameRestart, RenamingPlaces DEF Same, Renaming
<1>5. CASE WriteName(p) \/ WriteOwner(p)
  <2>1. job[p].op \in {"rename", "transfer"}
    BY <1>1, <1>5, TrackFacts DEF WriteName, WriteOwner
  <2> DEFINE h == [job[p] EXCEPT !.name = job[p].host]
             o == [job[p] EXCEPT !.owner = job[p].user]
  <2>2. h \in Request /\ o \in Request /\ h.op = job[p].op /\ o.op = job[p].op
    BY <1>1 DEF Request
  <2>3. Reach(p, h) \/ Reach(p, o)
    BY <1>5 DEF WriteName, WriteOwner
  <2> HIDE DEF h, o
  <2>4. Done(p) \/ \E g \in {h, o} : \E m \in {"rename", "host"} : Become(p, [g EXCEPT !.pc = m])
    BY <2>3 DEF Reach
  <2>5. ASSUME NEW g \in {h, o}, NEW m \in {"rename", "host"}, Become(p, [g EXCEPT !.pc = m]) PROVE Keeps
    BY <2>1, <2>2, <2>5, SameAt, RenamingPlaces DEF Same, Renaming, Labels
  <2>6. QED
    BY <1>3, <2>4, <2>5
<1>6. CASE CheckKey(p)
  BY <1>1, <1>2, <1>6, TrackFacts, RenamingPlaces DEF CheckKey, AfterRename, Renaming
<1>7. CASE StopInstance(p) \/ StartInstance(p)
  <2>1. /\ StopInstance(p) => job[p].pc = "stop" /\ (Goto(p, "stopped") \/ (job[p].op = "stop" /\ Done(p))
                                \/ (job[p].op # "stop" /\ Goto(p, "host")))
        /\ StartInstance(p) => job[p].pc = "restart" /\ (Goto(p, "started") \/ (job[p].op = "start" /\ Done(p))
                                \/ (job[p].op # "start" /\ Goto(p, "host")))
    BY DEF StopInstance, StartInstance, AfterRename
  <2>2. "stopped" \in Places("stop") /\ "started" \in Places("start") /\ {"stopped", "started", "host"} \subseteq Renaming
    BY DEF Places, Renaming
  <2>3. CASE StopInstance(p)
    <3>1. job[p].op \in {"rename", "transfer", "stop"}
      BY <1>1, <2>1, <2>3, TrackFacts
    <3>2. QED
      BY <1>2, <1>3, <2>1, <2>2, <2>3, <3>1, RenamingPlaces
  <2>4. CASE StartInstance(p)
    <3>1. job[p].op \in {"rename", "transfer", "start"}
      BY <1>1, <2>1, <2>4, TrackFacts
    <3>2. QED
      BY <1>2, <1>3, <2>1, <2>2, <2>4, <3>1, RenamingPlaces
  <2>5. QED
    BY <1>7, <2>3, <2>4
<1>8. CASE Stopped(p) \/ Started(p)
  <2> DEFINE h == [job[p] EXCEPT !.pc = "move", !.was = TRUE]
             m == [job[p] EXCEPT !.pc = "host", !.status = "running"]
  <2>1. /\ h \in Request /\ h.op = job[p].op /\ h.pc = "move"
        /\ m \in Request /\ m.op = job[p].op /\ m.pc = "host"
    BY <1>1 DEF Request, Statuses
  <2>2. Done(p) \/ (Become(p, h) /\ Stopped(p) /\ job[p].op # "stop") \/ (Become(p, m) /\ Started(p) /\ job[p].op # "start")
    BY <1>8 DEF Stopped, Started
  <2> HIDE DEF h, m
  <2>3. (Stopped(p) /\ job[p].op # "stop") \/ (Started(p) /\ job[p].op # "start") => job[p].op \in {"rename", "transfer"}
    BY <1>1, TrackFacts DEF Stopped, Started
  <2>4. CASE Become(p, h) /\ job[p].op \in {"rename", "transfer"}
    BY <2>1, <2>4, BecomeTyped, RenamingPlaces DEF Renaming
  <2>5. CASE Become(p, m) /\ job[p].op \in {"rename", "transfer"}
    BY <2>1, <2>5, BecomeTyped, RenamingPlaces DEF Renaming
  <2>6. QED
    BY <1>3, <2>2, <2>3, <2>4, <2>5
<1>9. CASE MoveContainer(p)
  <2>1. job[p].op \in {"rename", "transfer"}
    BY <1>1, <1>9, TrackFacts DEF MoveContainer
  <2>2. Goto(p, "record") \/ Restart(p, job[p])
    BY <1>9 DEF MoveContainer
  <2>3. QED
    BY <1>1, <1>2, <1>4, <2>1, <2>2, RenamingPlaces DEF Renaming
<1>10. CASE RecordKey(p)
  <2>1. job[p].op \in {"rename", "transfer"}
    BY <1>1, <1>10, TrackFacts DEF RecordKey
  <2>2. [job[p] EXCEPT !.key = NewKey(job[p])] \in Request
        /\ [job[p] EXCEPT !.key = NewKey(job[p])].op = job[p].op
    BY <1>1 DEF Request
  <2>3. Restart(p, [job[p] EXCEPT !.key = NewKey(job[p])]) \/ Restart(p, job[p])
    BY <1>10 DEF RecordKey
  <2>4. QED
    BY <1>1, <1>4, <2>1, <2>2, <2>3
<1>11. CASE SetHost(p)
  <2>1. job[p].op \in {"rename", "transfer"}
    BY <1>1, <1>11, TrackFacts DEF SetHost
  <2>2. Done(p) \/ (Goto(p, "install") /\ job[p].op # "rename")
    BY <1>11 DEF SetHost, AfterHost
  <2>3. "install" \in Places("transfer") /\ "install" \in Labels
    BY DEF Places, Labels
  <2>4. QED
    BY <1>2, <1>3, <2>1, <2>2, <2>3
<1>12. CASE InstallKeys(p)
  <2>1. job[p].op = "transfer" /\ "revoke" \in Places("transfer") /\ "revoke" \in Labels
    BY <1>1, <1>12, TrackFacts DEF InstallKeys, Places, Labels
  <2>2. QED
    BY <1>2, <1>3, <1>12, <2>1 DEF InstallKeys
<1>13. CASE UpdateIncusConfig(p)
  <2>1. job[p].op = "config" /\ "store" \in Places("config") /\ "store" \in Labels
    <3>1. job[p].pc = "raw" /\ job[p].pc \in Places(job[p].op)
      BY <1>1, <1>13, TrackFacts DEF UpdateIncusConfig
    <3>2. job[p].op \in {"rename", "transfer", "resources", "config", "start", "stop", "key", "restore"}
      BY <1>1 DEF Request
    <3>3. QED
      BY <3>1, <3>2 DEF Places, Renaming, Labels
  <2>2. QED
    BY <1>2, <1>3, <1>13, <2>1 DEF UpdateIncusConfig
<1>14. CASE RevokeKeys(p) \/ ApplyResources(p) \/ StoreResources(p) \/ AddAuthorizedKey(p) \/ RestoreSnapshot(p)
  BY <1>3, <1>14 DEF RevokeKeys, ApplyResources, StoreResources, AddAuthorizedKey, RestoreSnapshot
<1>15. QED
  BY <1>5, <1>6, <1>7, <1>8, <1>9, <1>10, <1>11, <1>12, <1>13, <1>14 DEF Step

\* What the request that begins has read, as far as configuration and keys go.
BegunFit(p, i, j) ==
    /\ j \in Request /\ Become(p, j) /\ j.id = i /\ p \notin Busy /\ Overlap(i)
    /\ j.pc \in Places(j.op) /\ ~Between(j) /\ j.pc # "store" /\ j.pc # "record"
    /\ j.pc = "owner" => j.name = row[i].name
    /\ j.pc = "apply" => row'[i].limit = j.limit
    /\ j.pc # "apply" => row' = row
    /\ j.pc = "add" => j.keys \subseteq own[row[i].owner] \cup Gone(i)'
    /\ j.op = "transfer" =>
         j.pc = "owner" /\ (i \in kept' \/ own[row[i].owner] \subseteq own[j.user] \cup j.keys)
BeginRest(i) ==
    /\ own' = own /\ making' = making /\ behind' = behind /\ kept \subseteq kept' /\ Exists(i)
    /\ Gone(i) \subseteq Gone(i)'
    /\ \A h \in Insts \ {i} : row'[h] = row[h] /\ Gone(h)' = Gone(h)

LEMMA BeginFits ==
    ASSUME TypeOK, NEW p \in Jobs, Begin(p)
    PROVE  \E i \in Insts : BeginRest(i) /\ \E j : BegunFit(p, i, j)
<1>1. PICK i \in Insts :
      \/ \E n \in Names, c \in BOOLEAN : BeginRename(p, i, n, c)
      \/ \E u \in Users, c, keep \in BOOLEAN : BeginTransfer(p, i, u, c, keep)
      \/ \E l \in Limits \cup {Unset} : BeginResources(p, i, l) \/ BeginConfig(p, i, l)
      \/ \E o \in {"start", "stop"} : BeginPower(p, i, o)
      \/ \E u \in Users, k \in Keys : BeginKey(p, i, u, k)
      \/ BeginRestore(p, i)
  BY DEF Begin
<1>2. p \notin Busy /\ Overlap(i) /\ Exists(i)
  BY <1>1 DEF BeginRename, BeginTransfer, BeginResources, BeginConfig, BeginPower, BeginKey, BeginRestore,
              Free, Exists
<1>3. BeginRest(i)
  <2>1. row \in [Insts -> Row]
    BY DEF TypeOK
  <2>2. /\ own' = own /\ making' = making /\ dropped' = dropped /\ behind' = behind /\ kept \subseteq kept'
        /\ row' = row \/ \E l : row' = [row EXCEPT ![i].limit = l]
        /\ granted' = granted \/ \E k \in Keys : granted' = granted \cup {<<i, k>>}
    BY <1>1 DEF BeginRename, BeginTransfer, BeginResources, BeginConfig, BeginPower, BeginKey, BeginRestore, rest
  <2>3. granted \subseteq granted' /\ \A h \in Insts \ {i}, k \in Keys : <<h, k>> \in granted' <=> <<h, k>> \in granted
    BY <2>2
  <2>4. Gone(i) \subseteq Gone(i)' /\ \A h \in Insts \ {i} : Gone(h)' = Gone(h)
    BY <2>2, <2>3 DEF Gone
  <2>5. QED
    BY <1>2, <2>1, <2>2, <2>4 DEF BeginRest
<1>4. row[i] \in Row /\ row \in [Insts -> Row] /\ own \in [Users -> SUBSET Keys]
  BY DEF TypeOK
<1> DEFINE R(o, l) == Read(i, o, l)
<1>5. /\ R("rename", "name") \in Request /\ R("transfer", "owner") \in Request
      /\ R("resources", "apply") \in Request /\ R("config", "raw") \in Request
      /\ R("start", "restart") \in Request /\ R("stop", "stop") \in Request
      /\ R("key", "add") \in Request /\ R("restore", "restore") \in Request
  BY ReadTyped DEF Labels
<1>6. \A o, l : /\ R(o, l).id = i /\ R(o, l).op = o /\ R(o, l).pc = l /\ R(o, l).name = row[i].name
                /\ R(o, l).owner = row[i].owner
  BY DEF Read
<1>7. /\ "name" \in Places("rename") /\ "owner" \in Places("transfer") /\ "apply" \in Places("resources")
      /\ "raw" \in Places("config") /\ "restart" \in Places("start") /\ "stop" \in Places("stop")
      /\ "add" \in Places("key") /\ "restore" \in Places("restore")
      /\ "name" \notin Renaming /\ "owner" \notin Renaming
  BY DEF Places, Renaming
<1> HIDE DEF R
<1>8. ASSUME NEW n \in Names, NEW c \in BOOLEAN, BeginRename(p, i, n, c) PROVE \E j : BegunFit(p, i, j)
  <2> DEFINE j == [R("rename", "name") EXCEPT !.host = n, !.container = c]
  <2>0. j \in Request
    BY <1>5 DEF Request
  <2>1. j \in Request /\ j.id = i /\ j.op = "rename" /\ j.pc = "name"
    <3>1. R("rename", "name") \in Request /\ R("rename", "name").id = i
          /\ R("rename", "name").op = "rename" /\ R("rename", "name").pc = "name"
      BY <1>5, <1>6
    <3>2. QED
      BY <2>0, <3>1 DEF Request
  <2>2. Become(p, j) /\ row' = row
    BY <1>8 DEF BeginRename, R
  <2> HIDE DEF j
  <2>3. QED
    BY <1>2, <1>7, <2>1, <2>2 DEF BegunFit, Between
<1>9. ASSUME NEW u \in Users, NEW c \in BOOLEAN, NEW keep \in BOOLEAN, BeginTransfer(p, i, u, c, keep)
      PROVE  \E j : BegunFit(p, i, j)
  <2> DEFINE K == IF keep THEN {} ELSE KeysToRevoke(row[i].owner, u)
             j(m) == [R("transfer", "owner") EXCEPT !.host = m, !.user = u, !.container = c, !.keys = K]
  <2>1. PICK m \in Names : Become(p, j(m))
    BY <1>9 DEF BeginTransfer, R
  <2>2. row' = row /\ (keep => i \in kept')
    BY <1>9 DEF BeginTransfer
  <2>3. K \subseteq Keys /\ (~keep => own[row[i].owner] \subseteq own[u] \cup K)
    BY <1>4 DEF KeysToRevoke, Row
  <2> HIDE DEF K
  <2>4. j(m) \in Request
    BY <1>5, <2>3 DEF Request
  <2>5. j(m).id = i /\ j(m).op = "transfer" /\ j(m).pc = "owner" /\ j(m).name = row[i].name
        /\ j(m).user = u /\ j(m).keys = K
    BY <1>5, <1>6 DEF Request
  <2> HIDE DEF j
  <2>6. QED
    BY <1>2, <1>7, <2>1, <2>2, <2>3, <2>4, <2>5 DEF BegunFit, Between
<1>10. ASSUME NEW l \in Limits \cup {Unset}, BeginResources(p, i, l) \/ BeginConfig(p, i, l)
       PROVE  \E j : BegunFit(p, i, j)
  <2> DEFINE g == [R("resources", "apply") EXCEPT !.limit = l]
             h == [R("config", "raw") EXCEPT !.limit = l]
  <2>1. /\ g \in Request /\ g.id = i /\ g.op = "resources" /\ g.pc = "apply" /\ g.limit = l
        /\ h \in Request /\ h.id = i /\ h.op = "config" /\ h.pc = "raw"
    BY <1>5, <1>6 DEF Request
  <2>2. \/ Become(p, g) /\ row' = [row EXCEPT ![i].limit = l]
        \/ Become(p, h) /\ row' = row
    BY <1>10 DEF BeginResources, BeginConfig, R
  <2>3. row' = [row EXCEPT ![i].limit = l] => row'[i].limit = l
    BY <1>4 DEF Row
  <2> HIDE DEF g, h
  <2>4. QED
    BY <1>2, <1>7, <2>1, <2>2, <2>3 DEF BegunFit, Between
<1>11. ASSUME NEW o \in {"start", "stop"}, BeginPower(p, i, o) PROVE \E j : BegunFit(p, i, j)
  <2>1. (Become(p, R("start", "restart")) \/ Become(p, R("stop", "stop"))) /\ row' = row
    BY <1>11 DEF BeginPower, R
  <2>2. QED
    BY <1>2, <1>5, <1>6, <1>7, <2>1 DEF BegunFit, Between
<1>12. ASSUME NEW u \in Users, NEW k \in Keys, BeginKey(p, i, u, k) PROVE \E j : BegunFit(p, i, j)
  <2> DEFINE j == [R("key", "add") EXCEPT !.keys = {k}]
  <2>1. j \in Request /\ j.id = i /\ j.op = "key" /\ j.pc = "add" /\ j.keys = {k}
    BY <1>5, <1>6 DEF Request
  <2>2. Become(p, j) /\ row' = row /\ (k \in own[row[i].owner] \/ <<i, k>> \in granted')
    BY <1>12 DEF BeginKey, R
  <2>4. k \in own[row[i].owner] \cup Gone(i)'
    BY <2>2 DEF Gone
  <2> HIDE DEF j
  <2>3. QED
    BY <1>2, <1>7, <2>1, <2>2, <2>4 DEF BegunFit, Between
<1>13. CASE BeginRestore(p, i)
  <2> DEFINE j == R("restore", "restore")
  <2>1. j \in Request /\ j.id = i /\ j.op = "restore" /\ j.pc = "restore"
    BY <1>5, <1>6
  <2>2. Become(p, j) /\ row' = row
    BY <1>13 DEF BeginRestore, R
  <2> HIDE DEF j
  <2>3. BegunFit(p, i, j)
    BY <1>2, <1>7, <2>1, <2>2 DEF BegunFit, Between
  <2>4. QED
    BY <1>3, <2>3
<1>14. QED
  BY <1>1, <1>3, <1>8, <1>9, <1>10, <1>11, <1>12, <1>13

LEMMA TrackInit == Init => OnTrack
BY DEF Init, OnTrack, Busy, Idle
LEMMA TrackNext == ASSUME TypeOK, OnTrack, [Next]_vars PROVE OnTrack'
<1>1. ASSUME NEW p \in Jobs, Step(p) PROVE OnTrack'
  BY <1>1, StepTrack, StepJobs DEF OnTrack, Busy, Idle
<1>2. ASSUME NEW p \in Jobs, Begin(p) PROVE OnTrack'
  <2>1. PICK j : j \in Request /\ Become(p, j) /\ j.pc \in Places(j.op)
    BY <1>2, BeginFits DEF BegunFit
  <2>2. job'[p] = j /\ \A q \in Jobs \ {p} : job'[q] = job[q]
    BY <2>1, BecomeTyped
  <2>3. QED
    BY <2>1, <2>2 DEF OnTrack, Busy
<1>3. CASE Crash
  BY <1>3 DEF Crash, OnTrack, Busy, Idle
<1>4. CASE UNCHANGED vars \/ \E u \in Users, k \in Keys : CreateSSHKey(u, k) \/ DeleteSSHKey(u, k)
  BY <1>4 DEF vars, CreateSSHKey, DeleteSSHKey, OnTrack, Busy
<1>5. CASE \E i \in Insts : \/ \E u \in Users, n \in Names, l \in Limits \cup {Unset} : CreateAsync(i, u, n, l)
                            \/ FinishCreate(i)
  BY <1>5 DEF CreateAsync, FinishCreate, OnTrack, Busy
<1>6. QED
  BY <1>1, <1>2, <1>3, <1>4, <1>5 DEF Next, Quiet

\* A request that is alone on its instance, after a step of its own.
LEMMA ConfigAfter ==
    ASSUME TypeOK, NEW p \in Jobs, Step(p), NEW i \in Insts, i = job[p].id, Settled(i),
           ConfigFits(Body(i, job[p]), row[i], job[p])'
    PROVE  ConfigSettled(i)'
<1>1. p \in OnInst(i)
  BY StepRequest DEF OnInst, Busy
<1>2. \A q \in OnInst(i)' : q = p
  BY <1>1, StepJobs DEF Settled, OnInst, Busy
<1>3. OnInst(i)' = {} => job'[p] = Idle
  BY StepJobs, RequestFields DEF OnInst, Busy
<1>4. job'[p] = Idle => Body(i, job[p])' = Body(i, Idle)'
  BY DEF Body, Idle
<1>5. QED
  BY <1>2, <1>3, <1>4 DEF ConfigSettled, ConfigFits, HostFits, LimitFits, Between
LEMMA KeysAfter ==
    ASSUME TypeOK, NEW p \in Jobs, Step(p), NEW i \in Insts, i = job[p].id, Settled(i),
           KeysFit(Body(i, job[p]), row[i], job[p], own, Gone(i))'
    PROVE  KeysSettled(i)'
<1>1. p \in OnInst(i)
  BY StepRequest DEF OnInst, Busy
<1>0. ~Making(i)'
  BY <1>1, StepExists DEF Settled, Coming, Making
<1>2. \A q \in OnInst(i)' : q = p
  BY <1>1, StepJobs DEF Settled, OnInst, Busy
<1>3. OnInst(i)' = {} => job'[p] = Idle
  BY StepJobs, RequestFields DEF OnInst, Busy
<1>4. job'[p] = Idle => Body(i, job[p])' = Body(i, Idle)'
  BY DEF Body, Idle
<1>5. QED
  BY <1>0, <1>2, <1>3, <1>4 DEF KeysSettled, KeysFit, KeysIn

\* What the histories and the accounts' keys are after a step.
LEMMA StepHistory ==
    ASSUME TypeOK, NEW p \in Jobs, Step(p)
    PROVE  /\ own' = own /\ making' = making /\ behind \subseteq behind' /\ kept \subseteq kept'
           /\ \A i \in Insts : i # job[p].id \/ ~RevokeKeys(p) => Gone(i)' = Gone(i)
           /\ \A i \in Insts : Gone(i) \ job[p].keys \subseteq Gone(i)'
<1>1. /\ own' = own /\ making' = making /\ dropped' = dropped /\ behind \subseteq behind' /\ kept \subseteq kept'
      /\ RevokeKeys(p) \/ granted' = granted
  <2>1. CASE WriteName(p) \/ WriteOwner(p)
    BY <2>1 DEF WriteName, WriteOwner, Reach
  <2>2. CASE SetHost(p)
    BY <2>2 DEF SetHost, AfterHost, rest
  <2>3. CASE ~(WriteName(p) \/ WriteOwner(p) \/ SetHost(p))
    BY <2>3 DEF Step, CheckKey, StopInstance, Stopped, MoveContainer, RecordKey, history, rest,
         StartInstance, Started, InstallKeys, RevokeKeys, ApplyResources,
         UpdateIncusConfig, StoreResources, AddAuthorizedKey, RestoreSnapshot
  <2>4. QED
    BY <2>1, <2>2, <2>3
<1>2. RevokeKeys(p) => granted' = granted \/ granted' = granted \ ({job[p].id} \X job[p].keys)
  BY DEF RevokeKeys
<1>3. \A i \in Insts : i # job[p].id \/ ~RevokeKeys(p) => Gone(i)' = Gone(i)
  BY <1>1, <1>2 DEF Gone
<1>4. \A i \in Insts, k \in Keys : <<i, k>> \in granted /\ k \notin job[p].keys => <<i, k>> \in granted'
  BY <1>1, <1>2
<1>5. \A i \in Insts : Gone(i) \ job[p].keys \subseteq Gone(i)'
  BY <1>1, <1>4 DEF Gone
<1>6. QED
  BY <1>1, <1>3, <1>5

\* The two steps that write a name or an owner.
LEMMA WriteStep ==
    ASSUME TypeOK, OnTrack, NEW p \in Jobs, Step(p), WriteName(p) \/ WriteOwner(p),
           NEW i \in Insts, i = job[p].id, Settled(i)
    PROVE  /\ cont' = cont /\ row'[i].key = row[i].key /\ row'[i].limit = row[i].limit
           /\ row'[i].name = job[p].host
           /\ WriteName(p) => job[p].pc = "name" /\ job[p].op = "rename" /\ row'[i].owner = row[i].owner
           /\ WriteOwner(p) => job[p].pc = "owner" /\ job[p].op = "transfer" /\ row'[i].owner = job[p].user
           /\ \/ job'[p] = Idle /\ i \in behind' /\ i \in kept'
              \/ /\ Same(job[p], job'[p]) /\ job'[p].pc \in {"rename", "host"}
                 /\ job'[p].op = "transfer" => job'[p].name = job[p].name
<1>1. /\ job[p] \in Request /\ row \in [Insts -> Row] /\ row[i] \in Row /\ job[p].owner = row[i].owner
      /\ job[p].host \in Names /\ job[p].user \in Users
  BY StepRequest, RequestFields DEF TypeOK, Settled, OnInst, Busy, At
<1>2. /\ WriteName(p) => job[p].pc = "name" /\ job[p].op = "rename"
      /\ WriteOwner(p) => job[p].pc = "owner" /\ job[p].op = "transfer"
  BY <1>1, TrackFacts DEF WriteName, WriteOwner
<1>3. /\ WriteName(p) => row' = [row EXCEPT ![i].name = job[p].host]
      /\ WriteOwner(p) => row' = [row EXCEPT ![i] = [row[i] EXCEPT !.owner = job[p].user, !.name = job[p].host]]
  BY <1>1 DEF WriteName, WriteOwner
<1>4. /\ row'[i].key = row[i].key /\ row'[i].limit = row[i].limit /\ row'[i].name = job[p].host
      /\ WriteName(p) => row'[i].owner = row[i].owner
      /\ WriteOwner(p) => row'[i].owner = job[p].user
  <2>1. CASE WriteName(p)
    BY <1>1, <1>2, <1>3, <2>1 DEF Row
  <2>2. CASE WriteOwner(p)
    <3> DEFINE r == [row[i] EXCEPT !.owner = job[p].user, !.name = job[p].host]
    <3>1. r.key = row[i].key /\ r.limit = row[i].limit /\ r.name = job[p].host /\ r.owner = job[p].user
      BY <1>1 DEF Row
    <3>2. row'[i] = r /\ ~WriteName(p)
      BY <1>1, <1>2, <1>3, <2>2
    <3> HIDE DEF r
    <3>3. QED
      BY <3>1, <3>2
  <2>3. QED
    BY <2>1, <2>2
<1> DEFINE h == [job[p] EXCEPT !.name = job[p].host]
           o == [job[p] EXCEPT !.owner = job[p].user]
<1>5. /\ h \in Request /\ h.op = job[p].op /\ h.host = job[p].host /\ h.user = job[p].user
      /\ h.limit = job[p].limit /\ h.keys = job[p].keys /\ h.id = i
  BY <1>1 DEF Request
<1>6. /\ o \in Request /\ o.op = job[p].op /\ o.host = job[p].host /\ o.user = job[p].user
      /\ o.limit = job[p].limit /\ o.keys = job[p].keys /\ o.name = job[p].name /\ o.id = i
  BY <1>1 DEF Request
<1>7. (Reach(p, h) /\ job[p].op = "rename") \/ Reach(p, o)
  BY <1>2 DEF WriteName, WriteOwner
<1> HIDE DEF h, o
<1>8. ASSUME NEW g \in {h, o}, Reach(p, g)
      PROVE  \/ job'[p] = Idle /\ i \in behind' /\ i \in kept'
             \/ Same(g, job'[p]) /\ job'[p].pc \in {"rename", "host"} /\ job'[p].name = g.name
  <2>1. CASE Done(p)
    <3>1. ~\E m \in {"rename", "host"} : Become(p, [g EXCEPT !.pc = m])
      <4>1. SUFFICES ASSUME NEW m \in {"rename", "host"}, Become(p, [g EXCEPT !.pc = m]) PROVE FALSE
        OBVIOUS
      <4>2. job'[p].pc = m
        BY <1>5, <1>6, <4>1, SameAt DEF Labels
      <4>3. QED
        BY <2>1, <4>2, DoneTyped DEF Idle
    <3>2. QED
      BY <1>5, <1>6, <1>8, <2>1, <3>1, DoneTyped DEF Reach
  <2>2. CASE \E m \in {"rename", "host"} : Become(p, [g EXCEPT !.pc = m])
    <3>1. PICK m \in {"rename", "host"} : Become(p, [g EXCEPT !.pc = m])
      BY <2>2
    <3>2. g \in Request /\ m \in Labels
      BY <1>5, <1>6 DEF Labels
    <3>3. Same(g, job'[p]) /\ job'[p].pc = m /\ job'[p].name = g.name
      BY <3>1, <3>2, SameAt
    <3>4. QED
      BY <3>3
  <2>3. QED
    BY <1>8, <2>1, <2>2 DEF Reach
<1>9. QED
  <2>1. WriteName(p) \/ WriteOwner(p) => cont' = cont
    BY DEF WriteName, WriteOwner
  <2>2. CASE Reach(p, h) /\ job[p].op = "rename"
    <3>1. Same(h, job'[p]) => Same(job[p], job'[p]) /\ job'[p].op = "rename"
      BY <1>5, <2>2 DEF Same
    <3>2. QED
      BY <1>2, <1>4, <1>8, <2>1, <2>2, <3>1
  <2>3. CASE Reach(p, o)
    <3>1. Same(o, job'[p]) => Same(job[p], job'[p])
      BY <1>6 DEF Same
    <3>2. QED
      BY <1>2, <1>4, <1>6, <1>8, <2>1, <2>3, <3>1
  <2>4. QED
    BY <1>7, <2>2, <2>3

\* The other steps work on the container by the name in the row.
PlainStep(p) ==
    SetHost(p) \/ InstallKeys(p) \/ RevokeKeys(p) \/ ApplyResources(p) \/ UpdateIncusConfig(p)
    \/ StoreResources(p) \/ AddAuthorizedKey(p) \/ RestoreSnapshot(p)

LEMMA PlainSteps ==
    ASSUME TypeOK, OnTrack, NEW p \in Jobs, Step(p), PlainStep(p), NEW i \in Insts, i = job[p].id, Settled(i)
    PROVE  /\ row'[i].key = row[i].key /\ row'[i].owner = row[i].owner /\ row'[i].name = row[i].name
           /\ row'[i].limit = IF StoreResources(p) THEN job[p].limit ELSE row[i].limit
           /\ Body(i, job[p]) = cont[row[i].key] /\ Body(i, job[p])' = cont'[row[i].key]
           /\ job[p].key = row[i].key /\ job[p] \in Request
           /\ \/ job'[p] = Idle
              \/ /\ Same(job[p], job'[p]) /\ job'[p].pc \in {"install", "revoke", "store"}
                 /\ job'[p].pc = "install" => SetHost(p) /\ job[p].op = "transfer"
                 /\ job'[p].pc = "revoke" => InstallKeys(p) /\ job[p].op = "transfer"
                 /\ job'[p].pc = "store" => UpdateIncusConfig(p) /\ job[p].op \notin {"rename", "transfer"}
<1>1. /\ job[p] \in Request /\ row \in [Insts -> Row] /\ row[i] \in Row /\ job[p].key = row[i].key
  BY StepRequest, RequestFields DEF TypeOK, Settled, OnInst, Busy, At
<1>2. job[p].pc \notin {"record", "idle"}
  BY <1>1, RequestFields
     DEF PlainStep, SetHost, InstallKeys, RevokeKeys, ApplyResources, UpdateIncusConfig, StoreResources,
         AddAuthorizedKey, RestoreSnapshot
<1>3. /\ row'[i].key = row[i].key /\ row'[i].owner = row[i].owner /\ row'[i].name = row[i].name
      /\ row'[i].limit = IF StoreResources(p) THEN job[p].limit ELSE row[i].limit
  <2>1. CASE StoreResources(p)
    BY <1>1, <2>1 DEF StoreResources, Row
  <2>2. CASE ~StoreResources(p)
    <3>1. row' = row
      BY <2>2 DEF PlainStep, SetHost, InstallKeys, RevokeKeys, ApplyResources, UpdateIncusConfig,
         AddAuthorizedKey, RestoreSnapshot
    <3>2. QED
      BY <2>2, <3>1
  <2>3. QED
    BY <2>1, <2>2
<1>4. \/ job'[p] = Idle
      \/ /\ Same(job[p], job'[p]) /\ job'[p].pc \in {"install", "revoke", "store"}
         /\ job'[p].pc = "install" => SetHost(p) /\ job[p].op = "transfer"
         /\ job'[p].pc = "revoke" => InstallKeys(p) /\ job[p].op = "transfer"
         /\ job'[p].pc = "store" => UpdateIncusConfig(p) /\ job[p].op \notin {"rename", "transfer"}
  <2>1. CASE Done(p)
    BY <2>1, DoneTyped
  <2>2. CASE SetHost(p) /\ Goto(p, "install")
    <3>1. job[p].op # "rename" \/ Done(p)
      BY <2>2 DEF SetHost, AfterHost
    <3>2. job[p].pc = "host"
      BY <2>2 DEF SetHost
    <3>3. QED
      BY <1>1, <2>1, <2>2, <3>1, <3>2, SameGoto, TrackFacts DEF Labels
  <2>3. CASE InstallKeys(p) /\ Goto(p, "revoke")
    <3>1. job[p].pc = "install"
      BY <2>3 DEF InstallKeys
    <3>2. QED
      BY <1>1, <2>3, <3>1, SameGoto, TrackFacts DEF Labels
  <2>4. CASE UpdateIncusConfig(p) /\ Goto(p, "store")
    <3>1. job[p].pc = "raw"
      BY <2>4 DEF UpdateIncusConfig
    <3>2. QED
      BY <1>1, <2>4, <3>1, SameGoto, TrackFacts DEF Labels
  <2>5. QED
    BY <2>1, <2>2, <2>3, <2>4
       DEF PlainStep, SetHost, AfterHost, InstallKeys, RevokeKeys, ApplyResources, UpdateIncusConfig, StoreResources,
           AddAuthorizedKey, RestoreSnapshot
<1>5. Body(i, job[p]) = cont[row[i].key]
  BY <1>2 DEF Body
<1>6. Body(i, job[p])' = cont'[row[i].key]
  <2>1. job'[p].pc # "record"
    BY <1>4 DEF Idle
  <2>2. QED
    BY <1>3, <2>1 DEF Body
<1>7. QED
  BY <1>1, <1>3, <1>4, <1>5, <1>6

\* What they write of it.
LEMMA PlainContainer ==
    ASSUME TypeOK, OnTrack, NEW p \in Jobs, Step(p), PlainStep(p), NEW i \in Insts, i = job[p].id, Settled(i),
           NEW x, x = cont[row[i].key], NEW y, y = cont'[row[i].key]
    PROVE  /\ y.of = x.of
           /\ IF SetHost(p) THEN \/ y.host = job[p].host
                                 \/ i \in behind'
                                 \/ y.host = x.host /\ job[p].op = "transfer" /\ job[p].host = job[p].name
              ELSE y.host = x.host
           /\ IF ApplyResources(p) THEN y.limit = Effective(job[p].limit) \/ i \in behind'
              ELSE IF UpdateIncusConfig(p) THEN \/ y.limit = job[p].limit /\ (job[p].limit # Unset \/ i \in behind')
                                                   /\ job'[p] # Idle
                                                \/ y.limit = x.limit /\ job'[p] = Idle
              ELSE y.limit = x.limit
           /\ IF InstallKeys(p) THEN y.keys \subseteq x.keys \cup own[job[p].user]
              ELSE IF RevokeKeys(p) THEN y.keys = x.keys \ job[p].keys \/ i \in kept'
              ELSE IF AddAuthorizedKey(p) THEN y.keys \subseteq x.keys \cup job[p].keys
              ELSE y.keys = x.keys
<1> DEFINE k == row[i].key
<1>1. /\ job[p] \in Request /\ row \in [Insts -> Row] /\ row[i] \in Row /\ job[p].key = k
      /\ cont \in [IncusNames -> Container] /\ k \in IncusNames /\ x \in Container
  BY StepRequest, RequestFields DEF TypeOK, Settled, OnInst, Busy, At, Row
<1> HIDE DEF k
<1>2. x = cont[k] /\ y = cont'[k]
  BY DEF k
<1>3. /\ SetHost(p) => job[p].pc = "host"
      /\ InstallKeys(p) => job[p].pc = "install"
      /\ RevokeKeys(p) => job[p].pc = "revoke"
      /\ ApplyResources(p) => job[p].pc = "apply"
      /\ UpdateIncusConfig(p) => job[p].pc = "raw"
      /\ StoreResources(p) => job[p].pc = "store"
      /\ AddAuthorizedKey(p) => job[p].pc = "add"
      /\ RestoreSnapshot(p) => job[p].pc = "restore"
  BY DEF SetHost, InstallKeys, RevokeKeys, ApplyResources, UpdateIncusConfig, StoreResources,
         AddAuthorizedKey, RestoreSnapshot
<1>4. ASSUME NEW h, cont' = [cont EXCEPT ![k] = [x EXCEPT !.host = h]]
      PROVE  y.of = x.of /\ y.host = h /\ y.limit = x.limit /\ y.keys = x.keys
  BY <1>1, <1>2, <1>4 DEF Container
<1>5. ASSUME NEW h, cont' = [cont EXCEPT ![k] = [x EXCEPT !.limit = h]]
      PROVE  y.of = x.of /\ y.limit = h /\ y.host = x.host /\ y.keys = x.keys
  BY <1>1, <1>2, <1>5 DEF Container
<1>6. ASSUME NEW h, cont' = [cont EXCEPT ![k] = [x EXCEPT !.keys = h]]
      PROVE  y.of = x.of /\ y.keys = h /\ y.host = x.host /\ y.limit = x.limit
  BY <1>1, <1>2, <1>6 DEF Container
<1>7. CASE SetHost(p)
  <2>1. \/ cont' = [cont EXCEPT ![k] = [x EXCEPT !.host = job[p].host]]
        \/ cont' = cont /\ i \in behind'
        \/ cont' = cont /\ job[p].op = "transfer" /\ job[p].host = job[p].name
    BY <1>1, <1>2, <1>7 DEF SetHost, SetConfig, Fails
  <2>2. QED
    BY <1>2, <1>3, <1>4, <1>7, <2>1
<1>8. CASE InstallKeys(p)
  <2>1. \/ cont' = cont
        \/ \E K \in SUBSET own[job[p].user] : cont' = [cont EXCEPT ![k] = [x EXCEPT !.keys = x.keys \cup K]]
    BY <1>1, <1>2, <1>8 DEF InstallKeys
  <2>2. CASE cont' = cont
    BY <1>2, <1>3, <1>8, <2>2
  <2>3. CASE \E K \in SUBSET own[job[p].user] : cont' = [cont EXCEPT ![k] = [x EXCEPT !.keys = x.keys \cup K]]
    <3>1. PICK K \in SUBSET own[job[p].user] : cont' = [cont EXCEPT ![k] = [x EXCEPT !.keys = x.keys \cup K]]
      BY <2>3
    <3>2. y.of = x.of /\ y.keys = x.keys \cup K /\ y.host = x.host /\ y.limit = x.limit
      BY <1>6, <3>1
    <3>3. QED
      BY <1>3, <1>8, <3>2
  <2>4. QED
    BY <2>1, <2>2, <2>3
<1>9. CASE RevokeKeys(p)
  <2>1. \/ cont' = [cont EXCEPT ![k] = [x EXCEPT !.keys = x.keys \ job[p].keys]]
        \/ cont' = cont /\ i \in kept'
    BY <1>1, <1>2, <1>9 DEF RevokeKeys, Fails
  <2>2. QED
    BY <1>2, <1>3, <1>6, <1>9, <2>1
<1>10. CASE ApplyResources(p)
  <2>1. \/ cont' = [cont EXCEPT ![k] = [x EXCEPT !.limit = Effective(job[p].limit)]]
        \/ cont' = cont /\ i \in behind'
    BY <1>1, <1>2, <1>10 DEF ApplyResources, SetConfig, Fails
  <2>2. QED
    BY <1>2, <1>3, <1>5, <1>10, <2>1
<1>11. CASE UpdateIncusConfig(p)
  <2>1. \/ /\ cont' = [cont EXCEPT ![k] = [x EXCEPT !.limit = job[p].limit]]
           /\ Goto(p, "store") /\ (job[p].limit = Unset => i \in behind')
        \/ cont' = cont /\ Done(p)
    BY <1>1, <1>2, <1>11 DEF UpdateIncusConfig, SetConfig, Fails
  <2>2. Goto(p, "store") => job'[p] # Idle
    BY <1>1, SameGoto DEF Labels, Idle
  <2>3. Done(p) => job'[p] = Idle
    BY DoneTyped
  <2>4. QED
    BY <1>2, <1>3, <1>5, <1>11, <2>1, <2>2, <2>3
<1>12. CASE AddAuthorizedKey(p)
  <2>1. \/ cont' = [cont EXCEPT ![k] = [x EXCEPT !.keys = x.keys \cup job[p].keys]]
        \/ cont' = cont
    BY <1>1, <1>2, <1>12 DEF AddAuthorizedKey, Fails
  <2>2. QED
    BY <1>2, <1>3, <1>6, <1>12, <2>1
<1>13. CASE StoreResources(p) \/ RestoreSnapshot(p)
  <2>1. cont' = cont
    BY <1>13 DEF StoreResources, RestoreSnapshot
  <2>2. QED
    BY <1>2, <1>3, <1>13, <2>1
<1>14. QED
  BY <1>7, <1>8, <1>9, <1>10, <1>11, <1>12, <1>13 DEF PlainStep

\* No step of a request makes the container it works on, nor takes it away.
LEMMA BodyStays ==
    ASSUME TypeOK, OnTrack, NEW p \in Jobs, Step(p), NEW i \in Insts \ loose', i = job[p].id, Settled(i)
    PROVE  Body(i, job[p])'.of = Body(i, job[p]).of
<1>1. CASE CalmStep(p)
  BY <1>1, CalmSteps DEF Calmly
<1>2. CASE WriteName(p) \/ WriteOwner(p)
  <2>1. /\ cont' = cont /\ row'[i].key = row[i].key /\ job[p].pc # "record"
        /\ job'[p] = Idle \/ job'[p].pc \in {"rename", "host"}
    BY <1>2, WriteStep
  <2>2. Body(i, job[p]) = cont[row[i].key] /\ Body(i, job[p])' = cont[row[i].key]
    BY <2>1 DEF Body, Idle
  <2>3. QED
    BY <2>2
<1>3. CASE PlainStep(p)
  <2>1. Body(i, job[p]) = cont[row[i].key] /\ Body(i, job[p])' = cont'[row[i].key]
    BY <1>3, PlainSteps
  <2>2. ASSUME NEW a, a = cont[row[i].key], NEW b, b = cont'[row[i].key] PROVE b.of = a.of
    BY <1>3, <2>2, PlainContainer
  <2>3. QED
    BY <2>1, <2>2
<1>4. QED
  BY <1>1, <1>2, <1>3 DEF Step, CalmStep, PlainStep

LEMMA ConfigHere ==
    ASSUME TypeOK, OnTrack, NEW p \in Jobs, Step(p), NEW i \in Insts \ (loose' \cup behind'), i = job[p].id,
           Settled(i), ConfigSettled(i)
    PROVE  ConfigSettled(i)'
<1>1. p \in OnInst(i) /\ job[p] \in Request
  BY StepRequest DEF OnInst, Busy
<1>2. ConfigFits(Body(i, job[p]), row[i], job[p])
  BY <1>1 DEF ConfigSettled
<1>3. SUFFICES ConfigFits(Body(i, job[p]), row[i], job[p])'
  BY ConfigAfter
<1> DEFINE j == job[p]
           x == Body(i, j)
           r == row[i]
           g == job'[p]
           y == Body(i, job[p])'
           s == row'[i]
<1>4. SUFFICES ASSUME y.of # None PROVE HostFits(y, s, g) /\ LimitFits(y, s, g)
  BY DEF ConfigFits, HostFits, LimitFits, Between
<1>5. HostFits(x, r, j) /\ LimitFits(x, r, j)
  BY <1>2, <1>4, BodyStays DEF ConfigFits
<1>6. CASE CalmStep(p)
  <2>1. Calmly(p, i)
    BY <1>6, CalmSteps
  <2>2. /\ s.owner = r.owner /\ s.name = r.name /\ s.limit = r.limit
        /\ y.host = x.host /\ y.limit = x.limit /\ j.pc \in Renaming
        /\ \/ g = Idle /\ j.op \in {"start", "stop"}
           \/ Same(j, g) /\ g.name = j.name /\ g.pc \in Renaming
    BY <2>1 DEF Calmly
  <2> HIDE DEF j, x, r, g, y, s
  <2>3. HostFits(y, s, g)
    BY <1>5, <2>2 DEF HostFits, Between, Same, Idle, Renaming
  <2>4. LimitFits(y, s, g)
    BY <1>5, <2>2 DEF LimitFits, Same, Idle, Renaming
  <2>5. QED
    BY <2>3, <2>4
<1>7. CASE WriteName(p) \/ WriteOwner(p)
  <2>1. /\ cont' = cont /\ s.key = r.key /\ s.limit = r.limit /\ s.name = j.host
        /\ (j.pc = "name" /\ j.op = "rename") \/ (j.pc = "owner" /\ j.op = "transfer")
        /\ Same(j, g) /\ g.pc \in {"rename", "host"} /\ (g.op = "transfer" => g.name = j.name)
    BY <1>7, WriteStep
  <2>2. x = cont[r.key] /\ y = cont[r.key]
    BY <2>1 DEF Body
  <2> HIDE DEF j, x, r, g, y, s
  <2>3. x.host = r.name /\ x.limit = Effective(r.limit) /\ (j.pc = "owner" => j.name = r.name)
    BY <1>5, <2>1 DEF HostFits, LimitFits, Between, Renaming
  <2>4. g.op = j.op /\ g.host = j.host
    BY <2>1 DEF Same
  <2>5. HostFits(y, s, g)
    BY <2>1, <2>2, <2>3, <2>4 DEF HostFits, Between, Renaming
  <2>6. LimitFits(y, s, g)
    BY <2>1, <2>2, <2>3 DEF LimitFits
  <2>7. QED
    BY <2>5, <2>6
<1>8. CASE PlainStep(p)
  <2>1. /\ s.key = r.key /\ s.owner = r.owner /\ s.name = r.name
        /\ s.limit = IF StoreResources(p) THEN j.limit ELSE r.limit
        /\ x = cont[r.key] /\ y = cont'[r.key]
        /\ \/ g = Idle
           \/ /\ Same(j, g) /\ g.pc \in {"install", "revoke", "store"}
              /\ g.pc = "store" => UpdateIncusConfig(p)
              /\ g.pc = "install" => SetHost(p)
              /\ g.pc = "revoke" => InstallKeys(p)
    BY <1>8, PlainSteps
  <2>2. /\ IF SetHost(p) THEN \/ y.host = j.host
                              \/ y.host = x.host /\ j.op = "transfer" /\ j.host = j.name
           ELSE y.host = x.host
        /\ IF ApplyResources(p) THEN y.limit = Effective(j.limit)
           ELSE IF UpdateIncusConfig(p) THEN \/ y.limit = j.limit /\ j.limit # Unset /\ g # Idle
                                             \/ y.limit = x.limit /\ g = Idle
           ELSE y.limit = x.limit
    BY <1>8, <2>1, PlainContainer
  <2>3. /\ SetHost(p) => j.pc = "host" /\ j.op \in {"rename", "transfer"}
        /\ InstallKeys(p) => j.pc = "install"
        /\ RevokeKeys(p) => j.pc = "revoke"
        /\ ApplyResources(p) => j.pc = "apply"
        /\ UpdateIncusConfig(p) => j.pc = "raw"
        /\ StoreResources(p) => j.pc = "store"
        /\ AddAuthorizedKey(p) => j.pc = "add"
        /\ RestoreSnapshot(p) => j.pc = "restore"
        /\ SetHost(p) \/ InstallKeys(p) \/ RevokeKeys(p) \/ ApplyResources(p) \/ UpdateIncusConfig(p)
             \/ StoreResources(p) \/ AddAuthorizedKey(p) \/ RestoreSnapshot(p)
    BY <1>1, <1>8, TrackFacts DEF SetHost, InstallKeys, RevokeKeys, ApplyResources, UpdateIncusConfig, StoreResources,
         AddAuthorizedKey, RestoreSnapshot, PlainStep
  <2> HIDE DEF j, x, r, g, y, s
  <2>4. y.host = s.name
    <3>1. CASE SetHost(p)
      <4>1. Between(j)
        BY <2>3, <3>1 DEF Between, Renaming
      <4>2. QED
        BY <1>5, <2>1, <2>2, <3>1, <4>1 DEF HostFits
    <3>2. CASE ~SetHost(p)
      <4>1. ~Between(j)
        BY <2>3, <3>2 DEF Between, Renaming
      <4>2. QED
        BY <1>5, <2>1, <2>2, <3>2, <4>1 DEF HostFits
    <3>3. QED
      BY <3>1, <3>2
  <2>5. HostFits(y, s, g)
    BY <2>1, <2>4 DEF HostFits, Between, Renaming, Idle
  <2>6. LimitFits(y, s, g)
    <3>1. CASE ApplyResources(p)
      <4>1. g = Idle /\ y.limit = Effective(j.limit) /\ s.limit = r.limit /\ j.pc = "apply"
        BY <2>1, <2>2, <2>3, <3>1
      <4>2. r.limit = j.limit
        BY <1>5, <4>1 DEF LimitFits
      <4>3. QED
        BY <4>1, <4>2 DEF LimitFits, Idle
    <3>2. CASE UpdateIncusConfig(p)
      <4>1. x.limit = Effective(r.limit) /\ s.limit = r.limit
        BY <1>5, <2>1, <2>3, <3>2 DEF LimitFits
      <4>2. CASE g = Idle
        BY <2>2, <2>3, <3>2, <4>1, <4>2 DEF LimitFits, Idle
      <4>3. CASE g # Idle
        <5>1. g.pc = "store" /\ g.limit = j.limit
          BY <2>1, <2>3, <3>2, <4>3 DEF Same
        <5>2. QED
          BY <2>2, <2>3, <3>2, <4>3, <5>1 DEF LimitFits
      <4>4. QED
        BY <4>2, <4>3
    <3>3. CASE StoreResources(p)
      <4>1. x.limit = j.limit /\ j.limit # Unset
        BY <1>5, <2>3, <3>3 DEF LimitFits
      <4>2. g = Idle /\ y.limit = x.limit /\ s.limit = j.limit
        BY <2>1, <2>2, <2>3, <3>3
      <4>3. QED
        BY <4>1, <4>2 DEF LimitFits, Effective, Idle
    <3>4. CASE ~ApplyResources(p) /\ ~UpdateIncusConfig(p) /\ ~StoreResources(p)
      <4>1. x.limit = Effective(r.limit) /\ s.limit = r.limit /\ y.limit = x.limit
        BY <1>5, <2>1, <2>2, <2>3, <3>4 DEF LimitFits
      <4>2. g.pc \notin {"apply", "store"}
        BY <2>1, <3>4 DEF Idle
      <4>3. QED
        BY <4>1, <4>2 DEF LimitFits
    <3>5. QED
      BY <3>1, <3>2, <3>3, <3>4
  <2>7. QED
    BY <2>5, <2>6
<1>9. QED
  BY <1>6, <1>7, <1>8 DEF Step, CalmStep, PlainStep

LEMMA KeysHere ==
    ASSUME TypeOK, OnTrack, NEW p \in Jobs, Step(p), NEW i \in Insts \ (loose' \cup kept'), i = job[p].id,
           Settled(i), KeysSettled(i)
    PROVE  KeysSettled(i)'
<1>1. p \in OnInst(i) /\ job[p] \in Request
  BY StepRequest DEF OnInst, Busy
<1>2. KeysFit(Body(i, job[p]), row[i], job[p], own, Gone(i))
  BY <1>1 DEF KeysSettled
<1>3. SUFFICES KeysFit(Body(i, job[p]), row[i], job[p], own, Gone(i))'
  BY KeysAfter
<1> DEFINE j == job[p]
           x == Body(i, j)
           r == row[i]
           g == job'[p]
           y == Body(i, job[p])'
           s == row'[i]
           G == Gone(i)
           H == Gone(i)'
<1>4. SUFFICES ASSUME y.of # None PROVE KeysIn(y, s, g, own, H)
  BY StepHistory DEF KeysFit, KeysIn
<1>5. KeysIn(x, r, j, own, G)
  BY <1>2, <1>4, BodyStays DEF KeysFit
<1>0. (~RevokeKeys(p) => H = G) /\ (RevokeKeys(p) => G \ j.keys \subseteq H)
  BY StepHistory
<1>6. CASE CalmStep(p)
  <2>1. Calmly(p, i)
    BY <1>6, CalmSteps
  <2>2. /\ s.owner = r.owner /\ y.keys = x.keys /\ j.pc \in Renaming
        /\ \/ g = Idle /\ j.op \in {"start", "stop"}
           \/ Same(j, g) /\ g.pc \in Renaming
    BY <2>1 DEF Calmly
  <2>0. H = G
    BY <1>0, <1>6 DEF CalmStep, CheckKey, StopInstance, Stopped, MoveContainer, RecordKey, StartInstance, Started,
                      RevokeKeys
  <2> HIDE DEF j, x, r, g, y, s, G, H
  <2>3. CASE g = Idle
    BY <1>5, <2>0, <2>2, <2>3 DEF KeysIn, Idle, Same
  <2>4. CASE Same(j, g)
    <3>1. g.op = j.op /\ g.user = j.user /\ g.keys = j.keys /\ {j.pc, g.pc} \cap {"owner", "add"} = {}
      BY <2>2, <2>4 DEF Same, Renaming, Idle
    <3>2. CASE j.op = "transfer"
      <4>1. x.keys \subseteq own[j.user] \cup j.keys \cup G /\ r.owner = j.user
        BY <1>5, <3>1, <3>2 DEF KeysIn
      <4>2. QED
        BY <2>0, <2>2, <3>1, <3>2, <4>1 DEF KeysIn
    <3>3. CASE j.op # "transfer"
      <4>1. x.keys \subseteq own[r.owner] \cup G
        BY <1>5, <3>3 DEF KeysIn
      <4>2. QED
        BY <2>0, <2>2, <3>1, <3>3, <4>1 DEF KeysIn
    <3>4. QED
      BY <3>2, <3>3
  <2>5. QED
    BY <2>2, <2>3, <2>4
<1>7. CASE WriteName(p) \/ WriteOwner(p)
  <2>1. /\ cont' = cont /\ s.key = r.key
        /\ \/ j.pc = "name" /\ j.op = "rename" /\ s.owner = r.owner
           \/ j.pc = "owner" /\ j.op = "transfer" /\ s.owner = j.user
        /\ Same(j, g) /\ g.pc \in {"rename", "host"}
    BY <1>7, WriteStep
  <2>2. x = cont[r.key] /\ y = cont[r.key]
    BY <2>1 DEF Body
  <2>0. H = G
    BY <1>0, <1>7 DEF WriteName, WriteOwner, RevokeKeys
  <2> HIDE DEF j, x, r, g, y, s, G, H
  <2>3. QED
    BY <1>5, <2>0, <2>1, <2>2 DEF KeysIn, Same
<1>8. CASE PlainStep(p)
  <2>1. /\ s.owner = r.owner /\ x = cont[r.key] /\ y = cont'[r.key]
        /\ \/ g = Idle
           \/ /\ Same(j, g) /\ g.pc \in {"install", "revoke", "store"}
              /\ g.pc = "install" => SetHost(p) /\ j.op = "transfer"
              /\ g.pc = "revoke" => InstallKeys(p) /\ j.op = "transfer"
              /\ g.pc = "store" => UpdateIncusConfig(p) /\ j.op \notin {"rename", "transfer"}
    BY <1>8, PlainSteps
  <2>2. IF InstallKeys(p) THEN y.keys \subseteq x.keys \cup own[j.user]
        ELSE IF RevokeKeys(p) THEN y.keys = x.keys \ j.keys
        ELSE IF AddAuthorizedKey(p) THEN y.keys \subseteq x.keys \cup j.keys
        ELSE y.keys = x.keys
    <3>1. ASSUME NEW a, a = cont[row[i].key], NEW b, b = cont'[row[i].key]
          PROVE  IF InstallKeys(p) THEN b.keys \subseteq a.keys \cup own[job[p].user]
                 ELSE IF RevokeKeys(p) THEN b.keys = a.keys \ job[p].keys
                 ELSE IF AddAuthorizedKey(p) THEN b.keys \subseteq a.keys \cup job[p].keys
                 ELSE b.keys = a.keys
      <4>1. IF InstallKeys(p) THEN b.keys \subseteq a.keys \cup own[job[p].user]
            ELSE IF RevokeKeys(p) THEN b.keys = a.keys \ job[p].keys \/ i \in kept'
            ELSE IF AddAuthorizedKey(p) THEN b.keys \subseteq a.keys \cup job[p].keys
            ELSE b.keys = a.keys
        BY <1>8, <3>1, PlainContainer
      <4>2. i \notin kept'
        OBVIOUS
      <4>3. QED
        BY <4>1, <4>2
    <3>2. QED
      BY <2>1, <3>1
  <2>3. /\ SetHost(p) => j.pc = "host" /\ j.op \in {"rename", "transfer"}
        /\ InstallKeys(p) => j.pc = "install" /\ j.op = "transfer" /\ (g = Idle => j.keys = {})
        /\ RevokeKeys(p) => j.pc = "revoke" /\ j.op = "transfer"
        /\ AddAuthorizedKey(p) => j.pc = "add" /\ j.op # "transfer"
        /\ ApplyResources(p) \/ UpdateIncusConfig(p) \/ StoreResources(p) \/ RestoreSnapshot(p)
             => j.op # "transfer" /\ j.pc # "add"
        /\ SetHost(p) => j.op = "rename" \/ g # Idle
    <3>1. /\ SetHost(p) => j.pc = "host"
          /\ InstallKeys(p) => j.pc = "install"
          /\ RevokeKeys(p) => j.pc = "revoke"
          /\ AddAuthorizedKey(p) => j.pc = "add"
          /\ ApplyResources(p) \/ UpdateIncusConfig(p) \/ StoreResources(p) \/ RestoreSnapshot(p)
               => j.pc \in {"apply", "raw", "store", "restore"}
      BY DEF SetHost, InstallKeys, RevokeKeys, ApplyResources, UpdateIncusConfig, StoreResources,
             AddAuthorizedKey, RestoreSnapshot
    <3>2. InstallKeys(p) => g # Idle \/ j.keys = {}
      <4>1. InstallKeys(p) => Goto(p, "revoke") \/ j.keys = {}
        BY DEF InstallKeys
      <4>2. Goto(p, "revoke") => g.pc = "revoke"
        BY <1>1, SameGoto DEF Labels
      <4>3. QED
        BY <4>1, <4>2 DEF Idle
    <3>3. SetHost(p) => j.op = "rename" \/ g # Idle
      <4>1. SetHost(p) => j.op = "rename" \/ Goto(p, "install") \/ i \in kept'
        BY DEF SetHost, AfterHost
      <4>2. Goto(p, "install") => g.pc = "install"
        BY <1>1, SameGoto DEF Labels
      <4>3. QED
        BY <4>1, <4>2 DEF Idle
    <3>4. QED
      BY <1>1, <3>1, <3>2, <3>3, TrackFacts
  <2>4. SetHost(p) \/ InstallKeys(p) \/ RevokeKeys(p) \/ ApplyResources(p) \/ UpdateIncusConfig(p)
             \/ StoreResources(p) \/ AddAuthorizedKey(p) \/ RestoreSnapshot(p)
    BY <1>8 DEF PlainStep
  <2>5. /\ SetHost(p) => ~InstallKeys(p) /\ ~RevokeKeys(p) /\ ~AddAuthorizedKey(p)
        /\ RevokeKeys(p) => ~InstallKeys(p)
        /\ AddAuthorizedKey(p) => ~InstallKeys(p) /\ ~RevokeKeys(p)
        /\ ApplyResources(p) \/ UpdateIncusConfig(p) \/ StoreResources(p) \/ RestoreSnapshot(p)
             => ~InstallKeys(p) /\ ~RevokeKeys(p) /\ ~AddAuthorizedKey(p) /\ ~SetHost(p)
    BY DEF SetHost, InstallKeys, RevokeKeys, ApplyResources, UpdateIncusConfig, StoreResources,
             AddAuthorizedKey, RestoreSnapshot
  <2>0. (~RevokeKeys(p) => H = G) /\ (RevokeKeys(p) => G \ j.keys \subseteq H)
    BY <1>0
  <2> HIDE DEF j, x, r, g, y, s, G, H
  <2>6. CASE SetHost(p)
    <3>1. y.keys = x.keys
      BY <2>2, <2>5, <2>6
    <3>2. CASE g = Idle
      BY <1>5, <2>0, <2>1, <2>3, <2>5, <2>6, <3>1, <3>2 DEF KeysIn, Idle
    <3>3. CASE g # Idle
      BY <1>5, <2>0, <2>1, <2>3, <2>5, <2>6, <3>1, <3>3 DEF KeysIn, Same
    <3>4. QED
      BY <3>2, <3>3
  <2>7. CASE InstallKeys(p)
    <3>1. x.keys \subseteq own[j.user] \cup j.keys \cup G /\ r.owner = j.user
      BY <1>5, <2>3, <2>7 DEF KeysIn
    <3>2. y.keys \subseteq own[j.user] \cup j.keys \cup G
      BY <2>2, <2>7, <3>1
    <3>3. CASE g = Idle
      BY <2>0, <2>5, <2>1, <2>3, <2>7, <3>1, <3>2, <3>3 DEF KeysIn, Idle
    <3>4. CASE g # Idle
      BY <2>0, <2>1, <2>3, <2>5, <2>7, <3>1, <3>2, <3>4 DEF KeysIn, Same
    <3>5. QED
      BY <3>3, <3>4
  <2>8. CASE RevokeKeys(p)
    <3>1. x.keys \subseteq own[j.user] \cup j.keys \cup G /\ r.owner = j.user
      BY <1>5, <2>3, <2>8 DEF KeysIn
    <3>2. y.keys \subseteq own[r.owner] \cup H
      BY <2>0, <2>2, <2>5, <2>8, <3>1
    <3>3. g = Idle
      BY <2>1, <2>3, <2>5, <2>8
    <3>4. QED
      BY <2>1, <3>2, <3>3 DEF KeysIn, Idle
  <2>9. CASE AddAuthorizedKey(p)
    <3>1. y.keys \subseteq own[r.owner] \cup G
      BY <1>5, <2>2, <2>3, <2>5, <2>9 DEF KeysIn
    <3>2. g = Idle
      BY <2>1, <2>3, <2>5, <2>9
    <3>3. QED
      BY <2>0, <2>1, <2>5, <2>9, <3>1, <3>2 DEF KeysIn, Idle
  <2>10. CASE ApplyResources(p) \/ UpdateIncusConfig(p) \/ StoreResources(p) \/ RestoreSnapshot(p)
    <3>1. y.keys = x.keys /\ j.op # "transfer" /\ x.keys \subseteq own[r.owner] \cup G
      BY <1>5, <2>2, <2>3, <2>5, <2>10 DEF KeysIn
    <3>2. g = Idle \/ (g.pc = "store" /\ g.op # "transfer")
      BY <2>1, <2>5, <2>10, <3>1 DEF Same
    <3>3. QED
      BY <2>0, <2>1, <2>5, <2>10, <3>1, <3>2 DEF KeysIn, Idle
  <2>11. QED
    BY <2>4, <2>6, <2>7, <2>8, <2>9, <2>10
<1>9. QED
  BY <1>6, <1>7, <1>8 DEF Step, CalmStep, PlainStep

\* Steps for other instances leave row, requests and container alone.
LEMMA BodyElsewhere ==
    ASSUME TypeOK, NEW p \in Jobs, Step(p), NEW i \in Insts \ loose', i # job[p].id, Exists(i), Settled(i)
    PROVE  /\ row'[i] = row[i] /\ OnInst(i)' = OnInst(i)
           /\ \A q \in OnInst(i) : job'[q] = job[q] /\ Body(i, job[q])' = Body(i, job[q])
           /\ OnInst(i) = {} => Body(i, Idle)' = Body(i, Idle)
<1>1. row'[i] = row[i] /\ row[i].key \in IncusNames
  BY OwnRow DEF TypeOK, Row
<1>2. /\ \A k \in IncusNames : cont[k].of = i => cont'[k] = cont[k]
      /\ cont[row[i].key].of = None => cont'[row[i].key] = cont[row[i].key]
  BY OwnContainer
<1>3. OnInst(i)' = OnInst(i) /\ \A q \in OnInst(i) : q \in Jobs /\ job'[q] = job[q]
  BY StepJobs, StepRequest DEF OnInst, Busy, Idle
<1>4. ASSUME NEW q \in OnInst(i) PROVE Body(i, job[q])' = Body(i, job[q])
  <2>1. job'[q] = job[q] /\ job[q] \in Request /\ At(q, i)
    BY <1>3, BusyJob DEF OnInst, Busy, Settled
  <2>2. NewKey(job[q]) \in IncusNames /\ NewKey(job[q])' = NewKey(job[q])
    BY <2>1, RequestFields DEF NewKey
  <2>3. IF job[q].pc = "record" THEN cont[NewKey(job[q])].of = i ELSE cont[row[i].key].of \in {i, None}
    BY <2>1 DEF At, Apart, Reached
  <2>4. QED
    BY <1>1, <1>2, <2>1, <2>2, <2>3 DEF Body
<1>5. OnInst(i) = {} => Body(i, Idle)' = Body(i, Idle)
  <2>1. OnInst(i) = {} => cont[row[i].key].of \in {i, None}
    BY DEF Settled, Reached, Coming
  <2>2. QED
    BY <1>1, <1>2, <2>1 DEF Body, Idle
<1>6. QED
  BY <1>1, <1>3, <1>4, <1>5

LEMMA ConfigElsewhere ==
    ASSUME TypeOK, NEW p \in Jobs, Step(p), NEW i \in Insts \ loose', i # job[p].id, Exists(i),
           Settled(i), ConfigSettled(i)
    PROVE  ConfigSettled(i)'
BY BodyElsewhere DEF ConfigSettled, ConfigFits, HostFits, LimitFits, Between
LEMMA KeysElsewhere ==
    ASSUME TypeOK, NEW p \in Jobs, Step(p), NEW i \in Insts \ loose', i # job[p].id, Exists(i),
           Settled(i), KeysSettled(i)
    PROVE  KeysSettled(i)'
BY BodyElsewhere, StepHistory DEF KeysSettled, KeysFit, KeysIn, Making

\* The beginning of a request, on i or on another instance.
LEMMA BegunBodies ==
    ASSUME TypeOK, NEW p \in Jobs, Begin(p), NEW h \in Insts, BeginRest(h), NEW j, BegunFit(p, h, j),
           NEW i \in Insts \ loose', Settled(i)
    PROVE  /\ cont' = cont /\ row'[i].key = row[i].key /\ row'[i].owner = row[i].owner
           /\ row'[i].name = row[i].name /\ job'[p] = j
           /\ h = i => /\ OnInst(i) = {} /\ OnInst(i)' = {p} /\ i \notin loose /\ ~Making(i)
                       /\ Body(i, Idle) = cont[row[i].key] /\ Body(i, job[p])' = cont[row[i].key]
           /\ h # i => /\ row'[i] = row[i] /\ OnInst(i)' = OnInst(i)
                       /\ \A q \in OnInst(i) : job'[q] = job[q] /\ Body(i, job[q])' = Body(i, job[q])
                       /\ Body(i, Idle)' = Body(i, Idle)
<1>1. j \in Request /\ j.id = h /\ p \notin Busy /\ Overlap(h) /\ j.pc # "record" /\ j.pc # "idle"
  BY RequestFields DEF BegunFit
<1>2. job'[p] = j /\ \A q \in Jobs \ {p} : job'[q] = job[q]
  BY <1>1, BecomeTyped DEF BegunFit
<1>3. /\ cont' = cont /\ row'[i].key = row[i].key /\ row'[i].owner = row[i].owner
      /\ row'[i].name = row[i].name
  BY BeginKeepsRows
<1>4. CASE h = i
  <2>1. OnInst(i) = {} /\ i \notin loose /\ ~Making(i)
    BY <1>1, <1>4 DEF Overlap
  <2>2. OnInst(i)' = {p}
    BY <1>1, <1>2, <1>4, <2>1 DEF OnInst, Busy
  <2>3. Body(i, Idle) = cont[row[i].key] /\ Body(i, job[p])' = cont[row[i].key]
    BY <1>1, <1>2, <1>3 DEF Body, Idle
  <2>4. QED
    BY <1>2, <1>3, <1>4, <2>1, <2>2, <2>3
<1>5. CASE h # i
  <2>1. row'[i] = row[i]
    BY <1>5 DEF BeginRest
  <2>2. OnInst(i)' = OnInst(i) /\ \A q \in OnInst(i) : job'[q] = job[q]
    BY <1>1, <1>2, <1>5 DEF OnInst, Busy
  <2>3. \A q \in OnInst(i) : Body(i, job[q])' = Body(i, job[q])
    BY <1>3, <2>1, <2>2 DEF Body, NewKey
  <2>4. Body(i, Idle)' = Body(i, Idle)
    BY <1>3, <2>1 DEF Body, Idle
  <2>5. QED
    BY <1>2, <1>3, <1>5, <2>1, <2>2, <2>3, <2>4
<1>6. QED
  BY <1>4, <1>5

LEMMA BegunConfig ==
    ASSUME TypeOK, NEW p \in Jobs, Begin(p), NEW h \in Insts, BeginRest(h), NEW j, BegunFit(p, h, j),
           NEW i \in Insts \ loose', Settled(i), ConfigSettled(i)
    PROVE  ConfigSettled(i)'
<1>1. CASE h # i
  BY <1>1, BegunBodies DEF ConfigSettled, ConfigFits, HostFits, LimitFits, Between
<1>2. CASE h = i
  <2> DEFINE x == cont[row[i].key]
             s == row'[i]
  <2>1. /\ OnInst(i) = {} /\ OnInst(i)' = {p} /\ job'[p] = j /\ Body(i, job[p])' = x /\ Body(i, Idle) = x
        /\ s.name = row[i].name
    BY <1>2, BegunBodies
  <2>2. x.of # None => x.host = row[i].name /\ x.limit = Effective(row[i].limit)
    BY <2>1 DEF ConfigSettled, ConfigFits, HostFits, LimitFits, Between, Idle
  <2>3. /\ ~Between(j) /\ j.pc # "store" /\ (j.pc = "owner" => j.name = row[i].name)
        /\ j.pc = "apply" => s.limit = j.limit
        /\ j.pc # "apply" => s.limit = row[i].limit
    BY <1>2 DEF BegunFit
  <2> HIDE DEF x, s
  <2>4. ConfigFits(x, s, j)
    <3>1. x.of # None => HostFits(x, s, j)
      BY <2>1, <2>2, <2>3 DEF HostFits
    <3>2. x.of # None => LimitFits(x, s, j)
      BY <2>2, <2>3 DEF LimitFits
    <3>3. QED
      BY <3>1, <3>2 DEF ConfigFits
  <2>5. ConfigFits(Body(i, job[p]), row[i], job[p])'
    BY <2>1, <2>4 DEF s, ConfigFits, HostFits, LimitFits, Between
  <2>6. QED
    BY <2>1, <2>5 DEF ConfigSettled
<1>3. QED
  BY <1>1, <1>2

LEMMA BegunKeys ==
    ASSUME TypeOK, NEW p \in Jobs, Begin(p), NEW h \in Insts, BeginRest(h), NEW j, BegunFit(p, h, j),
           NEW i \in Insts \ (loose' \cup kept'), Settled(i), KeysSettled(i)
    PROVE  KeysSettled(i)'
<1>0. /\ own' = own /\ making' = making /\ Gone(h) \subseteq Gone(h)'
      /\ h # i => Gone(i)' = Gone(i)
  BY DEF BeginRest
<1>1. CASE h # i
  BY <1>0, <1>1, BegunBodies DEF KeysSettled, KeysFit, KeysIn, Making
<1>2. CASE h = i
  <2> DEFINE x == cont[row[i].key]
             s == row'[i]
  <2>1. /\ OnInst(i) = {} /\ OnInst(i)' = {p} /\ job'[p] = j /\ Body(i, job[p])' = x /\ Body(i, Idle) = x
        /\ s.owner = row[i].owner /\ ~Making(i)
    BY <1>2, BegunBodies
  <2>2. x.of # None => x.keys \subseteq own[row[i].owner] \cup Gone(i)'
    <3>1. x.of # None => x.keys \subseteq own[row[i].owner] \cup Gone(i)
      BY <2>1 DEF KeysSettled, KeysFit, KeysIn, Idle
    <3>2. QED
      BY <1>0, <1>2, <3>1
  <2>3. /\ j.pc = "add" => j.keys \subseteq own[row[i].owner] \cup Gone(i)'
        /\ j.op = "transfer" => j.pc = "owner" /\ own[row[i].owner] \subseteq own[j.user] \cup j.keys
    BY <1>2 DEF BegunFit
  <2> DEFINE H == Gone(i)'
  <2> HIDE DEF x, s, H
  <2>4. KeysFit(x, s, j, own, H)
    BY <2>1, <2>2, <2>3 DEF KeysFit, KeysIn, H
  <2>5. KeysFit(Body(i, job[p]), row[i], job[p], own, Gone(i))'
    BY <1>0, <2>1, <2>4 DEF s, KeysFit, KeysIn, H
  <2>6. QED
    BY <1>0, <2>1, <2>5 DEF KeysSettled, Making
<1>3. QED
  BY <1>1, <1>2

LEMMA FitInit == Init => ConfigInv /\ KeysInv
<1> SUFFICES ASSUME Init, NEW i \in Insts, Exists(i) PROVE ConfigSettled(i) /\ KeysSettled(i)
  BY DEF ConfigInv, KeysInv
<1>1. OnInst(i) = {} /\ ~Making(i)
  BY DEF Init, OnInst, Busy, Idle, Making
<1>2. i \in DOMAIN Given
  BY NoRowTyped DEF Init, Exists
<1>3. Given[i] \in IncusNames
  BY <1>2, GivenAssumption DEF IncusNames, Names
<1>4. row[i].key = Given[i] /\ row[i].owner = Given[i][1] /\ row[i].name = Given[i][2] /\ row[i].limit = Unset
  BY <1>2 DEF Init
<1>5. cont[Given[i]].host = Given[i][2] /\ cont[Given[i]].limit = Template
      /\ cont[Given[i]].keys = GivenKeys[Given[i][1]] /\ own = GivenKeys
  BY <1>2, <1>3 DEF Init
<1>6. Body(i, Idle) = cont[Given[i]]
  BY <1>4 DEF Body, Idle
<1>7. ConfigFits(Body(i, Idle), row[i], Idle)
  BY <1>4, <1>5, <1>6 DEF ConfigFits, HostFits, LimitFits, Between, Effective, Idle
<1>8. KeysFit(Body(i, Idle), row[i], Idle, own, Gone(i))
  BY <1>4, <1>5, <1>6 DEF KeysFit, KeysIn, Idle
<1>9. QED
  BY <1>1, <1>7, <1>8 DEF ConfigSettled, KeysSettled

\* A creation that begins or ends does nothing to the other instances.
LEMMA CreateElsewhere ==
    ASSUME TypeOK, NEW i \in Insts, NEW u \in Users, NEW n \in Names, NEW l \in Limits \cup {Unset},
           CreateAsync(i, u, n, l), NEW h \in Insts \ {i}
    PROVE  /\ row'[h] = row[h] /\ making'[h] = making[h] /\ OnInst(h)' = OnInst(h) /\ job' = job
           /\ \A q \in OnInst(h) : Body(h, job[q])' = Body(h, job[q])
           /\ Body(h, Idle)' = Body(h, Idle)
<1>1. /\ row'[h] = row[h] /\ cont' = cont /\ job' = job
      /\ making' = [making EXCEPT ![i] = [key |-> <<u, n>>, host |-> n, limit |-> l, keys |-> own[u]]]
  BY CreateRow DEF CreateAsync
<1>2. making'[h] = making[h]
  BY <1>1 DEF TypeOK
<1>3. QED
  BY <1>1, <1>2 DEF Body, NewKey, Idle, OnInst, Busy
LEMMA FinishElsewhere ==
    ASSUME TypeOK, NEW i \in Insts, Finished(i), NEW h \in Insts \ loose', h # i, Exists(h), Settled(h)
    PROVE  /\ row'[h] = row[h] /\ making'[h] = making[h] /\ OnInst(h)' = OnInst(h) /\ job' = job
           /\ \A q \in OnInst(h) : Body(h, job[q])' = Body(h, job[q])
           /\ OnInst(h) = {} => Body(h, Idle)' = Body(h, Idle)
<1> DEFINE c == making[i]
<1>1. /\ row'[h] = row[h] /\ making' = [making EXCEPT ![i] = NoCreation] /\ job' = job
      /\ c.key \in IncusNames /\ row[h].key \in IncusNames
  BY DEF Finished, Creation, TypeOK, Row
<1>2. making'[h] = making[h] /\ OnInst(h)' = OnInst(h)
  BY <1>1 DEF TypeOK, OnInst, Busy
<1>3. \/ cont' = cont
      \/ /\ ~Live(c.key) /\ row[h].key # c.key
         /\ \A k \in IncusNames \ {c.key} : cont'[k] = cont[k]
  BY DEF Finished, Shadowed
<1>4. /\ \A k \in IncusNames : cont[k].of = h => cont'[k] = cont[k]
      /\ cont'[row[h].key] = cont[row[h].key]
  BY <1>1, <1>3, Bounds DEF Live
<1>5. Body(h, Idle)' = Body(h, Idle)
  BY <1>1, <1>4 DEF Body, Idle
<1>6. ASSUME NEW q \in OnInst(h) PROVE Body(h, job[q])' = Body(h, job[q])
  <2>1. job[q] \in Request /\ At(q, h)
    BY BusyJob DEF OnInst, Busy, Settled
  <2>2. NewKey(job[q]) \in IncusNames /\ NewKey(job[q])' = NewKey(job[q])
    BY <1>1, <2>1, RequestFields DEF NewKey
  <2>3. job[q].pc = "record" => cont[NewKey(job[q])].of = h
    BY <2>1 DEF At
  <2>4. QED
    BY <1>1, <1>4, <2>2, <2>3 DEF Body
<1>7. QED
  BY <1>1, <1>2, <1>5, <1>6

\* A creation that ends has made what the row says, with keys of the owner.
LEMMA FinishBody ==
    ASSUME TypeOK, NEW i \in Insts \ loose', Finished(i), Settled(i)
    PROVE  /\ OnInst(i)' = {} /\ ~Making(i)' /\ row'[i].owner = row[i].owner
           /\ Body(i, Idle)'.of # None =>
                /\ Body(i, Idle)'.host = row'[i].name /\ Body(i, Idle)'.limit = Effective(row'[i].limit)
                /\ Body(i, Idle)'.keys \subseteq making[i].keys
<1> DEFINE c == making[i]
<1>1. /\ Coming(i) /\ row'[i].key = c.key /\ row'[i].name = c.host /\ row'[i].limit = c.limit
      /\ row'[i].owner = row[i].owner /\ job' = job
  BY DEF Settled, Finished, Coming
<1>2. OnInst(i)' = {} /\ ~Making(i)'
  BY <1>1 DEF Coming, OnInst, Busy, Making, Finished, TypeOK
<1>3. Body(i, Idle)' = cont'[c.key]
  BY <1>1 DEF Body, Idle
<1>4. \/ /\ cont'[c.key].host = c.host /\ cont'[c.key].limit = Effective(c.limit)
         /\ cont'[c.key].keys \subseteq c.keys
      \/ cont'[c.key].of = None
  BY <1>1 DEF Finished, Coming
<1>5. QED
  BY <1>1, <1>2, <1>3, <1>4

LEMMA ConfigNext ==
    ASSUME TypeOK, AllSettled, OnTrack, ConfigInv, [Next]_vars PROVE ConfigInv'
<1>1. ASSUME NEW p \in Jobs, Step(p) PROVE ConfigInv'
  <2> SUFFICES ASSUME NEW i \in Insts \ (loose' \cup behind'), Exists(i)' PROVE ConfigSettled(i)'
    BY DEF ConfigInv
  <2>1. Settled(i) /\ ConfigSettled(i) /\ Exists(i)
    BY <1>1, LooseGrows, StepHistory, StepExists DEF AllSettled, ConfigInv
  <2>2. QED
    BY <1>1, <2>1, ConfigHere, ConfigElsewhere
<1>2. ASSUME NEW p \in Jobs, Begin(p) PROVE ConfigInv'
  <2>0. PICK h \in Insts : BeginRest(h) /\ \E j : BegunFit(p, h, j)
    BY <1>2, BeginFits
  <2>1. PICK j : BegunFit(p, h, j)
    BY <2>0
  <2> SUFFICES ASSUME NEW i \in Insts \ (loose' \cup behind'), Exists(i)' PROVE ConfigSettled(i)'
    BY DEF ConfigInv
  <2>2. loose \subseteq loose' /\ behind' = behind /\ Exists(i)
    BY <1>2, <2>0, <2>1, BeginKeepsRows DEF BegunFit, Overlap, BeginRest, Exists
  <2>3. Settled(i) /\ ConfigSettled(i)
    BY <2>2 DEF AllSettled, ConfigInv
  <2>4. QED
    BY <1>2, <2>0, <2>1, <2>3, BegunConfig
<1>3. CASE Crash
  <2> SUFFICES ASSUME NEW i \in Insts \ (loose' \cup behind'), Exists(i)' PROVE ConfigSettled(i)'
    BY DEF ConfigInv
  <2>1. i \notin loose /\ i \notin behind /\ OnInst(i) = {} /\ Exists(i)
    BY <1>3 DEF Crash, OnInst, Exists
  <2>2. ConfigFits(Body(i, Idle), row[i], Idle)
    BY <2>1 DEF ConfigInv, ConfigSettled
  <2>3. OnInst(i)' = {} /\ row' = row /\ cont' = cont
    BY <1>3 DEF Crash, OnInst, Busy, Idle
  <2>4. QED
    BY <2>2, <2>3 DEF ConfigSettled, ConfigFits, HostFits, LimitFits, Between, Body, Idle
<1>4. CASE UNCHANGED vars \/ \E u \in Users, k \in Keys : CreateSSHKey(u, k) \/ DeleteSSHKey(u, k)
  <2>1. row' = row /\ cont' = cont /\ job' = job /\ loose' = loose /\ behind' = behind
    BY <1>4 DEF vars, history, CreateSSHKey, DeleteSSHKey
  <2>2. QED
    BY <2>1 DEF ConfigInv, ConfigSettled, ConfigFits, HostFits, LimitFits, Between, Body, OnInst, Busy, NewKey,
                Exists
<1>5. ASSUME NEW i \in Insts, NEW u \in Users, NEW n \in Names, NEW l \in Limits \cup {Unset},
             CreateAsync(i, u, n, l)
      PROVE  ConfigInv'
  <2> SUFFICES ASSUME NEW h \in Insts \ (loose' \cup behind'), Exists(h)' PROVE ConfigSettled(h)'
    BY DEF ConfigInv
  <2>1. loose \subseteq loose' /\ behind' = behind /\ h \notin loose /\ h \notin behind
    BY <1>5 DEF CreateAsync
  <2>2. CASE h = i
    <3>1. OnInst(i)' = {} /\ Body(i, Idle)'.of = None
      <4>1. row'[i].key = <<u, n>> /\ ~Exists(i)
        BY <1>5, CreateRow DEF Exists
      <4>2. cont' = cont /\ job' = job /\ ~Live(<<u, n>>)
        BY <1>5, <2>1, <2>2 DEF CreateAsync
      <4>3. QED
        BY <4>1, <4>2, TypeParts DEF OnInst, Busy, Linked, Body, Idle, Live
    <3>2. QED
      BY <2>2, <3>1 DEF ConfigSettled, ConfigFits
  <2>3. CASE h # i
    <3>1. /\ row'[h] = row[h] /\ OnInst(h)' = OnInst(h) /\ job' = job
          /\ \A q \in OnInst(h) : Body(h, job[q])' = Body(h, job[q])
          /\ Body(h, Idle)' = Body(h, Idle)
      BY <1>5, <2>3, CreateElsewhere
    <3>2. ConfigSettled(h)
      BY <2>1, <3>1 DEF ConfigInv, Exists
    <3>3. QED
      BY <3>1, <3>2 DEF ConfigSettled, ConfigFits, HostFits, LimitFits, Between
  <2>4. QED
    BY <2>2, <2>3
<1>6. ASSUME NEW i \in Insts, FinishCreate(i) PROVE ConfigInv'
  <2>0. Finished(i)
    BY <1>6, FinishFacts
  <2> SUFFICES ASSUME NEW h \in Insts \ (loose' \cup behind'), Exists(h)' PROVE ConfigSettled(h)'
    BY DEF ConfigInv
  <2>1. h \notin loose /\ h \notin behind /\ Exists(h)
    BY <2>0 DEF Finished, Exists
  <2>2. Settled(h) /\ ConfigSettled(h)
    BY <2>1 DEF AllSettled, ConfigInv
  <2>3. CASE h = i
    <3>1. /\ OnInst(i)' = {}
          /\ Body(i, Idle)'.of # None =>
               Body(i, Idle)'.host = row'[i].name /\ Body(i, Idle)'.limit = Effective(row'[i].limit)
      BY <2>0, <2>2, <2>3, FinishBody
    <3>2. QED
      BY <2>3, <3>1 DEF ConfigSettled, ConfigFits, HostFits, LimitFits, Between, Idle
  <2>4. CASE h # i
    <3>1. /\ row'[h] = row[h] /\ OnInst(h)' = OnInst(h) /\ job' = job
          /\ \A q \in OnInst(h) : Body(h, job[q])' = Body(h, job[q])
          /\ OnInst(h) = {} => Body(h, Idle)' = Body(h, Idle)
      BY <2>0, <2>1, <2>2, <2>4, FinishElsewhere
    <3>2. QED
      BY <2>2, <3>1 DEF ConfigSettled, ConfigFits, HostFits, LimitFits, Between
  <2>5. QED
    BY <2>3, <2>4
<1>7. QED
  BY <1>1, <1>2, <1>3, <1>4, <1>5, <1>6 DEF Next, Quiet

\* A key that an account gets or deletes is no surprise in a container.
LEMMA KeysMoreFit ==
    ASSUME NEW x, NEW r, NEW j, NEW mine, NEW gone, NEW mine2, NEW gone2, KeysFit(x, r, j, mine, gone),
           NEW U, r.owner \in U, j.op = "transfer" => j.user \in U,
           \A u \in U : mine[u] \cup gone \subseteq mine2[u] \cup gone2
    PROVE  KeysFit(x, r, j, mine2, gone2)
<1>1. mine[r.owner] \cup gone \subseteq mine2[r.owner] \cup gone2
  OBVIOUS
<1>2. CASE j.op = "transfer"
  <2>1. mine[j.user] \cup gone \subseteq mine2[j.user] \cup gone2
    BY <1>2
  <2>2. QED
    BY <1>1, <1>2, <2>1 DEF KeysFit, KeysIn
<1>3. CASE j.op # "transfer"
  BY <1>1, <1>3 DEF KeysFit, KeysIn
<1>4. QED
  BY <1>2, <1>3

LEMMA KeysNext ==
    ASSUME TypeOK, AllSettled, OnTrack, KeysInv, [Next]_vars PROVE KeysInv'
<1>1. ASSUME NEW p \in Jobs, Step(p) PROVE KeysInv'
  <2> SUFFICES ASSUME NEW i \in Insts \ (loose' \cup kept'), Exists(i)' PROVE KeysSettled(i)'
    BY DEF KeysInv
  <2>1. Settled(i) /\ KeysSettled(i) /\ Exists(i)
    BY <1>1, LooseGrows, StepHistory, StepExists DEF AllSettled, KeysInv
  <2>2. QED
    BY <1>1, <2>1, KeysHere, KeysElsewhere
<1>2. ASSUME NEW p \in Jobs, Begin(p) PROVE KeysInv'
  <2>0. PICK h \in Insts : BeginRest(h) /\ \E j : BegunFit(p, h, j)
    BY <1>2, BeginFits
  <2>1. PICK j : BegunFit(p, h, j)
    BY <2>0
  <2> SUFFICES ASSUME NEW i \in Insts \ (loose' \cup kept'), Exists(i)' PROVE KeysSettled(i)'
    BY DEF KeysInv
  <2>2. loose \subseteq loose' /\ kept \subseteq kept' /\ Exists(i)
    BY <1>2, <2>0, <2>1, BeginKeepsRows DEF BegunFit, Overlap, BeginRest, Exists
  <2>3. Settled(i) /\ KeysSettled(i)
    BY <2>2 DEF AllSettled, KeysInv
  <2>4. QED
    BY <1>2, <2>0, <2>1, <2>3, BegunKeys
<1>3. CASE Crash
  <2> SUFFICES ASSUME NEW i \in Insts \ (loose' \cup kept'), Exists(i)' PROVE KeysSettled(i)'
    BY DEF KeysInv
  <2>1. i \notin loose /\ i \notin kept /\ OnInst(i) = {} /\ Exists(i)
    BY <1>3 DEF Crash, OnInst, Exists
  <2>2. KeysFit(Body(i, Idle), row[i], Idle, own, Gone(i))
    BY <2>1 DEF KeysInv, KeysSettled
  <2>3. /\ OnInst(i)' = {} /\ ~Making(i)' /\ row' = row /\ cont' = cont /\ own' = own
        /\ Gone(i)' = Gone(i)
    BY <1>3 DEF Crash, OnInst, Busy, Idle, Making, Gone
  <2>4. QED
    BY <2>2, <2>3 DEF KeysSettled, KeysFit, KeysIn, Body, Idle
<1>4. CASE UNCHANGED vars \/ \E u \in Users, k \in Keys : CreateSSHKey(u, k) \/ DeleteSSHKey(u, k)
  <2>1. row' = row /\ cont' = cont /\ job' = job /\ making' = making /\ loose' = loose /\ kept' = kept
    BY <1>4 DEF vars, history, CreateSSHKey, DeleteSSHKey
  <2>0. /\ granted' = granted /\ dropped \subseteq dropped'
        /\ \A u \in Users : own[u] \cup dropped \subseteq own'[u] \cup dropped'
    BY <1>4 DEF vars, history, CreateSSHKey, DeleteSSHKey, TypeOK
  <2> SUFFICES ASSUME NEW i \in Insts \ (loose \cup kept), Exists(i) PROVE KeysSettled(i)'
    BY <2>1 DEF KeysInv, Exists
  <2> DEFINE G == Gone(i)'
  <2>2. \A u \in Users : own[u] \cup Gone(i) \subseteq own'[u] \cup G
    BY <2>0 DEF Gone
  <2> HIDE DEF G
  <2>3. OnInst(i)' = OnInst(i) /\ \A q \in OnInst(i) : q \in Jobs /\ job[q] \in Request
    BY <2>1, BusyJob DEF OnInst, Busy
  <2>4. row[i].owner \in Users
    BY DEF TypeOK, Row
  <2>5. ASSUME NEW q \in OnInst(i) PROVE KeysFit(Body(i, job[q]), row[i], job[q], own', G)
    <3>1. KeysFit(Body(i, job[q]), row[i], job[q], own, Gone(i)) /\ job[q].user \in Users
      BY <2>3, RequestFields DEF KeysInv, KeysSettled
    <3>2. QED
      BY <2>2, <2>4, <3>1, KeysMoreFit
  <2>6. OnInst(i) = {} => KeysFit(Body(i, Idle), row[i], Idle, own', G)
    <3>1. OnInst(i) = {} => KeysFit(Body(i, Idle), row[i], Idle, own, Gone(i))
      BY DEF KeysInv, KeysSettled
    <3>2. Idle.op # "transfer"
      BY DEF Idle
    <3>3. QED
      BY <2>2, <2>4, <3>1, <3>2, KeysMoreFit
  <2>7. Making(i) => making[i].keys \subseteq own'[row[i].owner] \cup G
    BY <2>2, <2>4 DEF KeysInv, KeysSettled
  <2>8. QED
    BY <2>1, <2>3, <2>5, <2>6, <2>7 DEF G, KeysSettled, KeysFit, KeysIn, Body, NewKey, Idle, Making
<1>5. ASSUME NEW i \in Insts, NEW u \in Users, NEW n \in Names, NEW l \in Limits \cup {Unset},
             CreateAsync(i, u, n, l)
      PROVE  KeysInv'
  <2> SUFFICES ASSUME NEW h \in Insts \ (loose' \cup kept'), Exists(h)' PROVE KeysSettled(h)'
    BY DEF KeysInv
  <2>1. h \notin loose /\ h \notin kept /\ own' = own /\ Gone(h)' = Gone(h)
    BY <1>5 DEF CreateAsync, Gone
  <2>2. CASE h = i
    <3>0. row'[i].key = <<u, n>> /\ row'[i].owner = u /\ ~Exists(i)
      BY <1>5, CreateRow DEF Exists
    <3>1. OnInst(i)' = {} /\ Body(i, Idle)'.of = None
      <4>1. cont' = cont /\ job' = job /\ ~Live(<<u, n>>)
        BY <1>5, <2>1, <2>2 DEF CreateAsync
      <4>2. QED
        BY <3>0, <4>1, TypeParts DEF OnInst, Busy, Linked, Body, Idle, Live
    <3>2. making'[i].keys = own[u]
      BY <1>5 DEF CreateAsync, TypeOK
    <3>3. QED
      BY <2>1, <2>2, <3>0, <3>1, <3>2 DEF KeysSettled, KeysFit
  <2>3. CASE h # i
    <3>1. /\ row'[h] = row[h] /\ making'[h] = making[h] /\ OnInst(h)' = OnInst(h) /\ job' = job
          /\ \A q \in OnInst(h) : Body(h, job[q])' = Body(h, job[q])
          /\ Body(h, Idle)' = Body(h, Idle)
      BY <1>5, <2>3, CreateElsewhere
    <3>2. KeysSettled(h)
      BY <2>1, <3>1 DEF KeysInv, Exists
    <3>3. QED
      BY <2>1, <3>1, <3>2 DEF KeysSettled, KeysFit, KeysIn, Making
  <2>4. QED
    BY <2>2, <2>3
<1>6. ASSUME NEW i \in Insts, FinishCreate(i) PROVE KeysInv'
  <2>0. Finished(i)
    BY <1>6, FinishFacts
  <2> SUFFICES ASSUME NEW h \in Insts \ (loose' \cup kept'), Exists(h)' PROVE KeysSettled(h)'
    BY DEF KeysInv
  <2>1. h \notin loose /\ h \notin kept /\ Exists(h) /\ own' = own /\ Gone(h)' = Gone(h)
    BY <2>0 DEF Finished, Exists, Gone
  <2>2. Settled(h) /\ KeysSettled(h)
    BY <2>1 DEF AllSettled, KeysInv
  <2>3. CASE h = i
    <3>1. /\ OnInst(i)' = {} /\ ~Making(i)' /\ row'[i].owner = row[i].owner
          /\ Body(i, Idle)'.of # None => Body(i, Idle)'.keys \subseteq making[i].keys
      BY <2>0, <2>2, <2>3, FinishBody
    <3>2. making[i].keys \subseteq own[row[i].owner] \cup Gone(i)
      BY <2>0, <2>2, <2>3 DEF KeysSettled, Finished
    <3>3. KeysFit(Body(i, Idle), row[i], Idle, own, Gone(i))'
      BY <2>1, <2>3, <3>1, <3>2 DEF KeysFit, KeysIn, Idle
    <3>4. QED
      BY <2>3, <3>1, <3>3 DEF KeysSettled
  <2>4. CASE h # i
    <3>1. /\ row'[h] = row[h] /\ making'[h] = making[h] /\ OnInst(h)' = OnInst(h) /\ job' = job
          /\ \A q \in OnInst(h) : Body(h, job[q])' = Body(h, job[q])
          /\ OnInst(h) = {} => Body(h, Idle)' = Body(h, Idle)
      BY <2>0, <2>1, <2>2, <2>4, FinishElsewhere
    <3>2. QED
      BY <2>1, <2>2, <3>1 DEF KeysSettled, KeysFit, KeysIn, Making
  <2>5. QED
    BY <2>3, <2>4
<1>7. QED
  BY <1>1, <1>2, <1>3, <1>4, <1>5, <1>6 DEF Next, Quiet

LEMMA FitAlways == Spec => [](ConfigInv /\ KeysInv)
<1>1. QED
  BY TypeInit, TypeNext, SettledInit, SettledNext, TrackInit, TrackNext, FitInit, ConfigNext, KeysNext,
     PTL DEF Spec

\* At rest, a container has the host name of its row's display name and the
\* limit that its row stands for, unless requests have overlapped or a write
\* has not reached it.
THEOREM ConfigFollows == Spec => []ConfigFollowsRow
<1>1. ConfigInv => ConfigFollowsRow
  BY DEF ConfigInv, ConfigSettled, ConfigFits, HostFits, LimitFits, Between, Body, Idle, ConfigFollowsRow, AtRest,
         Live
<1>2. QED
  BY <1>1, FitAlways, PTL

\* At rest, every key in a container is its owner's, a deleted one, or one of
\* another account that its owner or an administrator has put there, unless a
\* hand-over was to keep the previous owner's or could not take them out.
THEOREM KeysFollow == Spec => []KeysFollowOwner
<1>1. KeysInv => KeysFollowOwner
  BY DEF KeysInv, KeysSettled, KeysFit, KeysIn, Gone, Body, Idle, KeysFollowOwner, AtRest, Live
<1>2. QED
  BY <1>1, FitAlways, PTL
=============================================================================
