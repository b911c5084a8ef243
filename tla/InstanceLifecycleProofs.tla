---------------------- MODULE InstanceLifecycleProofs ----------------------
(***************************************************************************)
(* Theorems about InstanceLifecycle: first for any number of processes and *)
(* any faults, then for requests one after another, each theorem with the  *)
(* faults it excludes.                                                     *)
(***************************************************************************)
EXTENDS InstanceLifecycle, TLAPS

-----------------------------------------------------------------------------
(* The helpers preserve the types of what they write.                      *)

LEMMA BecomesType ==
    ASSUME TypeOK, NEW p \in Procs, NEW r \in Request, Becomes(p, r)
    PROVE  req' \in [Procs -> Request]
BY DEF TypeOK, Becomes

LEMMA DoneType ==
    ASSUME TypeOK, NEW p \in Procs, Done(p)
    PROVE  req' \in [Procs -> Request]
<1>1. Idle \in Request
  BY DEF Idle, Request, Labels
<1>2. QED
  BY <1>1, BecomesType DEF Done

LEMMA GotoType ==
    ASSUME TypeOK, NEW p \in Procs, NEW l \in Labels, Goto(p, l)
    PROVE  req' \in [Procs -> Request]
<1>1. [req[p] EXCEPT !.pc = l] \in Request
  BY DEF TypeOK, Request
<1>2. QED
  BY <1>1, BecomesType DEF Goto

LEMMA LoopType ==
    ASSUME TypeOK, NEW p \in Procs, NEW l \in Labels, NEW D \in SUBSET Devs, Loop(p, l, D)
    PROVE  req' \in [Procs -> Request]
<1>1. [req[p] EXCEPT !.pc = l, !.todo = D] \in Request
  BY DEF TypeOK, Request
<1>2. QED
  BY <1>1, BecomesType DEF Loop

LEMMA NextDirType ==
    ASSUME TypeOK, NEW p \in Procs, NEW l \in Labels, NEW d, NextDir(p, l, d)
    PROVE  req' \in [Procs -> Request]
<1> DEFINE r == [req[p] EXCEPT !.pc = l, !.todo = @ \ {d}, !.dev = None, !.vid = None]
<1>1. r \in Request
  BY DEF TypeOK, Request
<1>2. Becomes(p, r)
  BY DEF NextDir
<1> HIDE DEF r
<1>3. QED
  BY <1>1, <1>2, BecomesType

LEMMA SetStatusType ==
    ASSUME TypeOK, NEW i, NEW s \in Statuses, SetStatus(i, s)
    PROVE  inst' \in [Ids -> Row]
<1>1. \A r \in Row, t \in Statuses \cup {"unused", "deleted"} : [r EXCEPT !.status = t] \in Row
  BY DEF Row
<1>2. inst \in [Ids -> Row] /\ \A j \in Ids : inst[j] \in Row
  BY DEF TypeOK
<1>3. inst' = [inst EXCEPT ![i] = [inst[i] EXCEPT !.status = IF Live(i) THEN s ELSE inst[i].status]]
  BY DEF SetStatus
<1>4. CASE i \in Ids
  <2>1. (IF Live(i) THEN s ELSE inst[i].status) \in Statuses \cup {"unused", "deleted"}
    BY <1>2, <1>4 DEF Row
  <2>2. QED
    BY <1>1, <1>2, <1>3, <1>4, <2>1
<1>5. CASE i \notin Ids
  BY <1>2, <1>3, <1>5
<1>6. QED
  BY <1>4, <1>5

LEMMA DeleteVolumeRowType ==
    ASSUME TypeOK, NEW v, DeleteVolumeRow(v)
    PROVE  vol' \in [VolIds -> VolRow] /\ joins' \subseteq Join
BY DEF TypeOK, DeleteVolumeRow, VolRow

LEMMA InsertJoinType ==
    ASSUME TypeOK, NEW i \in Ids, NEW v \in VolIds, NEW d \in Devs, InsertJoin(i, v, d)
    PROVE  joins' \subseteq Join
BY DEF TypeOK, InsertJoin, Join

LEMMA DirsOfType ==
    ASSUME NEW J \in SUBSET Join
    PROVE  DirsOf(J) \in SUBSET Devs
BY DEF DirsOf, Join

-----------------------------------------------------------------------------
(* The effect of each kind of database statement.  An id, once used, never *)
(* comes to stand for another row (AUTOINCREMENT), so that what a request  *)
(* has read stays true of the ids it holds.                                *)

IdsKept ==
    /\ \A i \in Ids : inst[i].status # "unused" =>
         inst'[i].status # "unused" /\ inst[i].names \subseteq inst'[i].names
    /\ \A v \in VolIds : vol[v].state # "unused" =>
         /\ vol'[v].state # "unused"
         /\ vol'[v].key = vol[v].key
         /\ vol'[v].dev = vol[v].dev

\* A volume row has the name of an instance.
VolumesNamed == \A v \in VolIds : vol[v].state # "unused" => vol[v].key \in Keys

DbInv == UniqueKeys /\ JoinIntegrity /\ VolumesNamed
DbTyped == inst \in [Ids -> Row] /\ vol \in [VolIds -> VolRow] /\ joins \subseteq Join

LEMMA NoneIsNothing ==
    /\ None \notin Ids /\ None \notin VolIds /\ None \notin Devs /\ None \notin Keys
BY NoneAssumption DEF Keys

LEMMA DbUnchanged ==
    ASSUME TypeOK, DbInv, UNCHANGED db
    PROVE  DbTyped' /\ DbInv' /\ IdsKept
<1>1. inst' = inst /\ vol' = vol /\ joins' = joins
  BY DEF db
<1>2. DbTyped' /\ IdsKept
  BY <1>1 DEF TypeOK, DbTyped, IdsKept
<1>3. UniqueKeys' /\ VolumesNamed'
  BY <1>1 DEF DbInv, UniqueKeys, VolumesNamed, Live
<1>4. JoinIntegrity'
  BY <1>1 DEF DbInv, JoinIntegrity, Live, LiveVol, Called
<1>5. QED
  BY <1>2, <1>3, <1>4 DEF DbInv

LEMMA SetStatusKeeps ==
    ASSUME TypeOK, DbInv, NEW i, NEW s \in Statuses, SetStatus(i, s), UNCHANGED <<vol, joins>>
    PROVE  DbTyped' /\ DbInv' /\ IdsKept
<1>1. DbTyped'
  BY SetStatusType DEF TypeOK, DbTyped
<1>2. \A k \in Ids : /\ Live(k)' <=> Live(k)
                     /\ inst'[k].key = inst[k].key
                     /\ inst'[k].volume = inst[k].volume
                     /\ inst'[k].names = inst[k].names
                     /\ inst[k].status # "unused" => inst'[k].status # "unused"
  BY DEF TypeOK, SetStatus, Live, Statuses, Row
<1>3. IdsKept
  BY <1>2 DEF IdsKept
<1>4. UniqueKeys' /\ VolumesNamed'
  BY <1>2 DEF DbInv, UniqueKeys, VolumesNamed
<1>5. JoinIntegrity'
  BY <1>2 DEF TypeOK, DbInv, JoinIntegrity, LiveVol, Join, Called
<1>6. QED
  BY <1>1, <1>3, <1>4, <1>5 DEF DbInv

LEMMA DeleteVolumeRowKeeps ==
    ASSUME TypeOK, DbInv, NEW v, DeleteVolumeRow(v), UNCHANGED inst
    PROVE  DbTyped' /\ DbInv' /\ IdsKept
<1>1. DbTyped'
  BY DeleteVolumeRowType DEF TypeOK, DbTyped
<1>2. CASE UNCHANGED <<vol, joins>>
  BY <1>2, DbUnchanged DEF db
<1>3. CASE /\ LiveVol(v) /\ \A i \in Ids : Live(i) => inst[i].volume # v
           /\ vol' = [vol EXCEPT ![v].state = "deleted"]
           /\ joins' = {j \in joins : j.vol # v}
  <2>1. \A w \in VolIds : /\ vol'[w].key = vol[w].key
                          /\ vol'[w].dev = vol[w].dev
                          /\ vol[w].state # "unused" => vol'[w].state # "unused"
                          /\ w # v => (LiveVol(w)' <=> LiveVol(w))
    BY <1>3 DEF TypeOK, VolRow, LiveVol
  <2>2. IdsKept
    BY <2>1 DEF IdsKept
  <2>3. UniqueKeys' /\ VolumesNamed'
    <3>1. UniqueKeys'
      BY DEF DbInv, UniqueKeys, Live
    <3>2. \A w \in VolIds : vol'[w].state # "unused" => vol[w].state # "unused"
      BY <1>3 DEF TypeOK, VolRow, LiveVol
    <3>3. QED
      BY <2>1, <3>1, <3>2 DEF DbInv, VolumesNamed
  <2>4. JoinIntegrity'
    BY <1>3, <2>1 DEF TypeOK, DbInv, JoinIntegrity, Join, Row, Live, Called
  <2>5. QED
    BY <1>1, <2>2, <2>3, <2>4 DEF DbInv
<1>4. QED
  BY <1>2, <1>3 DEF DeleteVolumeRow

LEMMA InsertJoinKeeps ==
    ASSUME TypeOK, DbInv, NEW i \in Ids, NEW v \in VolIds, NEW d \in Devs,
           vol[v].key[2] \in Called(i), vol[v].dev = d,
           InsertJoin(i, v, d), UNCHANGED <<inst, vol>>
    PROVE  DbTyped' /\ DbInv' /\ IdsKept
<1>1. DbTyped'
  BY InsertJoinType DEF TypeOK, DbTyped
<1>2. IdsKept /\ UniqueKeys' /\ VolumesNamed'
  BY DEF DbInv, UniqueKeys, IdsKept, Live, VolumesNamed
<1>3. JoinIntegrity'
  BY DEF DbInv, JoinIntegrity, InsertJoin, Live, LiveVol, Called
<1>4. QED
  BY <1>1, <1>2, <1>3 DEF DbInv

LEMMA DeleteRowKeeps ==
    ASSUME TypeOK, DbInv, NEW p \in Procs, DeleteRow(p)
    PROVE  DbTyped' /\ DbInv' /\ IdsKept
<1> DEFINE i == req[p].id
<1>1. /\ inst' = [inst EXCEPT ![i].status = IF Live(i) THEN "deleted" ELSE @]
      /\ joins' = {j \in joins : j.inst # i}
      /\ vol' = vol
  BY DEF DeleteRow
<1> HIDE DEF i
<1>2. DbTyped'
  <2>1. \A r \in Row, t \in Statuses \cup {"unused", "deleted"} : [r EXCEPT !.status = t] \in Row
    BY DEF Row
  <2>2. \A j \in Ids : inst[j] \in Row /\ inst[j].status \in Statuses \cup {"unused", "deleted"}
    BY DEF TypeOK, Row
  <2>3. inst' = [inst EXCEPT ![i] = [inst[i] EXCEPT !.status = IF Live(i) THEN "deleted"
                                                                           ELSE inst[i].status]]
    BY <1>1
  <2>4. inst' \in [Ids -> Row]
    BY <2>1, <2>2, <2>3 DEF TypeOK
  <2>5. QED
    BY <1>1, <2>4 DEF TypeOK, DbTyped
<1>3. \A k \in Ids : /\ Live(k)' => Live(k)
                     /\ k # i /\ Live(k) => Live(k)'
                     /\ inst'[k].key = inst[k].key
                     /\ inst'[k].volume = inst[k].volume
                     /\ inst'[k].names = inst[k].names
                     /\ inst[k].status # "unused" => inst'[k].status # "unused"
  BY <1>1 DEF TypeOK, Live, Statuses, Row
<1>4. IdsKept
  BY <1>1, <1>3 DEF IdsKept
<1>5. UniqueKeys' /\ VolumesNamed'
  BY <1>1, <1>3 DEF DbInv, UniqueKeys, VolumesNamed
<1>6. JoinIntegrity'
  BY <1>1, <1>3 DEF TypeOK, DbInv, JoinIntegrity, Join, LiveVol, Called
<1>7. QED
  BY <1>2, <1>4, <1>5, <1>6 DEF DbInv

-----------------------------------------------------------------------------
(* The effect of each kind of control step on what the process knows.      *)

IInv == TypeOK /\ DbInv /\ MemoryHolds

KnowsNext(p) ==
    /\ req' \in [Procs -> Request]
    /\ \A q \in Procs : q # p => req'[q] = req[q]
    /\ Knows(req[p])'

\* What r remembers will be true after the step.
RemembersNext(r) ==
    /\ r.id # None => inst'[r.id].status # "unused" /\ r.key \in inst'[r.id].names
    /\ r.pc = "check" => r.to[1] = r.key[1] /\ r.to # r.key
    /\ r.to # None /\ r.pc # "check" => r.to \in inst'[r.id].names /\ inst'[r.id].names # {r.to}
    /\ r.vid # None => /\ vol'[r.vid].state # "unused"
                       /\ vol'[r.vid].key[2] \in CalledBy(r)
                       /\ vol'[r.vid].dev = r.dev
    /\ r.first # None => vol'[r.first].state # "unused" /\ vol'[r.first].key = r.key
    /\ \A j \in r.snap : /\ vol'[j.vol].state # "unused"
                         /\ vol'[j.vol].key[2] \in CalledBy(r)
                         /\ vol'[j.vol].dev = j.dev

LEMMA CalledStays ==
    ASSUME TypeOK, IdsKept, NEW r \in Request, r.id # None => inst[r.id].status # "unused"
    PROVE  \A n \in CalledBy(r) : n \in CalledBy(r)'
<1>1. CASE r.id = None
  BY <1>1 DEF CalledBy
<1>2. CASE r.id # None
  <2>1. inst[r.id].names \subseteq inst'[r.id].names
    BY <1>2 DEF IdsKept, Request
  <2>2. QED
    BY <1>2, <2>1 DEF CalledBy, Called
<1>3. QED
  BY <1>1, <1>2

LEMMA BecomesKnown ==
    ASSUME TypeOK, NEW p \in Procs, NEW r \in Request, Becomes(p, r), Placed(r), Remembers(r)'
    PROVE  KnowsNext(p)
<1>1. req' = [req EXCEPT ![p] = r]
  BY DEF Becomes
<1>2. req'[p] = r
  BY <1>1 DEF TypeOK
<1>3. req' \in [Procs -> Request]
  BY BecomesType
<1>4. Placed(req'[p])
  BY <1>2
<1>5. Remembers(req[p])'
  BY <1>2
<1>6. QED
  BY <1>1, <1>3, <1>4, <1>5 DEF KnowsNext, Knows, Placed, TypeOK

LEMMA BecomesKnows ==
    ASSUME TypeOK, IdsKept, NEW p \in Procs, NEW r \in Request, Becomes(p, r), Placed(r),
           RemembersNext(r), r.id # None => inst[r.id].status # "unused"
    PROVE  KnowsNext(p)
<1>1. Remembers(r)'
  BY CalledStays DEF RemembersNext, Remembers, KnownVolume
<1>2. QED
  BY <1>1, BecomesKnown

\* What is remembered survives every statement, by IdsKept.
LEMMA MemoryKept ==
    ASSUME IInv, IdsKept, NEW q \in Procs
    PROVE  RemembersNext(req[q]) /\ (req[q].id # None => inst[req[q].id].status # "unused")
<1> DEFINE r == req[q]
<1>1. r \in Request /\ Remembers(r) /\ Placed(r)
  BY DEF IInv, TypeOK, MemoryHolds, Knows
<1> HIDE DEF r
<1>2. /\ r.id # None => /\ inst[r.id].status # "unused"
                        /\ inst'[r.id].status # "unused"
                        /\ inst[r.id].names \subseteq inst'[r.id].names
                        /\ r.key \in inst[r.id].names
  BY <1>1 DEF Remembers, IdsKept, Request
<1>3. r.to # None => r.id # None
  BY <1>1 DEF Placed, Moves, MoveLabels
<1>4. r.to # None /\ r.pc # "check" => r.to \in inst'[r.id].names /\ inst'[r.id].names # {r.to}
  BY <1>1, <1>2, <1>3 DEF Remembers
<1>5. \A v \in VolIds, d \in Devs \cup {None} :
        KnownVolume(v, d, CalledBy(r)) => /\ vol'[v].state # "unused"
                                          /\ vol'[v].key[2] \in CalledBy(r)
                                          /\ vol'[v].dev = d
  BY DEF KnownVolume, IdsKept
<1>6. r.vid # None => /\ vol'[r.vid].state # "unused"
                      /\ vol'[r.vid].key[2] \in CalledBy(r)
                      /\ vol'[r.vid].dev = r.dev
  BY <1>1, <1>5 DEF Remembers, Request
<1>7. \A j \in r.snap : /\ vol'[j.vol].state # "unused"
                        /\ vol'[j.vol].key[2] \in CalledBy(r)
                        /\ vol'[j.vol].dev = j.dev
  BY <1>1, <1>5 DEF Remembers, Request, Join
<1>8. r.first # None => vol'[r.first].state # "unused" /\ vol'[r.first].key = r.key
  BY <1>1 DEF Remembers, Request, IdsKept
<1>9. r.pc = "check" => r.to[1] = r.key[1] /\ r.to # r.key
  BY <1>1 DEF Remembers
<1>10. RemembersNext(r)
  BY <1>2, <1>4, <1>6, <1>7, <1>8, <1>9 DEF RemembersNext
<1>11. QED
  BY <1>2, <1>10 DEF r

LEMMA OthersKnow ==
    ASSUME IInv, IdsKept, NEW p \in Procs, KnowsNext(p)
    PROVE  MemoryHolds'
<1>1. SUFFICES ASSUME NEW q \in Procs, q # p PROVE Knows(req[q])'
  BY DEF MemoryHolds, KnowsNext
<1>2. req'[q] = req[q] /\ req[q] \in Request
  BY <1>1 DEF KnowsNext, IInv, TypeOK
<1>3. Placed(req[q])
  BY DEF IInv, MemoryHolds, Knows
<1>4. Placed(req'[q])
  BY <1>2, <1>3
<1>5. RemembersNext(req[q]) /\ (req[q].id # None => inst[req[q].id].status # "unused")
  BY MemoryKept
<1>6. ASSUME NEW r \in Request, RemembersNext(r), r.id # None => inst[r.id].status # "unused"
      PROVE  Remembers(r)'
  BY <1>6, CalledStays DEF IInv, RemembersNext, Remembers, KnownVolume
<1>7. \A r \in Request : r = req'[q] => Remembers(r)'
  BY <1>2, <1>5, <1>6
<1>8. Remembers(req[q])'
  BY <1>2, <1>7
<1>9. QED
  BY <1>4, <1>8 DEF Knows, Placed

LEMMA IdleFields ==
    /\ Idle \in Request
    /\ Idle.op = "none" /\ Idle.pc = "idle" /\ Idle.to = None /\ Idle.key = None
    /\ Idle.id = None /\ Idle.vid = None /\ Idle.first = None /\ Idle.snap = {}
BY DEF Idle, Request, Labels

LEMMA DoneKnows ==
    ASSUME TypeOK, IdsKept, NEW p \in Procs, Done(p)
    PROVE  KnowsNext(p)
<1>1. Placed(Idle)
  BY IdleFields DEF Placed, WithVolume, Moves
<1>2. RemembersNext(Idle)
  BY IdleFields DEF RemembersNext
<1>3. QED
  BY <1>1, <1>2, IdleFields, BecomesKnows DEF Done

\* The steps that leave the memory alone, but for the volume in hand.
LEMMA SameMemory ==
    ASSUME NEW r, NEW t, RemembersNext(t), r.pc # "check", t.pc # "check",
           r.id = t.id, r.key = t.key, r.to = t.to, r.snap = t.snap, r.first = t.first,
           r.vid = None \/ (r.vid = t.vid /\ r.dev = t.dev)
    PROVE  RemembersNext(r)
<1>1. CalledBy(r) = CalledBy(t)
  BY DEF CalledBy
<1>2. QED
  BY <1>1 DEF RemembersNext

\* Moving to label l is safe for a process that holds what l requires.
Ready(r, l) ==
    /\ r.key # None
    /\ r.op # "Create" /\ l # "insert" => r.id # None
    /\ l = "insert" \/ (r.op = "Create" /\ l \notin {"joins", "joinInsert"}) => r.id = None
    /\ l \in {"joins", "joinInsert", "volJoin"} => r.id # None
    /\ r.pc # "check" /\ l # "check"
    /\ r.op \in Moves => l \in MoveLabels
    /\ l \in {"move", "record", "undo"} => r.op \in Moves

\* What the move leaves alone in what the process holds.
LEMMA SamePlace ==
    ASSUME NEW r, NEW t, NEW l, Placed(t), Ready(t, l), r.pc = l, r.op = t.op, r.id = t.id,
           r.key = t.key, r.to = t.to, r.first = t.first,
           l \in WithVolume => r.vid # None /\ r.dev # None
    PROVE  Placed(r)
BY DEF Placed, Ready

LEMMA GotoKnows ==
    ASSUME IInv, IdsKept, NEW p \in Procs, NEW l \in Labels, Goto(p, l), Ready(req[p], l),
           l \in WithVolume => req[p].vid # None /\ req[p].dev # None
    PROVE  KnowsNext(p)
<1> DEFINE r == [req[p] EXCEPT !.pc = l]
<1>1. req[p] \in Request /\ Placed(req[p])
  BY DEF IInv, TypeOK, MemoryHolds, Knows
<1>2. /\ r \in Request /\ r.pc = l /\ r.op = req[p].op /\ r.id = req[p].id /\ r.key = req[p].key
      /\ r.vid = req[p].vid /\ r.dev = req[p].dev /\ r.first = req[p].first
      /\ r.snap = req[p].snap /\ r.to = req[p].to
  BY <1>1 DEF Request
<1>3. Becomes(p, r)
  BY DEF Goto
<1> HIDE DEF r
<1>4. Placed(r)
  BY <1>1, <1>2, SamePlace
<1>5. RemembersNext(r)
  BY <1>2, SameMemory, MemoryKept DEF Ready
<1>6. QED
  BY <1>2, <1>3, <1>4, <1>5, BecomesKnows, MemoryKept DEF IInv

LEMMA LoopKnows ==
    ASSUME IInv, IdsKept, NEW p \in Procs, NEW l \in Labels \ WithVolume, NEW D \in SUBSET Devs,
           Loop(p, l, D), Ready(req[p], l)
    PROVE  KnowsNext(p)
<1> DEFINE r == [req[p] EXCEPT !.pc = l, !.todo = D]
<1>1. req[p] \in Request /\ Placed(req[p])
  BY DEF IInv, TypeOK, MemoryHolds, Knows
<1>2. /\ r \in Request /\ r.pc = l /\ r.op = req[p].op /\ r.id = req[p].id /\ r.key = req[p].key
      /\ r.vid = req[p].vid /\ r.dev = req[p].dev /\ r.first = req[p].first
      /\ r.snap = req[p].snap /\ r.to = req[p].to
  BY <1>1 DEF Request
<1>3. Becomes(p, r)
  BY DEF Loop
<1> HIDE DEF r
<1>4. Placed(r)
  BY <1>1, <1>2, SamePlace
<1>5. RemembersNext(r)
  BY <1>2, SameMemory, MemoryKept DEF Ready
<1>6. QED
  BY <1>2, <1>3, <1>4, <1>5, BecomesKnows, MemoryKept DEF IInv

LEMMA NextDirKnows ==
    ASSUME IInv, IdsKept, NEW p \in Procs, NEW l \in Labels \ WithVolume, NEW d,
           NextDir(p, l, d), Ready(req[p], l)
    PROVE  KnowsNext(p)
<1> DEFINE r == [req[p] EXCEPT !.pc = l, !.todo = @ \ {d}, !.dev = None, !.vid = None]
<1>1. req[p] \in Request /\ Placed(req[p])
  BY DEF IInv, TypeOK, MemoryHolds, Knows
<1>2. /\ r \in Request /\ r.pc = l /\ r.op = req[p].op /\ r.id = req[p].id /\ r.key = req[p].key
      /\ r.vid = None /\ r.first = req[p].first /\ r.snap = req[p].snap /\ r.to = req[p].to
  BY <1>1 DEF Request
<1>3. Becomes(p, r)
  BY DEF NextDir
<1> HIDE DEF r
<1>4. Placed(r)
  BY <1>1, <1>2, SamePlace
<1>5. RemembersNext(r)
  BY <1>2, SameMemory, MemoryKept DEF Ready
<1>6. QED
  BY <1>2, <1>3, <1>4, <1>5, BecomesKnows, MemoryKept DEF IInv

-----------------------------------------------------------------------------
(* The steps.                                                              *)

\* What is known of the process that takes a step.
LEMMA Actor ==
    ASSUME IInv, NEW p \in Procs
    PROVE  /\ req[p] \in Request
           /\ Placed(req[p])
           /\ Remembers(req[p])
           /\ req[p].key # None => req[p].key \in Keys
           /\ req[p].to # None => req[p].to \in Keys
           /\ req[p].dev # None => req[p].dev \in Devs
           /\ req[p].vid # None => req[p].vid \in VolIds
           /\ req[p].id # None => req[p].id \in Ids
BY DEF IInv, TypeOK, MemoryHolds, Knows, Request

\* A rename has a row, its name, and another name to give on the same server.
LEMMA Mover ==
    ASSUME IInv, NEW p \in Procs, req[p].op \in Moves
    PROVE  /\ req[p].id \in Ids /\ req[p].key \in Keys /\ req[p].to \in Keys
           /\ req[p].first = None
           /\ inst[req[p].id].status # "unused" /\ req[p].key \in inst[req[p].id].names
BY Actor DEF Placed, MoveLabels, Moves, Remembers

\* The rows as the renames leave them.
LEMMA NamesKeep ==
    ASSUME TypeOK, DbInv, UNCHANGED <<vol, joins>>, inst' \in [Ids -> Row],
           \A j \in Ids : /\ inst'[j].status = inst[j].status
                          /\ inst'[j].volume = inst[j].volume
                          /\ inst[j].names \subseteq inst'[j].names,
           UniqueKeys'
    PROVE  DbTyped' /\ DbInv' /\ IdsKept
<1>1. \A j \in Ids : Live(j)' <=> Live(j)
  BY DEF Live
<1>2. \A j \in Ids : \A n \in Called(j) : n \in Called(j)'
  BY DEF Called
<1>3. JoinIntegrity'
  BY <1>1, <1>2 DEF TypeOK, DbInv, JoinIntegrity, LiveVol, Join
<1>4. QED
  BY <1>3 DEF TypeOK, DbTyped, DbInv, IdsKept, VolumesNamed

LEMMA CheckNameKeeps ==
    ASSUME IInv, NEW p \in Procs, CheckName(p)
    PROVE  DbTyped' /\ DbInv' /\ IdsKept
<1> DEFINE i == req[p].id
           l == req[p].to
<1>1. i \in Ids /\ l \in Keys /\ req[p].key \in inst[i].names /\ l[1] = req[p].key[1]
  BY Mover, Actor DEF CheckName, At, Placed, Remembers
<1>2. CASE UNCHANGED inst
  BY <1>2, DbUnchanged DEF CheckName, db, IInv
<1>3. CASE inst' = [inst EXCEPT ![i].names = @ \cup {l}]
  <2>1. UNCHANGED <<vol, joins>>
    BY DEF CheckName
  <2> HIDE DEF i, l
  <2>2. /\ inst' \in [Ids -> Row]
        /\ \A j \in Ids : /\ inst'[j].status = inst[j].status
                          /\ inst'[j].volume = inst[j].volume
                          /\ inst'[j].key = inst[j].key
                          /\ inst'[j].names = inst[j].names \cup (IF j = i THEN {l} ELSE {})
    <3>1. \A r \in Row : [r EXCEPT !.names = r.names \cup {l}] \in Row
      BY <1>1 DEF Row
    <3>2. inst \in [Ids -> Row] /\ \A j \in Ids : inst[j] \in Row
      BY DEF IInv, TypeOK
    <3>3. inst' = [inst EXCEPT ![i] = [inst[i] EXCEPT !.names = inst[i].names \cup {l}]]
      BY <1>3
    <3>4. \A r \in Row : LET t == [r EXCEPT !.names = r.names \cup {l}] IN
            /\ t.status = r.status /\ t.volume = r.volume /\ t.key = r.key
            /\ t.names = r.names \cup {l}
      BY DEF Row
    <3>5. QED
      BY <1>1, <3>1, <3>2, <3>3, <3>4
  <2>3. UniqueKeys'
    BY <1>1, <2>2 DEF IInv, DbInv, UniqueKeys, Live
  <2>4. QED
    BY <2>1, <2>2, <2>3, NamesKeep DEF IInv
<1>4. QED
  BY <1>2, <1>3 DEF CheckName

LEMMA RecordNameKeeps ==
    ASSUME IInv, NEW p \in Procs, RecordName(p)
    PROVE  DbTyped' /\ DbInv' /\ IdsKept
<1> DEFINE i == req[p].id
           l == req[p].to
<1>1. i \in Ids /\ l \in Keys /\ l \in inst[i].names
  BY Mover, Actor DEF RecordName, At, Placed, Remembers
<1>2. CASE UNCHANGED inst
  BY <1>2, DbUnchanged DEF RecordName, db, IInv
<1>3. CASE /\ ~(Live(i) /\ Taken(i, l))
           /\ inst' = [inst EXCEPT ![i].key = IF Live(i) THEN l ELSE @]
  <2>1. UNCHANGED <<vol, joins>>
    BY DEF RecordName
  <2> HIDE DEF i, l
  <2>2. /\ inst' \in [Ids -> Row]
        /\ \A j \in Ids : /\ inst'[j].status = inst[j].status
                          /\ inst'[j].volume = inst[j].volume
                          /\ inst'[j].names = inst[j].names
                          /\ inst'[j].key = IF j = i /\ Live(i) THEN l ELSE inst[j].key
    <3>1. \A r \in Row, k \in Keys \cup {None} : [r EXCEPT !.key = k] \in Row
      BY DEF Row
    <3>2. inst \in [Ids -> Row] /\ \A j \in Ids : inst[j] \in Row /\ inst[j].key \in Keys \cup {None}
      BY DEF IInv, TypeOK, Row
    <3>3. inst' = [inst EXCEPT ![i] = [inst[i] EXCEPT !.key = IF Live(i) THEN l ELSE inst[i].key]]
      BY <1>3
    <3>4. \A r \in Row, k \in Keys \cup {None} : LET t == [r EXCEPT !.key = k] IN
            /\ t.status = r.status /\ t.volume = r.volume /\ t.key = k /\ t.names = r.names
      BY DEF Row
    <3>5. QED
      BY <1>1, <3>1, <3>2, <3>3, <3>4
  <2>3. UniqueKeys'
    BY <1>1, <1>3, <2>2 DEF IInv, DbInv, UniqueKeys, Live, Taken
  <2>4. QED
    BY <2>1, <2>2, <2>3, NamesKeep DEF IInv
<1>4. QED
  BY <1>2, <1>3 DEF RecordName

LEMMA InsertRowKeeps ==
    ASSUME IInv, NEW p \in Procs, InsertRow(p)
    PROVE  DbTyped' /\ DbInv' /\ IdsKept
<1> DEFINE k == req[p].key
           f == req[p].first
<1>1. UNCHANGED <<vol, joins>>
  BY DEF InsertRow
<1>2. CASE UNCHANGED inst
  BY <1>1, <1>2, DbUnchanged DEF db, IInv
<1>3. ASSUME NEW i \in Ids, inst[i].status = "unused", NEW s \in Statuses,
             inst' = [inst EXCEPT ![i] = [status |-> s, key |-> k, volume |-> f, names |-> {k}]],
             \A j \in Ids : Live(j) => inst[j].key # k,
             f # None => LiveVol(f)
      PROVE  DbTyped' /\ DbInv' /\ IdsKept
  <2>1. k \in Keys
    BY Actor, NoneIsNothing DEF InsertRow, At, Placed
  <2>2. DbTyped'
    BY <1>1, <1>3, <2>1, Actor DEF DbTyped, IInv, TypeOK, Row, Request
  <2>3. /\ \A j \in Ids : j # i => inst'[j] = inst[j]
        /\ inst'[i].status = s /\ inst'[i].key = k /\ inst'[i].volume = f
        /\ inst'[i].names = {k}
    BY <1>3 DEF IInv, TypeOK
  <2>4. ~Live(i) /\ \A j \in Ids : j # i => (Live(j)' <=> Live(j))
    BY <1>3, <2>3 DEF Live, Statuses
  <2>5. IdsKept
    BY <1>1, <1>3, <2>3 DEF IdsKept
  <2>6. UniqueKeys' /\ VolumesNamed'
    BY <1>1, <1>3, <2>1, <2>3, <2>4, NoneIsNothing DEF IInv, DbInv, UniqueKeys, VolumesNamed
  <2>7. f # None => vol[f].key = k
    BY Actor DEF Remembers
  <2>8. JoinIntegrity'
    BY <1>1, <1>3, <2>3, <2>4, <2>7
       DEF IInv, DbInv, TypeOK, JoinIntegrity, Join, LiveVol, Called
  <2>9. QED
    BY <2>2, <2>5, <2>6, <2>8 DEF DbInv
<1>4. QED
  BY <1>2, <1>3 DEF InsertRow, RowAccepted, FreshId, Statuses

LEMMA RecordVolumeKeeps ==
    ASSUME IInv, NEW p \in Procs, NEW d \in Devs, RecordVolume(p, d)
    PROVE  DbTyped' /\ DbInv' /\ IdsKept
<1>1. UNCHANGED <<inst, joins>>
  BY DEF RecordVolume
<1>2. CASE UNCHANGED vol
  BY <1>1, <1>2, DbUnchanged DEF db, IInv
<1>3. ASSUME NEW v \in VolIds, vol[v].state = "unused",
             vol' = [vol EXCEPT ![v] = [state |-> "live", key |-> req[p].key, dev |-> d]]
      PROVE  DbTyped' /\ DbInv' /\ IdsKept
  <2>1. DbTyped'
    BY <1>1, <1>3, Actor DEF DbTyped, IInv, TypeOK, VolRow, Request
  <2>2. \A w \in VolIds : w # v => vol'[w] = vol[w]
    BY <1>3 DEF IInv, TypeOK
  <2>3. IdsKept
    BY <1>1, <1>3, <2>2 DEF IdsKept
  <2>4. \A w \in VolIds : LiveVol(w) => LiveVol(w)' /\ vol'[w] = vol[w]
    BY <1>3, <2>2 DEF LiveVol
  <2>5. UniqueKeys' /\ VolumesNamed'
    <3>1. req[p].key \in Keys
      BY Actor DEF RecordVolume, At, Placed
    <3>2. vol'[v].key \in Keys
      BY <1>3, <3>1 DEF IInv, TypeOK
    <3>3. VolumesNamed'
      BY <2>2, <3>2 DEF IInv, DbInv, VolumesNamed
    <3>4. QED
      BY <1>1, <3>3 DEF IInv, DbInv, UniqueKeys, Live
  <2>6. JoinIntegrity'
    BY <1>1, <2>4 DEF IInv, DbInv, TypeOK, JoinIntegrity, Join, Row, Live, Called
  <2>7. QED
    BY <2>1, <2>3, <2>5, <2>6 DEF DbInv
<1>4. QED
  BY <1>2, <1>3 DEF RecordVolume

LEMMA JoinKeeps ==
    ASSUME IInv, NEW p \in Procs, JoinNewVolume(p) \/ JoinFoundVolume(p)
    PROVE  DbTyped' /\ DbInv' /\ IdsKept
<1> DEFINE r == req[p]
<1>1. r.id \in Ids /\ r.vid \in VolIds /\ r.dev \in Devs
  BY Actor DEF JoinNewVolume, JoinFoundVolume, At, Placed, WithVolume
<1>2. vol[r.vid].key[2] \in Called(r.id) /\ vol[r.vid].dev = r.dev
  BY <1>1, Actor, NoneIsNothing DEF Remembers, KnownVolume, CalledBy
<1>3. InsertJoin(r.id, r.vid, r.dev) /\ UNCHANGED <<inst, vol>>
  BY DEF JoinNewVolume, JoinFoundVolume
<1> HIDE DEF r
<1>4. QED
  BY <1>1, <1>2, <1>3, InsertJoinKeeps DEF IInv

LEMMA StepDb ==
    ASSUME IInv, NEW p \in Procs, Begin(p) \/ Step(p)
    PROVE  DbTyped' /\ DbInv' /\ IdsKept
<1>1. TypeOK /\ DbInv
  BY DEF IInv
<1>2. CASE UNCHANGED db
  BY <1>1, <1>2, DbUnchanged
<1>3. CASE InsertRow(p)
  BY <1>3, InsertRowKeeps
<1>4. CASE \E d \in Devs : RecordVolume(p, d)
  BY <1>4, RecordVolumeKeeps
<1>5. CASE UnrecordVolume(p) \/ DeleteVolumeRecord(p)
  BY <1>1, <1>5, DeleteVolumeRowKeeps DEF UnrecordVolume, DeleteVolumeRecord
<1>6. CASE JoinNewVolume(p) \/ JoinFoundVolume(p)
  BY <1>6, JoinKeeps
<1>7. CASE FinalizeRunning(p) \/ FinalizeError(p) \/ StatusWritten(p)
  <2>1. \E s \in Statuses : SetStatus(req[p].id, s)
    BY <1>7 DEF FinalizeRunning, FinalizeError, StatusWritten, Statuses
  <2>2. UNCHANGED <<vol, joins>>
    BY <1>7 DEF FinalizeRunning, FinalizeError, StatusWritten
  <2>3. QED
    BY <1>1, <2>1, <2>2, SetStatusKeeps
<1>8. CASE DeleteRow(p) \/ CheckName(p) \/ RecordName(p)
  BY <1>1, <1>8, DeleteRowKeeps, CheckNameKeeps, RecordNameKeeps
<1>9. CASE \/ \E o \in AllOps, n \in Names : BeginCreate(p, o, n)
           \/ \E o \in AllOps, i \in Ids : BeginOn(p, o, i) \/ \E n \in Names : BeginMove(p, o, i, n)
           \/ CreateContainer(p) \/ StartContainer(p) \/ CreateVolume(p)
           \/ AttachNewVolume(p) \/ RemoveNewVolume(p) \/ StartRequested(p)
           \/ StopRequested(p) \/ ListVolumes(p) \/ ProbeContainer(p)
           \/ StopIgnored(p) \/ RemoveContainer(p) \/ Reattach(p)
           \/ DeleteVolume(p) \/ Return(p) \/ MoveContainer(p) \/ UndoMove(p)
           \/ \E d \in Devs : FindVolume(p, d) \/ DetachVolume(p, d) \/ LookUpListed(p, d)
  <2>1. UNCHANGED db
    BY <1>9 DEF BeginCreate, BeginOn, CreateContainer, StartContainer, CreateVolume,
         AttachNewVolume, RemoveNewVolume, StartRequested, StopRequested, ListVolumes,
         ProbeContainer, StopIgnored, RemoveContainer, Reattach, DeleteVolume, Return,
         FindVolume, DetachVolume, LookUpListed, BeginMove, MoveContainer, UndoMove
  <2>2. QED
    BY <1>2, <2>1
<1>10. QED
  BY <1>2, <1>3, <1>4, <1>5, <1>6, <1>7, <1>8, <1>9 DEF Begin, Step

IncusTyped ==
    /\ cont  \in [Keys -> {"absent", "stopped", "running"}]
    /\ devs  \in [Keys -> SUBSET (Keys \X Devs)]
    /\ store \subseteq Keys \X Devs

LEMMA StepIncus ==
    ASSUME IInv, NEW p \in Procs, Begin(p) \/ Step(p)
    PROVE  IncusTyped'
<1> DEFINE k == req[p].key
<1>1. IncusTyped
  BY DEF IInv, TypeOK, IncusTyped
<1>2. CASE UNCHANGED incus
  BY <1>1, <1>2 DEF IncusTyped, incus
<1>3. CASE CreateContainer(p) \/ RemoveContainer(p)
  BY <1>1, <1>3 DEF IncusTyped, CreateContainer, RemoveContainer
<1>4. CASE StartContainer(p) \/ StartRequested(p) \/ StopRequested(p) \/ StopIgnored(p)
  BY <1>1, <1>4 DEF IncusTyped, StartContainer, StartRequested, StopRequested, StopIgnored
<1>5. CASE CreateVolume(p)
  <2>1. k \in Keys /\ req[p].dev \in Devs
    BY <1>5, Actor DEF CreateVolume, At, Placed, WithVolume
  <2>2. QED
    BY <1>1, <1>5, <2>1 DEF IncusTyped, CreateVolume
<1>6. CASE AttachNewVolume(p) \/ Reattach(p)
  <2>1. UNCHANGED devs \/ \E x \in store : Attach(x, k)
    BY <1>6 DEF AttachNewVolume, Reattach, CanAttach
  <2>2. devs' \in [Keys -> SUBSET (Keys \X Devs)]
    BY <1>1, <2>1 DEF IncusTyped, Attach
  <2>3. QED
    BY <1>1, <1>6, <2>2 DEF IncusTyped, AttachNewVolume, Reattach
<1>7. CASE RemoveNewVolume(p) \/ DeleteVolume(p)
  BY <1>1, <1>7 DEF IncusTyped, RemoveNewVolume, DeleteVolume, TryDeleteVolume
<1>8. CASE \E d \in Devs : DetachVolume(p, d)
  BY <1>1, <1>8 DEF IncusTyped, DetachVolume, Detach
<1>8b. CASE MoveContainer(p) \/ UndoMove(p)
  <2>1. k \in Keys /\ req[p].to \in Keys
    BY <1>8b, Mover, Actor DEF MoveContainer, UndoMove, At, Placed
  <2>2. QED
    BY <1>1, <1>8b, <2>1 DEF IncusTyped, MoveContainer, UndoMove, MoveTo
<1>9. CASE \/ \E o \in AllOps, n \in Names : BeginCreate(p, o, n)
           \/ \E o \in AllOps, i \in Ids : BeginOn(p, o, i) \/ \E n \in Names : BeginMove(p, o, i, n)
           \/ CheckName(p) \/ RecordName(p)
           \/ InsertRow(p) \/ UnrecordVolume(p) \/ JoinNewVolume(p) \/ JoinFoundVolume(p)
           \/ FinalizeRunning(p) \/ FinalizeError(p) \/ StatusWritten(p) \/ ListVolumes(p)
           \/ ProbeContainer(p) \/ DeleteRow(p) \/ DeleteVolumeRecord(p) \/ Return(p)
           \/ \E d \in Devs : RecordVolume(p, d) \/ FindVolume(p, d) \/ LookUpListed(p, d)
  <2>1. UNCHANGED incus
    BY <1>9 DEF BeginCreate, BeginOn, InsertRow, UnrecordVolume, JoinNewVolume,
         JoinFoundVolume, FinalizeRunning, FinalizeError, StatusWritten, ListVolumes,
         ProbeContainer, DeleteRow, DeleteVolumeRecord, Return, RecordVolume, FindVolume,
         LookUpListed, BeginMove, CheckName, RecordName
  <2>2. QED
    BY <1>2, <2>1
<1>10. QED
  BY <1>3, <1>4, <1>5, <1>6, <1>7, <1>8, <1>8b, <1>9 DEF Begin, Step

-----------------------------------------------------------------------------
(* What the process knows after its step.                                  *)

LEMMA BeginCreateKnows ==
    ASSUME IInv, IdsKept, NEW p \in Procs, NEW o \in AllOps, NEW n \in Names, BeginCreate(p, o, n)
    PROVE  KnowsNext(p)
<1>1. PICK s \in Servers :
        Becomes(p, [Idle EXCEPT !.op = o, !.key = <<s, n>>,
                      !.pc = IF o = "CreateAsync" THEN "insert" ELSE "container"])
  BY DEF BeginCreate
<1> DEFINE k == <<s, n>>
           l == IF o = "CreateAsync" THEN "insert" ELSE "container"
           r == [Idle EXCEPT !.op = o, !.key = k, !.pc = l]
<1>2. Becomes(p, r)
  BY <1>1
<1>3. o \in {"CreateAsync", "Create"}
  BY DEF BeginCreate
<1>4. k \in Keys /\ l \in Labels
  BY DEF Keys, Labels
<1>5. \/ o = "CreateAsync" /\ l = "insert"
      \/ o = "Create" /\ l = "container"
  BY <1>3
<1> HIDE DEF k, l
<1>6. /\ r \in Request /\ r.op = o /\ r.pc = l /\ r.key = k
      /\ r.id = None /\ r.vid = None /\ r.first = None /\ r.snap = {} /\ r.to = None
  BY <1>4, IdleFields DEF Request
<1> HIDE DEF r
<1>7. Placed(r)
  BY <1>4, <1>5, <1>6, NoneIsNothing DEF Placed, WithVolume, Moves
<1>8. RemembersNext(r)
  BY <1>5, <1>6 DEF RemembersNext
<1>9. QED
  BY <1>2, <1>6, <1>7, <1>8, BecomesKnows DEF IInv

LEMMA BeginOnKnows ==
    ASSUME IInv, IdsKept, NEW p \in Procs, NEW o \in AllOps, NEW i \in Ids, BeginOn(p, o, i)
    PROVE  KnowsNext(p)
<1> DEFINE l == FirstCall[o]
           k == inst[i].key
           r == [Idle EXCEPT !.op = o, !.pc = l, !.id = i, !.key = k]
<1>1. Becomes(p, r) /\ Live(i) /\ o \in {"Start", "Stop", "Sleep", "Rebuild", "Delete"}
  BY DEF BeginOn, FirstCall
<1>2. k \in Keys /\ inst[i].status # "unused" /\ k \in inst[i].names
  BY <1>1, NoneIsNothing DEF IInv, TypeOK, DbInv, UniqueKeys, Row, Live, Statuses
<1>3. inst'[i].status # "unused" /\ k \in inst'[i].names
  BY <1>2 DEF IdsKept
<1>4. l \in {"start", "stop", "list", "delStop"}
  BY <1>1 DEF FirstCall
<1>5. l \in Labels
  BY <1>4 DEF Labels
<1> HIDE DEF l, k
<1>6. /\ r \in Request /\ r.op = o /\ r.pc = l /\ r.key = k
      /\ r.id = i /\ r.vid = None /\ r.first = None /\ r.snap = {} /\ r.to = None
  BY <1>2, <1>5, IdleFields DEF Request
<1> HIDE DEF r
<1>7. Placed(r)
  BY <1>1, <1>2, <1>4, <1>6, NoneIsNothing DEF Placed, WithVolume, Moves
<1>8. RemembersNext(r)
  BY <1>3, <1>4, <1>6 DEF RemembersNext
<1>9. QED
  BY <1>1, <1>2, <1>6, <1>7, <1>8, BecomesKnows DEF IInv

LEMMA BeginMoveKnows ==
    ASSUME IInv, IdsKept, NEW p \in Procs, NEW o \in AllOps, NEW i \in Ids, NEW n \in Names,
           BeginMove(p, o, i, n)
    PROVE  KnowsNext(p)
<1> DEFINE k == inst[i].key
           t == <<k[1], n>>
           w == inst[i].status = "running"
           r == [Idle EXCEPT !.op = o, !.pc = "check", !.id = i, !.key = k, !.to = t, !.was = w]
<1>1. Becomes(p, r) /\ Live(i) /\ o \in Moves /\ n # k[2]
  BY DEF BeginMove
<1>2. k \in Keys /\ inst[i].status # "unused" /\ k \in inst[i].names
  BY <1>1, NoneIsNothing DEF IInv, TypeOK, DbInv, UniqueKeys, Row, Live, Statuses
<1>3. inst'[i].status # "unused" /\ k \in inst'[i].names
  BY <1>2 DEF IdsKept
<1>4. t \in Keys /\ t[1] = k[1] /\ t # k /\ w \in BOOLEAN
  BY <1>1, <1>2 DEF Keys
<1> HIDE DEF k, t, w
<1>5. /\ r \in Request /\ r.op = o /\ r.pc = "check" /\ r.key = k /\ r.to = t
      /\ r.id = i /\ r.vid = None /\ r.first = None /\ r.snap = {}
  BY <1>2, <1>4, IdleFields DEF Request, Labels
<1> HIDE DEF r
<1>6. Placed(r)
  BY <1>1, <1>2, <1>4, <1>5, NoneIsNothing DEF Placed, WithVolume, Moves, MoveLabels
<1>7. RemembersNext(r)
  BY <1>3, <1>4, <1>5 DEF RemembersNext
<1>8. QED
  BY <1>1, <1>2, <1>5, <1>6, <1>7, BecomesKnows DEF IInv

LEMMA InsertRowKnows ==
    ASSUME IInv, IdsKept, NEW p \in Procs, InsertRow(p)
    PROVE  KnowsNext(p)
<1>1. CASE Done(p)
  BY <1>1, DoneKnows DEF IInv
<1>2. ASSUME NEW i \in Ids, NEW s, NEW l \in {"container", "joins"}, NEW D \in SUBSET Devs,
             inst' = [inst EXCEPT ![i] = [status |-> s, key |-> req[p].key,
                                          volume |-> req[p].first, names |-> {req[p].key}]],
             s \in Statuses, UNCHANGED vol, l = "joins" \/ req[p].op = "CreateAsync",
             Becomes(p, [req[p] EXCEPT !.pc = l, !.id = i, !.todo = D])
      PROVE  KnowsNext(p)
  <2> DEFINE r == [req[p] EXCEPT !.pc = l, !.id = i, !.todo = D]
  <2>0. req[p] \in Request /\ l \in Labels /\ Placed(req[p]) /\ Remembers(req[p])
    BY Actor DEF Labels
  <2>1. /\ r.pc = l /\ r.id = i /\ r.op = req[p].op /\ r.key = req[p].key /\ r.vid = req[p].vid
        /\ r.dev = req[p].dev /\ r.first = req[p].first /\ r.snap = req[p].snap
        /\ r.to = req[p].to /\ r \in Request
    BY <2>0 DEF Request
  <2>2. Becomes(p, r)
    BY <1>2
  <2> HIDE DEF r
  <2>3. req[p].key # None /\ req[p].pc = "insert"
    BY <2>0 DEF InsertRow, At, Placed
  <2>4. Placed(r) /\ r.to = None /\ r.op \notin Moves
    BY <1>2, <2>0, <2>1, <2>3, NoneIsNothing DEF Placed, WithVolume, MoveLabels
  <2>5. inst'[i].status # "unused" /\ inst'[i].names = {req[p].key}
    BY <1>2 DEF IInv, TypeOK, Statuses
  <2>6. req[p].id = None
    BY <2>0, <2>3 DEF Placed
  <2>7. PICK t \in Request : t = r
    BY <2>1
  <2>8. CalledBy(t)' = {t.key[2]} /\ CalledBy(req[p]) = {t.key[2]}
    BY <2>1, <2>5, <2>6, <2>7, NoneIsNothing DEF CalledBy, Called
  <2>9. vol' = vol
    BY <1>2
  <2>10. Remembers(t)'
    <3>1. t.id # None => inst'[t.id].status # "unused" /\ t.key \in inst'[t.id].names
      BY <2>1, <2>5, <2>7
    <3>2. t.pc # "check" /\ t.to = None
      BY <2>1, <2>4, <2>7
    <3>3. \A v \in VolIds, d \in Devs \cup {None} :
            KnownVolume(v, d, CalledBy(req[p])) => KnownVolume(v, d, {t.key[2]})'
      BY <2>8, <2>9 DEF KnownVolume
    <3>4. t.vid # None => KnownVolume(t.vid, t.dev, CalledBy(t))'
      BY <2>0, <2>1, <2>7, <2>8, <3>3 DEF Remembers, Request, KnownVolume
    <3>5. \A j \in t.snap : KnownVolume(j.vol, j.dev, CalledBy(t))'
      BY <2>0, <2>1, <2>7, <2>8, <3>3 DEF Remembers, Request, Join, KnownVolume
    <3>6. t.first # None => vol'[t.first].state # "unused" /\ vol'[t.first].key = t.key
      BY <2>0, <2>1, <2>7, <2>9 DEF Remembers
    <3>7. QED
      BY <3>1, <3>2, <3>4, <3>5, <3>6 DEF Remembers
  <2>11. Becomes(p, t) /\ Placed(t)
    BY <2>2, <2>4, <2>7
  <2>12. QED
    BY <2>10, <2>11, BecomesKnown DEF IInv
<1>3. ASSUME NEW i \in Ids, Becomes(p, [req[p] EXCEPT !.pc = "container", !.id = i])
      PROVE  Becomes(p, [req[p] EXCEPT !.pc = "container", !.id = i, !.todo = req[p].todo])
  <2>1. [req[p] EXCEPT !.pc = "container", !.id = i] =
          [req[p] EXCEPT !.pc = "container", !.id = i, !.todo = req[p].todo]
    BY Actor DEF Request
  <2>2. QED
    BY <1>3, <2>1
<1>4. req[p].todo \in SUBSET Devs
  BY Actor DEF Request
<1>5. ASSUME ~Done(p) PROVE KnowsNext(p)
  <2>1. PICK i \in Ids :
          /\ inst' = [inst EXCEPT ![i] =
               [status |-> IF req[p].op = "CreateAsync" THEN "creating" ELSE "running",
                key |-> req[p].key, volume |-> req[p].first, names |-> {req[p].key}]]
          /\ UNCHANGED vol
          /\ IF req[p].op = "CreateAsync"
               THEN Becomes(p, [req[p] EXCEPT !.pc = "container", !.id = i])
               ELSE Becomes(p, [req[p] EXCEPT !.pc = "joins", !.id = i, !.todo = Devs])
    BY <1>5 DEF InsertRow
  <2>2. CASE req[p].op = "CreateAsync"
    BY <1>2, <1>3, <1>4, <2>1, <2>2 DEF Statuses
  <2>3. CASE req[p].op # "CreateAsync"
    BY <1>2, <2>1, <2>3 DEF Statuses
  <2>4. QED
    BY <2>2, <2>3
<1>6. QED
  BY <1>1, <1>5

LEMMA RecordVolumeKnows ==
    ASSUME IInv, IdsKept, NEW p \in Procs, NEW d \in Devs, RecordVolume(p, d)
    PROVE  KnowsNext(p)
<1>1. Ready(req[p], "volumes") /\ req[p].pc = "volumes" /\ req[p].op \notin Moves
  BY Actor DEF RecordVolume, At, Placed, Ready, MoveLabels
<1>2. CASE NextDir(p, "volumes", d)
  BY <1>1, <1>2, NextDirKnows DEF Labels, WithVolume
<1>3. ASSUME NEW v \in VolIds, NEW f \in {req[p].first, v},
             vol' = [vol EXCEPT ![v] = [state |-> "live", key |-> req[p].key, dev |-> d]],
             Becomes(p, [req[p] EXCEPT !.pc = "volCreate", !.dev = d, !.vid = v, !.first = f])
      PROVE  KnowsNext(p)
  <2> DEFINE r == [req[p] EXCEPT !.pc = "volCreate", !.dev = d, !.vid = v, !.first = f]
  <2>0. req[p] \in Request /\ "volCreate" \in Labels /\ f \in VolIds \cup {None}
    BY Actor DEF Labels, Request
  <2>1. /\ r.pc = "volCreate" /\ r.id = req[p].id /\ r.op = req[p].op /\ r.key = req[p].key
        /\ r.vid = v /\ r.dev = d /\ r.first = f /\ r.snap = req[p].snap /\ r.to = req[p].to
        /\ r \in Request
    BY <2>0 DEF Request
  <2>2. Becomes(p, r)
    BY <1>3
  <2> HIDE DEF r
  <2>3. Placed(r) /\ r.to = None
    BY <1>1, <2>1, Actor, NoneIsNothing DEF Placed, Ready
  <2>4. vol'[v].state # "unused" /\ vol'[v].key = r.key /\ vol'[v].dev = d
    BY <1>3, <2>1 DEF IInv, TypeOK
  <2>5. CalledBy(r) = CalledBy(req[p]) /\ r.key[2] \in CalledBy(r)
    BY <2>1, Actor DEF CalledBy, Called, Remembers
  <2>6. RemembersNext(req[p]) /\ (req[p].id # None => inst[req[p].id].status # "unused")
    BY MemoryKept
  <2>7. r.first # None => vol'[r.first].state # "unused" /\ vol'[r.first].key = r.key
    BY <1>3, <2>1, <2>4, <2>6 DEF RemembersNext
  <2>8. RemembersNext(r)
    BY <2>1, <2>3, <2>4, <2>5, <2>6, <2>7 DEF RemembersNext
  <2>9. QED
    BY <2>1, <2>2, <2>3, <2>6, <2>8, BecomesKnows DEF IInv
<1>4. QED
  BY <1>2, <1>3 DEF RecordVolume

LEMMA FindVolumeKnows ==
    ASSUME IInv, IdsKept, NEW p \in Procs, NEW d \in Devs,
           FindVolume(p, d) \/ LookUpListed(p, d)
    PROVE  KnowsNext(p)
<1>1. /\ Ready(req[p], req[p].pc) /\ req[p].pc \in {"joins", "reattach", "delVols"}
      /\ req[p].op \notin Moves
  BY Actor DEF FindVolume, LookUpListed, At, Placed, Ready, MoveLabels
<1>2. CASE NextDir(p, req[p].pc, d) \/ (NextDir(p, "joins", d) /\ req[p].pc = "joins")
  BY <1>1, <1>2, NextDirKnows DEF Labels, WithVolume
<1>3. ASSUME NEW v \in VolIds, NEW l \in {"joinInsert", "attach", "delVol"},
             l = "joinInsert" <=> req[p].pc = "joins", KnownVolume(v, d, CalledBy(req[p])),
             Becomes(p, [req[p] EXCEPT !.pc = l, !.dev = d, !.vid = v])
      PROVE  KnowsNext(p)
  <2> DEFINE r == [req[p] EXCEPT !.pc = l, !.dev = d, !.vid = v]
  <2>0. req[p] \in Request /\ l \in Labels
    BY Actor DEF Labels
  <2>1. /\ r.pc = l /\ r.id = req[p].id /\ r.op = req[p].op /\ r.key = req[p].key
        /\ r.vid = v /\ r.dev = d /\ r.first = req[p].first /\ r.snap = req[p].snap
        /\ r.to = req[p].to /\ r \in Request
    BY <2>0 DEF Request
  <2>2. Becomes(p, r)
    BY <1>3
  <2> HIDE DEF r
  <2>3. Placed(r) /\ r.to = None
    BY <1>1, <1>3, <2>1, Actor, NoneIsNothing DEF Placed, Ready
  <2>4. CalledBy(r) = CalledBy(req[p])
    BY <2>1 DEF CalledBy
  <2>5. vol'[v].state # "unused" /\ vol'[v].key[2] \in CalledBy(r) /\ vol'[v].dev = d
    BY <1>3, <2>4 DEF IdsKept, KnownVolume
  <2>6. RemembersNext(req[p]) /\ (req[p].id # None => inst[req[p].id].status # "unused")
    BY MemoryKept
  <2>7. RemembersNext(r)
    BY <2>1, <2>3, <2>4, <2>5, <2>6 DEF RemembersNext
  <2>8. QED
    BY <2>1, <2>2, <2>3, <2>6, <2>7, BecomesKnows DEF IInv
<1>4. CASE FindVolume(p, d)
  <2>1. \/ NextDir(p, "joins", d)
        \/ \E v \in VolIds : /\ LiveVol(v) /\ vol[v].key[2] = req[p].key[2] /\ vol[v].dev = d
                             /\ Becomes(p, [req[p] EXCEPT !.pc = "joinInsert", !.dev = d, !.vid = v])
    BY <1>4 DEF FindVolume
  <2>2. req[p].pc = "joins" /\ req[p].key[2] \in CalledBy(req[p])
    BY <1>4, Actor DEF FindVolume, At, CalledBy, Called, Remembers
  <2>3. QED
    BY <1>2, <1>3, <2>1, <2>2 DEF LiveVol, KnownVolume
<1>5. CASE LookUpListed(p, d)
  <2>1. PICK j \in req[p].snap :
          /\ j.dev = d
          /\ IF LiveVol(j.vol)
               THEN Becomes(p, [req[p] EXCEPT !.dev = d, !.vid = j.vol,
                              !.pc = IF At(p, "reattach") THEN "attach" ELSE "delVol"])
               ELSE NextDir(p, req[p].pc, d)
    BY <1>5 DEF LookUpListed
  <2>2. /\ j.vol \in VolIds /\ KnownVolume(j.vol, d, CalledBy(req[p]))
        /\ req[p].pc \in {"reattach", "delVols"}
    BY <1>5, <2>1, Actor DEF Request, Join, Remembers, LookUpListed, At
  <2>3. CASE At(p, "reattach")
    <3>1. [req[p] EXCEPT !.dev = d, !.vid = j.vol, !.pc = "attach"] =
            [req[p] EXCEPT !.pc = "attach", !.dev = d, !.vid = j.vol]
      BY Actor DEF Request
    <3>2. QED
      BY <1>2, <1>3, <2>1, <2>2, <2>3, <3>1
  <2>4. CASE ~At(p, "reattach")
    <3>1. [req[p] EXCEPT !.dev = d, !.vid = j.vol, !.pc = "delVol"] =
            [req[p] EXCEPT !.pc = "delVol", !.dev = d, !.vid = j.vol]
      BY Actor DEF Request
    <3>2. QED
      BY <1>2, <1>3, <2>1, <2>2, <2>4, <3>1
  <2>5. QED
    BY <2>3, <2>4
<1>6. QED
  BY <1>4, <1>5

LEMMA ListVolumesKnows ==
    ASSUME IInv, IdsKept, NEW p \in Procs, ListVolumes(p)
    PROVE  KnowsNext(p)
<1> DEFINE J == {j \in joins : j.inst = req[p].id}
           l == IF req[p].op = "Rebuild" THEN "probe" ELSE "delRow"
           r == [req[p] EXCEPT !.snap = J, !.pc = l]
<1>1. Becomes(p, r) /\ req[p].pc = "list"
  BY DEF ListVolumes, At
<1>2. J \in SUBSET Join
  BY DEF IInv, TypeOK
<1>3. l \in {"probe", "delRow"} /\ l \in Labels /\ req[p] \in Request
  BY Actor DEF Labels
<1> HIDE DEF l
<1>4. \A j \in J : KnownVolume(j.vol, j.dev, CalledBy(req[p]))
  BY <1>2, Actor, NoneIsNothing
     DEF Join, CalledBy, KnownVolume, IInv, DbInv, JoinIntegrity, LiveVol
<1> HIDE DEF J
<1>5. /\ r.pc = l /\ r.id = req[p].id /\ r.op = req[p].op /\ r.key = req[p].key
      /\ r.vid = req[p].vid /\ r.dev = req[p].dev /\ r.first = req[p].first /\ r.snap = J
      /\ r.to = req[p].to /\ r \in Request
  BY <1>2, <1>3 DEF Request
<1> HIDE DEF r
<1>6. Placed(r) /\ r.to = None
  BY <1>1, <1>3, <1>5, Actor DEF Placed, WithVolume, MoveLabels
<1>7. CalledBy(r) = CalledBy(req[p])
  BY <1>5 DEF CalledBy
<1>8. \A j \in J : /\ vol'[j.vol].state # "unused"
                  /\ vol'[j.vol].key[2] \in CalledBy(r) /\ vol'[j.vol].dev = j.dev
  BY <1>2, <1>4, <1>7 DEF KnownVolume, IdsKept, Join
<1>9. RemembersNext(req[p]) /\ (req[p].id # None => inst[req[p].id].status # "unused")
  BY MemoryKept
<1>10. RemembersNext(r)
  BY <1>3, <1>5, <1>6, <1>7, <1>8, <1>9 DEF RemembersNext
<1>11. QED
  BY <1>1, <1>5, <1>6, <1>9, <1>10, BecomesKnows DEF IInv

\* Moves that leave the process's memory alone, under what its label implies.
LEMMA ProvisioningKnows ==
    ASSUME IInv, IdsKept, NEW p \in Procs,
           CreateContainer(p) \/ CreateVolume(p) \/ AttachNewVolume(p) \/ RemoveNewVolume(p)
             \/ UnrecordVolume(p) \/ StartContainer(p)
    PROVE  KnowsNext(p)
<1>0. req[p] \in Request /\ Placed(req[p])
  BY Actor
<1>0a. /\ req[p].op \notin Moves /\ req[p].pc # "check"
       /\ req[p].op = "Create" => req[p].id = None
  BY <1>0 DEF CreateContainer, CreateVolume, AttachNewVolume, RemoveNewVolume, UnrecordVolume,
              StartContainer, At, Placed, MoveLabels
<1>1. CASE CreateContainer(p)
  <2>1. req[p].key # None /\ (req[p].op # "Create" => req[p].id # None)
    BY <1>0, <1>1 DEF CreateContainer, At, Placed
  <2>2. Ready(req[p], "volumes") /\ Ready(req[p], "reattach") /\ Ready(req[p], "fail")
    BY <1>0a, <2>1 DEF Ready
  <2>3. DirsOf(req[p].snap) \in SUBSET Devs
    BY <1>0, DirsOfType DEF Request
  <2>4. CASE Loop(p, "volumes", Devs) \/ Loop(p, "reattach", DirsOf(req[p].snap))
    BY <2>2, <2>3, <2>4, LoopKnows DEF Labels, WithVolume
  <2>5. CASE Done(p)
    BY <2>5, DoneKnows DEF IInv
  <2>6. CASE Goto(p, "fail")
    BY <2>2, <2>6, GotoKnows DEF Labels, WithVolume
  <2>7. QED
    BY <1>1, <2>4, <2>5, <2>6 DEF CreateContainer
<1>2. CASE CreateVolume(p)
  <2>1. req[p].key # None /\ (req[p].op # "Create" => req[p].id # None)
        /\ req[p].vid # None /\ req[p].dev # None
    BY <1>0, <1>2 DEF CreateVolume, At, Placed, WithVolume
  <2>2. Ready(req[p], "volAttach") /\ Ready(req[p], "volUnrecord")
    BY <1>0a, <2>1 DEF Ready
  <2>3. QED
    BY <1>2, <2>1, <2>2, GotoKnows DEF CreateVolume, Labels
<1>3. CASE AttachNewVolume(p)
  <2>1. req[p].key # None /\ (req[p].op # "Create" => req[p].id # None)
        /\ req[p].vid # None /\ req[p].dev # None
    BY <1>0, <1>3 DEF AttachNewVolume, At, Placed, WithVolume
  <2>2. Ready(req[p], "volUndo") /\ Ready(req[p], "volumes")
    BY <1>0a, <2>1 DEF Ready
  <2>3. CASE NextDir(p, "volumes", req[p].dev)
    BY <2>2, <2>3, NextDirKnows DEF Labels, WithVolume
  <2>4. CASE Goto(p, "volUndo")
    BY <2>1, <2>2, <2>4, GotoKnows DEF Labels
  <2>5. CASE ~Creating(p) /\ Goto(p, "volJoin")
    <3>1. Ready(req[p], "volJoin")
      BY <1>0a, <2>1, <2>5 DEF Ready, Creating
    <3>2. QED
      BY <2>1, <2>5, <3>1, GotoKnows DEF Labels
  <2>6. QED
    BY <1>3, <2>3, <2>4, <2>5 DEF AttachNewVolume
<1>4. CASE RemoveNewVolume(p)
  <2>1. Ready(req[p], "volUnrecord") /\ req[p].vid # None /\ req[p].dev # None
    BY <1>0, <1>0a, <1>4 DEF RemoveNewVolume, At, Placed, WithVolume, Ready
  <2>2. QED
    BY <1>4, <2>1, GotoKnows DEF RemoveNewVolume, Labels
<1>5. CASE UnrecordVolume(p)
  <2>1. Ready(req[p], "volumes")
    BY <1>0, <1>0a, <1>5 DEF UnrecordVolume, At, Placed, Ready
  <2>2. QED
    BY <1>5, <2>1, NextDirKnows DEF UnrecordVolume, Labels, WithVolume
<1>6. CASE StartContainer(p)
  <2>1. req[p].key # None /\ (req[p].op # "Create" => req[p].id # None)
    BY <1>0, <1>6 DEF StartContainer, At, Placed
  <2>2. /\ req[p].op = "Create" => Ready(req[p], "insert")
        /\ Ready(req[p], "ready") /\ Ready(req[p], "fail")
    BY <1>0a, <2>1 DEF Ready
  <2>3. CASE Done(p)
    BY <2>3, DoneKnows DEF IInv
  <2>4. CASE (req[p].op = "Create" /\ Goto(p, "insert")) \/ Goto(p, "ready") \/ Goto(p, "fail")
    BY <2>2, <2>4, GotoKnows DEF Labels, WithVolume
  <2>5. CASE req[p].op = "CreateAsync" /\ Loop(p, "joins", Devs)
    <3>1. Ready(req[p], "joins")
      BY <1>0a, <2>1, <2>5 DEF Ready
    <3>2. QED
      BY <2>5, <3>1, LoopKnows DEF Labels, WithVolume
  <2>6. QED
    BY <1>6, <2>3, <2>4, <2>5 DEF StartContainer
<1>7. QED
  BY <1>1, <1>2, <1>3, <1>4, <1>5, <1>6

LEMMA JoinKnows ==
    ASSUME IInv, IdsKept, NEW p \in Procs, JoinNewVolume(p) \/ JoinFoundVolume(p)
    PROVE  KnowsNext(p)
<1>1. /\ At(p, "volJoin") => Ready(req[p], "volumes")
      /\ At(p, "joinInsert") => Ready(req[p], "joins")
  BY Actor DEF JoinNewVolume, JoinFoundVolume, At, Placed, Ready, MoveLabels
<1>2. QED
  BY <1>1, NextDirKnows DEF JoinNewVolume, JoinFoundVolume, Labels, WithVolume

LEMMA TeardownKnows ==
    ASSUME IInv, IdsKept, NEW p \in Procs,
           ProbeContainer(p) \/ StopIgnored(p) \/ RemoveContainer(p) \/ Reattach(p)
             \/ DeleteRow(p) \/ DeleteVolume(p) \/ DeleteVolumeRecord(p)
             \/ (\E d \in Devs : DetachVolume(p, d))
    PROVE  KnowsNext(p)
<1>1. req[p] \in Request /\ Placed(req[p])
  BY Actor
<1>2. req[p].pc \in {"probe", "rbStop", "delStop", "detach", "delContainer", "attach",
                     "delRow", "delVol", "delRec"}
  BY DEF ProbeContainer, StopIgnored, RemoveContainer, Reattach, DeleteRow, DeleteVolume,
         DeleteVolumeRecord, DetachVolume, At
<1>3. /\ req[p].key # None /\ (req[p].op # "Create" => req[p].id # None)
      /\ req[p].op \notin Moves /\ req[p].pc # "check"
      /\ req[p].op = "Create" => req[p].id = None
  BY <1>1, <1>2 DEF Placed, MoveLabels
<1>4. \A l \in {"rbStop", "container", "list", "detach", "delVols", "reattach",
               "delContainer", "delRec"} : Ready(req[p], l)
  BY <1>3 DEF Ready
<1>5. DirsOf(req[p].snap) \in SUBSET Devs
  BY <1>1, DirsOfType DEF Request
<1>6. ASSUME NEW l \in {"rbStop", "container", "list", "delContainer"}, Goto(p, l)
      PROVE  KnowsNext(p)
  BY <1>4, <1>6, GotoKnows DEF Labels, WithVolume
<1>7. ASSUME NEW l \in {"detach", "delVols"}, Loop(p, l, DirsOf(req[p].snap))
      PROVE  KnowsNext(p)
  BY <1>4, <1>5, <1>7, LoopKnows DEF Labels, WithVolume
<1>8. ASSUME NEW l \in {"detach", "delVols", "reattach"}, NEW d, NextDir(p, l, d)
      PROVE  KnowsNext(p)
  BY <1>4, <1>8, NextDirKnows DEF Labels, WithVolume
<1>9. CASE ProbeContainer(p) \/ StopIgnored(p) \/ DeleteRow(p)
  BY <1>6, <1>7, <1>9 DEF ProbeContainer, StopIgnored, DeleteRow
<1>10. CASE RemoveContainer(p)
  <2>1. CASE Done(p)
    BY <2>1, DoneKnows DEF IInv
  <2>2. QED
    BY <1>6, <1>7, <1>10, <2>1 DEF RemoveContainer
<1>11. CASE Reattach(p) \/ DeleteVolumeRecord(p) \/ (\E d \in Devs : DetachVolume(p, d))
  BY <1>8, <1>11 DEF Reattach, DeleteVolumeRecord, DetachVolume
<1>12. CASE DeleteVolume(p)
  <2>1. req[p].vid # None /\ req[p].dev # None
    BY <1>1, <1>12 DEF DeleteVolume, At, Placed, WithVolume
  <2>2. QED
    BY <1>4, <1>12, <2>1, GotoKnows DEF DeleteVolume, Labels
<1>13. QED
  BY <1>9, <1>10, <1>11, <1>12

LEMMA StartStopKnows ==
    ASSUME IInv, IdsKept, NEW p \in Procs,
           StartRequested(p) \/ StopRequested(p) \/ StatusWritten(p) \/ FinalizeRunning(p)
             \/ FinalizeError(p) \/ Return(p)
    PROVE  KnowsNext(p)
<1>1. CASE Done(p)
  BY <1>1, DoneKnows DEF IInv
<1>2. CASE StartRequested(p) \/ StopRequested(p)
  <2>1. Ready(req[p], "started") /\ Ready(req[p], "stopped")
    BY <1>2, Actor DEF StartRequested, StopRequested, At, Placed, Ready, MoveLabels
  <2>2. CASE Goto(p, "started") \/ Goto(p, "stopped")
    BY <2>1, <2>2, GotoKnows DEF Labels, WithVolume
  <2>3. QED
    BY <1>1, <1>2, <2>2 DEF StartRequested, StopRequested
<1>3. CASE StatusWritten(p) /\ ~Done(p)
  <2>1. Ready(req[p], "move") /\ Goto(p, "move")
    BY <1>3, Actor DEF StatusWritten, At, Placed, Ready, MoveLabels, Moves
  <2>2. QED
    BY <2>1, GotoKnows DEF Labels, WithVolume
<1>4. QED
  BY <1>1, <1>2, <1>3 DEF FinalizeRunning, FinalizeError, Return

LEMMA RestartKnows ==
    ASSUME IInv, IdsKept, NEW p \in Procs, Restart(p), req[p].op \in Moves, req[p].pc # "check"
    PROVE  KnowsNext(p)
<1>1. CASE Done(p)
  BY <1>1, DoneKnows DEF IInv
<1>2. CASE Goto(p, "start")
  <2>1. Ready(req[p], "start")
    BY Actor, Mover, NoneIsNothing DEF Ready, MoveLabels, Moves
  <2>2. QED
    BY <1>2, <2>1, GotoKnows DEF Labels, WithVolume
<1>3. QED
  BY <1>1, <1>2 DEF Restart

LEMMA CheckNameKnows ==
    ASSUME IInv, IdsKept, NEW p \in Procs, CheckName(p)
    PROVE  KnowsNext(p)
<1>1. CASE Done(p)
  BY <1>1, DoneKnows DEF IInv
<1>2. ASSUME NEW l \in {"stop", "move"}, Goto(p, l),
             inst' = [inst EXCEPT ![req[p].id].names = @ \cup {req[p].to}]
      PROVE  KnowsNext(p)
  <2> DEFINE r == [req[p] EXCEPT !.pc = l]
  <2>1. req[p] \in Request /\ Placed(req[p]) /\ Remembers(req[p]) /\ req[p].pc = "check"
    BY Actor DEF CheckName, At
  <2>2. /\ r \in Request /\ r.pc = l /\ r.op = req[p].op /\ r.id = req[p].id /\ r.key = req[p].key
        /\ r.vid = req[p].vid /\ r.dev = req[p].dev /\ r.first = req[p].first
        /\ r.snap = req[p].snap /\ r.to = req[p].to
    BY <2>1 DEF Request, Labels
  <2>3. Becomes(p, r)
    BY <1>2 DEF Goto
  <2> HIDE DEF r
  <2>4. r.op \in Moves /\ Placed(r)
    BY <2>1, <2>2 DEF Placed, WithVolume, MoveLabels
  <2>5. /\ r.id \in Ids /\ inst[r.id].names \subseteq Keys /\ r.key \in inst[r.id].names
        /\ r.key # r.to
    BY <2>1, <2>2, <2>4, Mover DEF Remembers, IInv, TypeOK, Row
  <2>6. inst'[r.id].names = inst[r.id].names \cup {r.to}
    BY <1>2, <2>2, <2>5 DEF IInv, TypeOK, Row
  <2>7. r.to \in inst'[r.id].names /\ inst'[r.id].names # {r.to}
    BY <2>5, <2>6
  <2>8. CalledBy(r) = CalledBy(req[p])
    BY <2>2 DEF CalledBy
  <2>9. RemembersNext(req[p]) /\ (req[p].id # None => inst[req[p].id].status # "unused")
    BY MemoryKept
  <2>10. RemembersNext(r)
    BY <2>2, <2>7, <2>8, <2>9 DEF RemembersNext
  <2>11. QED
    BY <2>2, <2>3, <2>4, <2>9, <2>10, BecomesKnows DEF IInv
<1>3. QED
  BY <1>1, <1>2 DEF CheckName

LEMMA RecordNameKnows ==
    ASSUME IInv, IdsKept, NEW p \in Procs, RecordName(p)
    PROVE  KnowsNext(p)
<1>1. /\ req[p] \in Request /\ Placed(req[p]) /\ Remembers(req[p]) /\ req[p].pc = "record"
      /\ req[p].op \in Moves
  BY Actor DEF RecordName, At, Placed
<1>2. CASE Becomes(p, Idle)
  BY <1>2, DoneKnows DEF IInv, Done
<1>3. CASE Goto(p, "undo")
  <2>1. Ready(req[p], "undo")
    BY <1>1, Mover, NoneIsNothing DEF Ready, MoveLabels, Moves
  <2>2. QED
    BY <1>3, <2>1, GotoKnows DEF Labels, WithVolume
<1>4. CASE Becomes(p, [req[p] EXCEPT !.pc = "start", !.key = req[p].to])
  <2> DEFINE r == [req[p] EXCEPT !.pc = "start", !.key = req[p].to]
  <2>1. /\ r \in Request /\ r.pc = "start" /\ r.op = req[p].op /\ r.id = req[p].id
        /\ r.key = req[p].to /\ r.vid = req[p].vid /\ r.dev = req[p].dev
        /\ r.first = req[p].first /\ r.snap = req[p].snap /\ r.to = req[p].to
    BY <1>1 DEF Request, Labels
  <2>2. Becomes(p, r)
    BY <1>4
  <2> HIDE DEF r
  <2>3. Placed(r) /\ r.id \in Ids /\ r.first = None
    BY <1>1, <2>1, Mover, NoneIsNothing DEF Placed, WithVolume, MoveLabels, Moves
  <2>4. CalledBy(r) = CalledBy(req[p])
    BY <2>1, <2>3, NoneIsNothing DEF CalledBy
  <2>5. RemembersNext(req[p]) /\ (req[p].id # None => inst[req[p].id].status # "unused")
    BY MemoryKept
  <2>6. req[p].to # None
    BY <1>1 DEF Placed
  <2>7. RemembersNext(r)
    BY <1>1, <2>1, <2>3, <2>4, <2>5, <2>6 DEF RemembersNext
  <2>8. QED
    BY <2>1, <2>2, <2>3, <2>5, <2>7, BecomesKnows DEF IInv
<1>5. QED
  BY <1>2, <1>3, <1>4 DEF RecordName

LEMMA MoveKnows ==
    ASSUME IInv, IdsKept, NEW p \in Procs, MoveContainer(p) \/ UndoMove(p)
    PROVE  KnowsNext(p)
<1>1. req[p].op \in Moves /\ req[p].pc \in {"move", "undo"}
  BY Actor DEF MoveContainer, UndoMove, At, Placed
<1>2. CASE Restart(p)
  BY <1>1, <1>2, RestartKnows
<1>3. CASE Goto(p, "record")
  <2>1. Ready(req[p], "record")
    BY <1>1, Mover, NoneIsNothing DEF Ready, MoveLabels, Moves
  <2>2. QED
    BY <1>3, <2>1, GotoKnows DEF Labels, WithVolume
<1>4. QED
  BY <1>2, <1>3 DEF MoveContainer, UndoMove

LEMMA StepKnows ==
    ASSUME IInv, IdsKept, NEW p \in Procs, Begin(p) \/ Step(p)
    PROVE  KnowsNext(p)
BY BeginCreateKnows, BeginOnKnows, InsertRowKnows, RecordVolumeKnows, FindVolumeKnows,
   ListVolumesKnows, ProvisioningKnows, JoinKnows, TeardownKnows, StartStopKnows,
   BeginMoveKnows, CheckNameKnows, RecordNameKnows, MoveKnows
   DEF Begin, Step

-----------------------------------------------------------------------------
(* The invariant and what follows from it.                                 *)

LEMMA StepCrashes ==
    ASSUME NEW p \in Procs, Begin(p) \/ Step(p)
    PROVE  UNCHANGED crashes
BY DEF Begin, Step, BeginCreate, BeginOn, InsertRow, CreateContainer, StartContainer,
       CreateVolume, AttachNewVolume, RemoveNewVolume, UnrecordVolume, JoinNewVolume,
       JoinFoundVolume, FinalizeRunning, FinalizeError, StartRequested, StopRequested,
       StatusWritten, ListVolumes, ProbeContainer, StopIgnored, RemoveContainer, Reattach,
       DeleteRow, DeleteVolume, DeleteVolumeRecord, Return, RecordVolume, FindVolume,
       DetachVolume, LookUpListed, BeginMove, CheckName, MoveContainer, RecordName, UndoMove

LEMMA InitIInv == Init => IInv
<1>1. SUFFICES ASSUME Init PROVE IInv
  OBVIOUS
<1>2. TypeOK
  BY <1>1, BoundsAssumption, IdleFields DEF Init, TypeOK, Row, VolRow
<1>3. DbInv
  BY <1>1 DEF Init, DbInv, UniqueKeys, JoinIntegrity, VolumesNamed, Live, Statuses
<1>4. \A p \in Procs : req[p] = Idle
  BY <1>1 DEF Init
<1>5. Placed(Idle)
  BY DEF Placed, Idle, WithVolume, Moves
<1>6. MemoryHolds
  BY <1>4, <1>5, IdleFields DEF MemoryHolds, Knows, Remembers
<1>7. QED
  BY <1>2, <1>3, <1>6 DEF IInv

LEMMA CrashKeeps ==
    ASSUME IInv, Crash
    PROVE  IInv' /\ IdsKept
<1>1. DbTyped' /\ DbInv' /\ IdsKept
  BY DbUnchanged DEF IInv, Crash
<1>2. TypeOK'
  BY <1>1, IdleFields, BoundsAssumption DEF IInv, TypeOK, Crash, DbTyped, incus
<1>3. \A p \in Procs : req'[p] = Idle
  BY DEF Crash
<1>4. Placed(Idle)
  BY DEF Placed, Idle, WithVolume, Moves
<1>5. \A p \in Procs : Placed(req'[p]) /\ Remembers(req[p])'
  BY <1>3, <1>4, IdleFields DEF Remembers
<1>6. MemoryHolds'
  BY <1>5 DEF MemoryHolds, Knows, Placed
<1>7. QED
  BY <1>1, <1>2, <1>6 DEF IInv

LEMMA NextIInv == IInv /\ [Next]_vars => IInv' /\ IdsKept
<1>1. SUFFICES ASSUME IInv, [Next]_vars PROVE IInv' /\ IdsKept
  OBVIOUS
<1>2. CASE UNCHANGED vars
  <2>1. IdsKept
    BY <1>2 DEF vars, IdsKept
  <2>2. TypeOK' /\ DbInv'
    <3>1. TypeOK'
      BY <1>1, <1>2 DEF vars, IInv, TypeOK
    <3>2. DbInv'
      BY <1>1, <1>2, DbUnchanged DEF vars, IInv, db
    <3>3. QED
      BY <3>1, <3>2
  <2>3. MemoryHolds'
    BY <1>1, <1>2 DEF vars, IInv, MemoryHolds, Knows, Placed, Remembers, KnownVolume, CalledBy,
                      Called
  <2>4. QED
    BY <2>1, <2>2, <2>3 DEF IInv
<1>3. ASSUME NEW p \in Procs, Begin(p) \/ Step(p) PROVE IInv' /\ IdsKept
  <2>1. DbTyped' /\ DbInv' /\ IdsKept
    BY <1>1, <1>3, StepDb
  <2>2. KnowsNext(p)
    BY <1>1, <1>3, <2>1, StepKnows
  <2>3. MemoryHolds'
    BY <1>1, <2>1, <2>2, OthersKnow
  <2>4. TypeOK'
    BY <1>1, <1>3, <2>1, <2>2, StepIncus, StepCrashes
       DEF IInv, TypeOK, DbTyped, IncusTyped, KnowsNext
  <2>5. QED
    BY <2>1, <2>3, <2>4 DEF IInv
<1>4. CASE Crash
  BY <1>1, <1>4, CrashKeeps
<1>5. QED
  BY <1>1, <1>2, <1>3, <1>4 DEF Next

\* Every row, every container state and every request stays of its type,
\* whatever requests interleave, fail or crash.
THEOREM TypeCorrect == Spec => []TypeOK
<1>1. IInv => TypeOK
  BY DEF IInv
<1>2. QED
  BY InitIInv, NextIInv, <1>1, PTL DEF Spec

\* What instance_volumes and volume_id say is about volumes of a name that the
\* instance has had, although FindVolume, JoinFoundVolume and JoinNewVolume write
\* ids that were read before other requests deleted, created and renamed rows.
THEOREM JoinsAreOwn == Spec => []JoinIntegrity
<1>1. IInv => JoinIntegrity
  BY DEF IInv, DbInv
<1>2. QED
  BY InitIInv, NextIInv, <1>1, PTL DEF Spec

\* What a request has read of the database - a key of the row, the volume ids
\* and the list of joins - is still true of the ids it holds at every later
\* call: the row has had that key, if it has it no longer, and the volumes have
\* a name of the row's.
THEOREM MemoryIsTrue == Spec => []MemoryHolds
<1>1. IInv => MemoryHolds
  BY DEF IInv
<1>2. QED
  BY InitIInv, NextIInv, <1>1, PTL DEF Spec

OneServer == \A s, t \in Servers : s = t

\* With one server no two instances share a volume, unless it has a name that
\* one of them gave up: the incus_name is unique on it, and the look-up by name
\* can find nothing else of another instance.
THEOREM OneServerSharesNothing ==
    ASSUME OneServer
    PROVE  Spec => []NoSharedVolume
<1>1. IInv => NoSharedVolume
  <2>1. SUFFICES ASSUME IInv, NEW j \in joins, NEW k \in joins, j.vol = k.vol,
                        vol[j.vol].key \notin Renamed
                 PROVE  j.inst = k.inst
    BY DEF NoSharedVolume
  <2> DEFINE x == vol[j.vol].key
  <2>2. /\ j.inst \in Ids /\ k.inst \in Ids /\ Live(j.inst) /\ Live(k.inst)
        /\ x[2] \in Called(j.inst) /\ x[2] \in Called(k.inst) /\ x \in Keys
    BY <2>1 DEF IInv, DbInv, JoinIntegrity, TypeOK, Join, VolumesNamed, LiveVol
  <2> HIDE DEF x
  <2>3. ASSUME NEW i \in Ids, x[2] \in Called(i), Live(i), x \notin Renamed
        PROVE  inst[i].key = x
    <3>1. PICK l \in inst[i].names : l[2] = x[2]
      BY <2>3 DEF Called
    <3>2. inst[i].names \subseteq Keys
      BY <2>1, <2>3 DEF IInv, TypeOK, Row
    <3>3. l = x
      BY <2>2, <3>1, <3>2 DEF OneServer, Keys
    <3>4. inst[i].names = {x}
      BY <2>2, <2>3, <3>1, <3>3 DEF Renamed
    <3>5. QED
      BY <2>1, <2>3, <3>4 DEF IInv, DbInv, UniqueKeys
  <2>4. inst[j.inst].key = inst[k.inst].key
    BY <2>1, <2>2, <2>3 DEF x
  <2>5. QED
    BY <2>1, <2>2, <2>4 DEF IInv, DbInv, UniqueKeys
<1>2. QED
  BY InitIInv, NextIInv, <1>1, PTL DEF Spec

-----------------------------------------------------------------------------
(* Control flow, for any number of processes.                              *)

\* The labels of each operation.
Places ==
    [none        |-> {"idle"},
     CreateAsync |-> {"insert", "container", "volumes", "volCreate", "volAttach", "volUndo",
                      "volUnrecord", "joins", "joinInsert", "fail"},
     Create      |-> {"container", "volumes", "volCreate", "volAttach", "volUndo",
                      "volUnrecord", "insert", "joins", "joinInsert"},
     Start       |-> {"start", "started"},
     Stop        |-> {"stop", "stopped"},
     Sleep       |-> {"stop", "stopped"},
     Rebuild     |-> {"list", "probe", "rbStop", "detach", "container", "volumes", "volCreate",
                      "volAttach", "volUndo", "volUnrecord", "volJoin", "reattach", "attach",
                      "ready", "fail"},
     Delete      |-> {"delStop", "list", "delRow", "delContainer", "delVols", "delVol",
                      "delRec"},
     Rename         |-> MoveLabels,
     TransferToUser |-> MoveLabels]

InPlace(r) == r.pc \in Places[r.op]

OnCourse == \A p \in Procs : InPlace(req[p])

\* The process moves to label l: with the loop's dir and volume, or to the
\* next dir, or to its end.
Same(r, s) == /\ s.op = r.op /\ s.id = r.id /\ s.key = r.key
              /\ s.snap = r.snap /\ s.first = r.first
Goes(p, l)  == /\ req'[p].pc = l /\ Same(req[p], req'[p])
               /\ req'[p].vid = req[p].vid /\ req'[p].dev = req[p].dev
Turns(p, l) == /\ req'[p].pc = l /\ Same(req[p], req'[p])
               /\ req'[p].vid = None /\ req'[p].dev = None
Ends(p)     == req'[p] = Idle

LEMMA ControlMoves ==
    ASSUME TypeOK, NEW p \in Procs
    PROVE  /\ \A l : Goto(p, l) => Goes(p, l)
           /\ \A l, D : Loop(p, l, D) => Goes(p, l)
           /\ \A l, d : NextDir(p, l, d) => Turns(p, l)
           /\ Done(p) => Ends(p)
<1>1. req[p] \in Request
  BY DEF TypeOK
<1>2. \A r : Becomes(p, r) => req'[p] = r
  BY DEF TypeOK, Becomes
<1>3. ASSUME NEW l, Goto(p, l) PROVE Goes(p, l)
  BY <1>1, <1>2, <1>3 DEF Goto, Goes, Same, Request
<1>4. ASSUME NEW l, NEW D, Loop(p, l, D) PROVE Goes(p, l)
  BY <1>1, <1>2, <1>4 DEF Loop, Goes, Same, Request
<1>5. ASSUME NEW l, NEW d, NextDir(p, l, d) PROVE Turns(p, l)
  BY <1>1, <1>2, <1>5 DEF NextDir, Turns, Same, Request
<1>6. Done(p) => Ends(p)
  BY <1>2 DEF Done, Ends
<1>7. QED
  BY <1>3, <1>4, <1>5, <1>6

LEMMA IdleIs ==
    /\ Idle.op = "none" /\ Idle.pc = "idle" /\ Idle.key = None /\ Idle.id = None
    /\ Idle.vid = None /\ Idle.dev = None /\ InPlace(Idle)
BY DEF Idle, InPlace, Places, MoveLabels

\* The steps that write more of the request than its label.
BeganOn(p, o, k, l, i) ==
    /\ req'[p].op = o /\ req'[p].pc = l /\ req'[p].key = k /\ req'[p].id = i
    /\ req'[p].vid = None /\ req'[p].dev = None
Takes(p, l, v, d) ==
    /\ req'[p].pc = l /\ req'[p].vid = v /\ req'[p].dev = d
    /\ req'[p].op = req[p].op /\ req'[p].id = req[p].id /\ req'[p].key = req[p].key

LEMMA BeginCreateIs ==
    ASSUME TypeOK, NEW p \in Procs, NEW o \in AllOps, NEW n \in Names, BeginCreate(p, o, n)
    PROVE  /\ o \in Ops /\ UNCHANGED <<db, incus, crashes>>
           /\ o = "Create" => \A i \in Ids : Live(i) => inst[i].key[2] # n
           /\ \E s \in Servers :
                \/ o = "CreateAsync" /\ BeganOn(p, o, <<s, n>>, "insert", None)
                \/ o = "Create" /\ BeganOn(p, o, <<s, n>>, "container", None)
<1>1. PICK s \in Servers :
        Becomes(p, [Idle EXCEPT !.op = o, !.key = <<s, n>>,
                      !.pc = IF o = "CreateAsync" THEN "insert" ELSE "container"])
  BY DEF BeginCreate
<1>2. req'[p] = [Idle EXCEPT !.op = o, !.key = <<s, n>>,
                   !.pc = IF o = "CreateAsync" THEN "insert" ELSE "container"]
  BY <1>1 DEF Becomes, TypeOK
<1>3. o \in {"CreateAsync", "Create"}
  BY DEF BeginCreate
<1>4. BeganOn(p, o, <<s, n>>, IF o = "CreateAsync" THEN "insert" ELSE "container", None)
  BY <1>2 DEF BeganOn, Idle
<1>5. QED
  BY <1>3, <1>4 DEF BeginCreate

LEMMA BeginOnIs ==
    ASSUME TypeOK, NEW p \in Procs, NEW o \in AllOps, NEW i \in Ids, BeginOn(p, o, i)
    PROVE  /\ Live(i) /\ UNCHANGED <<db, incus, crashes>>
           /\ \/ o = "Start" /\ BeganOn(p, o, inst[i].key, "start", i)
              \/ o \in {"Stop", "Sleep"} /\ BeganOn(p, o, inst[i].key, "stop", i)
              \/ o = "Rebuild" /\ BeganOn(p, o, inst[i].key, "list", i)
              \/ o = "Delete" /\ BeganOn(p, o, inst[i].key, "delStop", i)
<1>1. req'[p] = [Idle EXCEPT !.op = o, !.pc = FirstCall[o], !.id = i, !.key = inst[i].key]
  BY DEF BeginOn, Becomes, TypeOK
<1>2. o \in {"Start", "Stop", "Sleep", "Rebuild", "Delete"}
  BY DEF BeginOn, FirstCall
<1>3. BeganOn(p, o, inst[i].key, FirstCall[o], i)
  BY <1>1 DEF BeganOn, Idle
<1>4. QED
  BY <1>2, <1>3 DEF BeginOn, FirstCall

LEMMA BeginMoveIs ==
    ASSUME TypeOK, NEW p \in Procs, NEW o \in AllOps, NEW i \in Ids, NEW n \in Names,
           BeginMove(p, o, i, n)
    PROVE  /\ Live(i) /\ o \in Moves /\ UNCHANGED <<db, incus, crashes>>
           /\ BeganOn(p, o, inst[i].key, "check", i)
           /\ req'[p].to = <<inst[i].key[1], n>> /\ n # inst[i].key[2]
<1>1. req'[p] = [Idle EXCEPT !.op = o, !.pc = "check", !.id = i, !.key = inst[i].key,
                   !.to = <<inst[i].key[1], n>>, !.was = inst[i].status = "running"]
  BY DEF BeginMove, Becomes, TypeOK
<1>2. BeganOn(p, o, inst[i].key, "check", i) /\ req'[p].to = <<inst[i].key[1], n>>
  BY <1>1 DEF BeganOn, Idle
<1>3. QED
  BY <1>2 DEF BeginMove

LEMMA InsertRowIs ==
    ASSUME TypeOK, NEW p \in Procs, InsertRow(p)
    PROVE  /\ req[p].pc = "insert" /\ UNCHANGED <<vol, joins, incus, crashes>>
           /\ \/ UNCHANGED inst /\ Ends(p)
              \/ \E i \in Ids, s \in {"creating", "running"} :
                   /\ inst' = [inst EXCEPT ![i] = [status |-> s, key |-> req[p].key,
                                                   volume |-> req[p].first,
                                                   names |-> {req[p].key}]]
                   /\ inst[i].status = "unused"
                   /\ \A j \in Ids : Live(j) => inst[j].key # req[p].key
                   /\ req'[p].op = req[p].op /\ req'[p].id = i /\ req'[p].key = req[p].key
                   /\ \/ req[p].op = "CreateAsync" /\ s = "creating" /\ req'[p].pc = "container"
                      \/ req[p].op # "CreateAsync" /\ s = "running" /\ req'[p].pc = "joins"
<1>0. req[p] \in Request /\ \A r : Becomes(p, r) => req'[p] = r
  BY DEF TypeOK, Becomes
<1>1. CASE Done(p) /\ UNCHANGED inst
  BY <1>1, ControlMoves DEF InsertRow, At
<1>2. CASE \E i \in Ids :
             /\ FreshId(i)
             /\ inst' = [inst EXCEPT ![i] =
                  [status |-> IF req[p].op = "CreateAsync" THEN "creating" ELSE "running",
                   key |-> req[p].key, volume |-> req[p].first, names |-> {req[p].key}]]
             /\ IF req[p].op = "CreateAsync"
                  THEN Becomes(p, [req[p] EXCEPT !.pc = "container", !.id = i])
                  ELSE Becomes(p, [req[p] EXCEPT !.pc = "joins", !.id = i, !.todo = Devs])
  <2>1. PICK i \in Ids :
          /\ FreshId(i)
          /\ inst' = [inst EXCEPT ![i] =
               [status |-> IF req[p].op = "CreateAsync" THEN "creating" ELSE "running",
                key |-> req[p].key, volume |-> req[p].first, names |-> {req[p].key}]]
          /\ IF req[p].op = "CreateAsync"
               THEN Becomes(p, [req[p] EXCEPT !.pc = "container", !.id = i])
               ELSE Becomes(p, [req[p] EXCEPT !.pc = "joins", !.id = i, !.todo = Devs])
    BY <1>2
  <2>2. CASE RowAccepted(req[p].key, req[p].first)
    <3>1. \A j \in Ids : Live(j) => inst[j].key # req[p].key
      BY <2>2 DEF RowAccepted
    <3>2. CASE req[p].op = "CreateAsync"
      <4>1. req'[p] = [req[p] EXCEPT !.pc = "container", !.id = i]
        BY <1>0, <2>1, <3>2
      <4>2. /\ req'[p].op = req[p].op /\ req'[p].id = i /\ req'[p].key = req[p].key
            /\ req'[p].pc = "container"
        BY <1>0, <4>1 DEF Request
      <4>3. QED
        BY <2>1, <3>1, <3>2, <4>2 DEF InsertRow, At, FreshId
    <3>3. CASE req[p].op # "CreateAsync"
      <4>1. req'[p] = [req[p] EXCEPT !.pc = "joins", !.id = i, !.todo = Devs]
        BY <1>0, <2>1, <3>3
      <4>2. /\ req'[p].op = req[p].op /\ req'[p].id = i /\ req'[p].key = req[p].key
            /\ req'[p].pc = "joins"
        BY <1>0, <4>1 DEF Request
      <4>3. QED
        BY <2>1, <3>1, <3>3, <4>2 DEF InsertRow, At, FreshId
    <3>4. QED
      BY <3>2, <3>3
  <2>3. CASE ~RowAccepted(req[p].key, req[p].first)
    BY <1>1, <2>3 DEF InsertRow
  <2>4. QED
    BY <2>2, <2>3
<1>3. QED
  BY <1>1, <1>2 DEF InsertRow

LEMMA RecordVolumeIs ==
    ASSUME TypeOK, NEW p \in Procs, NEW d \in Devs, RecordVolume(p, d)
    PROVE  /\ req[p].pc = "volumes" /\ UNCHANGED <<inst, joins, incus, crashes>>
           /\ \/ UNCHANGED vol /\ Turns(p, "volumes")
              \/ \E v \in VolIds :
                   /\ vol[v].state = "unused"
                   /\ vol' = [vol EXCEPT ![v] = [state |-> "live", key |-> req[p].key, dev |-> d]]
                   /\ \A w \in VolIds :
                        LiveVol(w) => ~(vol[w].key = req[p].key /\ vol[w].dev = d)
                   /\ Takes(p, "volCreate", v, d)
<1>0. req[p] \in Request /\ \A r : Becomes(p, r) => req'[p] = r
  BY DEF TypeOK, Becomes
<1> DEFINE taken == \E v \in VolIds : LiveVol(v) /\ vol[v].key = req[p].key /\ vol[v].dev = d
<1>1. CASE taken
  BY <1>1, ControlMoves DEF RecordVolume, At
<1>2. CASE ~taken
  <2>1. PICK v \in VolIds :
          /\ vol[v].state = "unused"
          /\ vol' = [vol EXCEPT ![v] = [state |-> "live", key |-> req[p].key, dev |-> d]]
          /\ Becomes(p, [req[p] EXCEPT !.pc = "volCreate", !.dev = d, !.vid = v,
                !.first = IF req[p].op = "Create" /\ @ = None THEN v ELSE @])
    BY <1>2 DEF RecordVolume
  <2>2. Takes(p, "volCreate", v, d)
    BY <1>0, <2>1 DEF Takes, Request
  <2>3. QED
    BY <1>2, <2>1, <2>2 DEF RecordVolume, At
<1>3. QED
  BY <1>1, <1>2

LEMMA FindVolumeIs ==
    ASSUME TypeOK, NEW p \in Procs, NEW d \in Devs, FindVolume(p, d)
    PROVE  /\ req[p].pc = "joins" /\ UNCHANGED <<db, incus, crashes>>
           /\ \/ Turns(p, "joins")
              \/ \E v \in VolIds : LiveVol(v) /\ Takes(p, "joinInsert", v, d)
<1>0. req[p] \in Request /\ \A r : Becomes(p, r) => req'[p] = r
  BY DEF TypeOK, Becomes
<1>1. CASE NextDir(p, "joins", d)
  BY <1>1, ControlMoves DEF FindVolume, At
<1>2. ASSUME NEW v \in VolIds, LiveVol(v),
             Becomes(p, [req[p] EXCEPT !.pc = "joinInsert", !.dev = d, !.vid = v])
      PROVE  Takes(p, "joinInsert", v, d)
  BY <1>0, <1>2 DEF Takes, Request
<1>3. QED
  BY <1>1, <1>2 DEF FindVolume, At

LEMMA LookUpListedIs ==
    ASSUME TypeOK, NEW p \in Procs, NEW d \in Devs, LookUpListed(p, d)
    PROVE  /\ UNCHANGED <<db, incus, crashes>>
           /\ \/ req[p].pc \in {"reattach", "delVols"} /\ Turns(p, req[p].pc)
              \/ \E v \in VolIds :
                   /\ LiveVol(v)
                   /\ \/ req[p].pc = "reattach" /\ Takes(p, "attach", v, d)
                      \/ req[p].pc = "delVols" /\ Takes(p, "delVol", v, d)
<1>0. req[p] \in Request /\ \A r : Becomes(p, r) => req'[p] = r
  BY DEF TypeOK, Becomes
<1>1. PICK j \in req[p].snap :
        /\ j.dev = d
        /\ IF LiveVol(j.vol)
             THEN Becomes(p, [req[p] EXCEPT !.dev = d, !.vid = j.vol,
                            !.pc = IF At(p, "reattach") THEN "attach" ELSE "delVol"])
             ELSE NextDir(p, req[p].pc, d)
  BY DEF LookUpListed
<1>2. j.vol \in VolIds
  BY <1>0 DEF Request, Join
<1>3. req[p].pc = "reattach" \/ req[p].pc = "delVols"
  BY DEF LookUpListed, At
<1>4. CASE LiveVol(j.vol)
  <2>1. Takes(p, IF At(p, "reattach") THEN "attach" ELSE "delVol", j.vol, d)
    BY <1>0, <1>1, <1>4 DEF Takes, Request
  <2>2. QED
    BY <1>2, <1>3, <1>4, <2>1 DEF LookUpListed, At
<1>5. CASE ~LiveVol(j.vol)
  BY <1>1, <1>3, <1>5, ControlMoves DEF LookUpListed
<1>6. QED
  BY <1>4, <1>5

LEMMA ListVolumesIs ==
    ASSUME TypeOK, NEW p \in Procs, ListVolumes(p)
    PROVE  /\ req[p].pc = "list" /\ UNCHANGED <<db, incus, crashes>>
           /\ req'[p].op = req[p].op /\ req'[p].id = req[p].id /\ req'[p].key = req[p].key
           /\ req'[p].pc = IF req[p].op = "Rebuild" THEN "probe" ELSE "delRow"
<1>0. req[p] \in Request /\ \A r : Becomes(p, r) => req'[p] = r
  BY DEF TypeOK, Becomes
<1>1. QED
  BY <1>0 DEF ListVolumes, At, Request

\* The steps of a rename: the label, the row, the container.
LEMMA RestartIs ==
    ASSUME TypeOK, NEW p \in Procs, Restart(p)
    PROVE  Ends(p) \/ Goes(p, "start")
BY ControlMoves DEF Restart

LEMMA CheckNameIs ==
    ASSUME TypeOK, NEW p \in Procs, req[p].id \in Ids, CheckName(p)
    PROVE  /\ req[p].pc = "check" /\ UNCHANGED <<vol, joins, incus, crashes>>
           /\ \/ UNCHANGED inst /\ Ends(p)
              \/ /\ \E l \in {"stop", "move"} : Goes(p, l)
                 /\ ~Taken(req[p].id, req[p].to)
                 /\ inst' = [inst EXCEPT ![req[p].id].names = @ \cup {req[p].to}]
BY ControlMoves DEF CheckName, At

LEMMA MoveContainerIs ==
    ASSUME TypeOK, NEW p \in Procs, MoveContainer(p)
    PROVE  /\ req[p].pc = "move" /\ UNCHANGED <<db, store, crashes>>
           /\ \/ /\ CanMove(req[p].key, req[p].to) /\ MoveTo(req[p].key, req[p].to)
                 /\ Goes(p, "record")
              \/ UNCHANGED <<cont, devs>> /\ (Ends(p) \/ Goes(p, "start"))
BY ControlMoves, RestartIs DEF MoveContainer, At

LEMMA UndoMoveIs ==
    ASSUME TypeOK, NEW p \in Procs, UndoMove(p)
    PROVE  /\ req[p].pc = "undo" /\ UNCHANGED <<db, store, crashes>>
           /\ \/ CanMove(req[p].to, req[p].key) /\ MoveTo(req[p].to, req[p].key)
              \/ UNCHANGED <<cont, devs>>
           /\ Ends(p) \/ Goes(p, "start")
BY RestartIs DEF UndoMove, At

\* The only step that gives a row, and the request, another name.
LEMMA RecordNameIs ==
    ASSUME TypeOK, NEW p \in Procs, req[p].id \in Ids, RecordName(p)
    PROVE  /\ req[p].pc = "record" /\ UNCHANGED <<vol, joins, incus, crashes>>
           /\ \/ UNCHANGED inst /\ Goes(p, "undo")
              \/ /\ \/ UNCHANGED inst
                    \/ /\ inst' = [inst EXCEPT ![req[p].id].key = req[p].to]
                       /\ Live(req[p].id) /\ ~Taken(req[p].id, req[p].to)
                 /\ \/ Ends(p)
                    \/ /\ req'[p].pc = "start" /\ req'[p].op = req[p].op
                       /\ req'[p].id = req[p].id /\ req'[p].key = req[p].to
                       /\ req'[p].to = req[p].to
                       /\ req'[p].vid = req[p].vid /\ req'[p].dev = req[p].dev
                       /\ req'[p].first = req[p].first /\ req'[p].snap = req[p].snap
<1>0. req[p] \in Request /\ \A r : Becomes(p, r) => req'[p] = r
  BY DEF TypeOK, Becomes
<1>1. CASE Goto(p, "undo") /\ UNCHANGED inst
  BY <1>1, ControlMoves DEF RecordName, At
<1> DEFINE moved == [req[p] EXCEPT !.pc = "start", !.key = req[p].to]
           refused == Live(req[p].id) /\ Taken(req[p].id, req[p].to)
<1>2. CASE /\ \/ /\ ~refused
                 /\ inst' = [inst EXCEPT ![req[p].id].key =
                              IF Live(req[p].id) THEN req[p].to ELSE @]
              \/ UNCHANGED inst
           /\ Becomes(p, IF req[p].was THEN moved ELSE Idle)
  <2>1. \/ UNCHANGED inst
        \/ /\ inst' = [inst EXCEPT ![req[p].id].key = req[p].to]
           /\ Live(req[p].id) /\ ~Taken(req[p].id, req[p].to)
    <3>1. CASE Live(req[p].id)
      BY <1>2, <3>1
    <3>2. CASE ~Live(req[p].id)
      BY <1>2, <3>2 DEF TypeOK, Row
    <3>3. QED
      BY <3>1, <3>2
  <2>2. CASE req[p].was
    <3>1. req'[p] = moved
      BY <1>0, <1>2, <2>2
    <3>2. /\ req'[p].pc = "start" /\ req'[p].op = req[p].op
          /\ req'[p].id = req[p].id /\ req'[p].key = req[p].to
          /\ req'[p].to = req[p].to
          /\ req'[p].vid = req[p].vid /\ req'[p].dev = req[p].dev
          /\ req'[p].first = req[p].first /\ req'[p].snap = req[p].snap
      BY <1>0, <3>1 DEF Request
    <3>3. QED
      BY <2>1, <3>2 DEF RecordName, At
  <2>3. CASE ~req[p].was
    <3>1. Ends(p)
      BY <1>0, <1>2, <2>3 DEF Ends
    <3>2. QED
      BY <2>1, <3>1 DEF RecordName, At
  <2>4. QED
    BY <2>2, <2>3
<1>3. QED
  BY <1>1, <1>2 DEF RecordName
LEMMA StepCourse ==
    ASSUME IInv, NEW p \in Procs, InPlace(req[p]), Begin(p) \/ Step(p)
    PROVE  InPlace(req'[p])
<1> USE DEF InPlace, Places, MoveLabels
<1>0. /\ \A l : Goto(p, l) => Goes(p, l)
      /\ \A l, D : Loop(p, l, D) => Goes(p, l)
      /\ \A l, d : NextDir(p, l, d) => Turns(p, l)
      /\ Done(p) => Ends(p)
      /\ Ends(p) => InPlace(req'[p])
  BY ControlMoves, IdleIs DEF Ends, IInv
<1>1. TypeOK /\ req[p].op \in AllOps \cup {"none"}
  BY DEF IInv, TypeOK, Request
<1>2. ASSUME NEW o \in AllOps, NEW n \in Names, BeginCreate(p, o, n) PROVE InPlace(req'[p])
  BY <1>1, <1>2, BeginCreateIs DEF BeganOn
<1>3. ASSUME NEW o \in AllOps, NEW i \in Ids, BeginOn(p, o, i) PROVE InPlace(req'[p])
  BY <1>1, <1>3, BeginOnIs DEF BeganOn
<1>20. ASSUME NEW o \in AllOps, NEW i \in Ids, NEW n \in Names, BeginMove(p, o, i, n)
       PROVE  InPlace(req'[p])
  BY <1>1, <1>20, BeginMoveIs DEF BeganOn, Moves
<1>4. CASE InsertRow(p)
  BY <1>0, <1>1, <1>4, InsertRowIs DEF AllOps, Moves
<1>5. CASE \E d \in Devs : RecordVolume(p, d)
  BY <1>0, <1>1, <1>5, RecordVolumeIs DEF AllOps, Moves, Turns, Same, Takes
<1>6. CASE \E d \in Devs : FindVolume(p, d)
  BY <1>0, <1>1, <1>6, FindVolumeIs DEF AllOps, Moves, Turns, Same, Takes
<1>7. CASE \E d \in Devs : LookUpListed(p, d)
  BY <1>0, <1>1, <1>7, LookUpListedIs DEF AllOps, Moves, Turns, Same, Takes
<1>8. CASE ListVolumes(p)
  BY <1>1, <1>8, ListVolumesIs DEF AllOps, Moves
<1>9. CASE FinalizeRunning(p) \/ FinalizeError(p) \/ Return(p)
  BY <1>0, <1>9 DEF FinalizeRunning, FinalizeError, Return
<1>21. CASE StatusWritten(p)
  BY <1>0, <1>1, <1>21 DEF StatusWritten, AllOps, Moves, Goes, Same
<1>22. CASE CheckName(p) \/ MoveContainer(p) \/ RecordName(p) \/ UndoMove(p)
  <2>1. req[p].op \in Moves
    BY <1>1, <1>22 DEF CheckName, MoveContainer, RecordName, UndoMove, At, AllOps, Moves
  <2>2. CASE Ends(p)
    BY <1>0, <2>2
  <2>3. ASSUME NEW l \in MoveLabels, Goes(p, l) PROVE InPlace(req'[p])
    BY <2>1, <2>3 DEF Goes, Same, Moves
  <2>4. req[p].id \in Ids
    BY <2>1, Mover
  <2>5. CASE CheckName(p)
    BY <1>1, <2>2, <2>3, <2>4, <2>5, CheckNameIs
  <2>6. CASE MoveContainer(p)
    BY <1>1, <2>2, <2>3, <2>6, MoveContainerIs
  <2>7. CASE UndoMove(p)
    BY <1>1, <2>2, <2>3, <2>7, UndoMoveIs
  <2>8. CASE RecordName(p)
    <3>1. ASSUME req'[p].pc = "start", req'[p].op = req[p].op PROVE InPlace(req'[p])
      BY <2>1, <3>1 DEF Moves
    <3>2. QED
      BY <1>1, <2>2, <2>3, <2>4, <2>8, <3>1, RecordNameIs
  <2>9. QED
    BY <1>22, <2>5, <2>6, <2>7, <2>8
<1>10. CASE CreateContainer(p)
  BY <1>0, <1>1, <1>10 DEF CreateContainer, At, AllOps, Moves, Goes, Same, Creating
<1>11. CASE CreateVolume(p) \/ RemoveNewVolume(p)
  BY <1>0, <1>1, <1>11 DEF CreateVolume, RemoveNewVolume, At, AllOps, Moves, Goes, Turns, Same
<1>12. CASE AttachNewVolume(p)
  BY <1>0, <1>1, <1>12 DEF AttachNewVolume, At, AllOps, Moves, Goes, Turns, Same, Creating
<1>13. CASE UnrecordVolume(p) \/ JoinNewVolume(p) \/ JoinFoundVolume(p)
  BY <1>0, <1>1, <1>13 DEF UnrecordVolume, JoinNewVolume, JoinFoundVolume, At, AllOps, Moves, Turns, Same
<1>14. CASE StartContainer(p)
  BY <1>0, <1>1, <1>14 DEF StartContainer, At, AllOps, Moves, Goes, Same
<1>15. CASE StartRequested(p) \/ StopRequested(p)
  BY <1>0, <1>1, <1>15 DEF StartRequested, StopRequested, At, AllOps, Moves, Goes, Same
<1>16. CASE ProbeContainer(p) \/ StopIgnored(p)
  BY <1>0, <1>1, <1>16 DEF ProbeContainer, StopIgnored, At, AllOps, Moves, Goes, Same
<1>17. CASE RemoveContainer(p) \/ DeleteRow(p) \/ DeleteVolume(p)
  BY <1>0, <1>1, <1>17 DEF RemoveContainer, DeleteRow, DeleteVolume, At, AllOps, Moves, Goes, Same
<1>18. CASE Reattach(p) \/ DeleteVolumeRecord(p) \/ (\E d \in Devs : DetachVolume(p, d))
  BY <1>0, <1>1, <1>18 DEF Reattach, DeleteVolumeRecord, DetachVolume, At, AllOps, Moves, Turns, Same
<1>19. QED
  BY <1>2, <1>3, <1>4, <1>5, <1>6, <1>7, <1>8, <1>9, <1>10, <1>11, <1>12, <1>13, <1>14,
     <1>15, <1>16, <1>17, <1>18, <1>20, <1>21, <1>22 DEF Begin, Step

-----------------------------------------------------------------------------
(* Incus and the volume records, for any number of processes.              *)

\* UNIQUE(name, server_id) of volumes.
RecordsUnique ==
    \A v, w \in VolIds :
        LiveVol(v) /\ LiveVol(w) /\ vol[v].key = vol[w].key /\ vol[v].dev = vol[w].dev => v = w

\* A row that was never inserted has had no name.
FreshNames == \A i \in Ids : inst[i].status = "unused" => inst[i].names = {}

\* Incus keeps what a container uses, and forgets devices with the container.
\* A container uses volumes of its own name, unless a rename has touched both.
Related(k, l) == k = l \/ (k \in Renamed /\ l \in Renamed)
IncusSound ==
    \A k \in Keys : /\ \A x \in devs[k] : x \in store /\ Related(x[1], k)
                    /\ cont[k] = "absent" => devs[k] = {}

\* The steps that write no volume record.
LEMMA OtherSteps ==
    ASSUME NEW p \in Procs, Begin(p) \/ Step(p),
           ~\/ \E d \in Devs : RecordVolume(p, d)
            \/ UnrecordVolume(p) \/ DeleteVolumeRecord(p)
    PROVE  UNCHANGED vol
BY DEF Begin, Step, BeginCreate, BeginOn, InsertRow, CreateContainer, StartContainer,
   CreateVolume, AttachNewVolume, RemoveNewVolume, JoinNewVolume, JoinFoundVolume,
   FinalizeRunning, FinalizeError, StartRequested, StopRequested, StatusWritten,
   ListVolumes, ProbeContainer, StopIgnored, RemoveContainer, Reattach, DeleteRow,
   DeleteVolume, Return, FindVolume, DetachVolume, LookUpListed, BeginMove, CheckName,
   MoveContainer, RecordName, UndoMove, db

LEMMA StepRecords ==
    ASSUME IInv, NEW p \in Procs, Begin(p) \/ Step(p), RecordsUnique
    PROVE  RecordsUnique'
<1>1. CASE UNCHANGED vol
  BY <1>1 DEF RecordsUnique, LiveVol
<1>2. CASE \E d \in Devs : RecordVolume(p, d)
  <2>1. PICK d \in Devs : RecordVolume(p, d)
    BY <1>2
  <2>2. CASE UNCHANGED vol
    BY <1>1, <2>2
  <2>3. ASSUME NEW v \in VolIds,
               vol' = [vol EXCEPT ![v] = [state |-> "live", key |-> req[p].key, dev |-> d]],
               \A w \in VolIds : LiveVol(w) => ~(vol[w].key = req[p].key /\ vol[w].dev = d)
        PROVE  RecordsUnique'
    <3>1. /\ \A w \in VolIds : w # v => vol'[w] = vol[w]
          /\ vol'[v].key = req[p].key /\ vol'[v].dev = d
      BY <2>3 DEF IInv, TypeOK
    <3>2. QED
      BY <2>3, <3>1 DEF RecordsUnique, LiveVol
  <2>4. QED
    BY <2>1, <2>2, <2>3, RecordVolumeIs DEF IInv
<1>3. CASE UnrecordVolume(p) \/ DeleteVolumeRecord(p)
  <2>1. CASE \E v \in VolIds : vol' = [vol EXCEPT ![v].state = "deleted"]
    <3>1. \A w \in VolIds : /\ LiveVol(w)' => LiveVol(w)
                            /\ vol'[w].key = vol[w].key /\ vol'[w].dev = vol[w].dev
      BY <2>1 DEF IInv, TypeOK, VolRow, LiveVol
    <3>2. QED
      BY <3>1 DEF RecordsUnique
  <2>2. req[p].vid \in VolIds
    BY <1>3, Actor DEF UnrecordVolume, DeleteVolumeRecord, At, Placed, WithVolume
  <2>3. QED
    BY <1>1, <1>3, <2>1, <2>2 DEF UnrecordVolume, DeleteVolumeRecord, DeleteVolumeRow
<1>4. CASE ~\/ \E d \in Devs : RecordVolume(p, d)
            \/ UnrecordVolume(p) \/ DeleteVolumeRecord(p)
  BY <1>1, <1>4, OtherSteps
<1>5. QED
  BY <1>2, <1>3, <1>4

\* Which steps give a row another name: the insertion gives the first, and the
\* check of a rename the next.
LEMMA StepNames ==
    ASSUME IInv, NEW p \in Procs, Begin(p) \/ Step(p)
    PROVE  \/ \A i \in Ids : inst'[i].names = inst[i].names
           \/ \E i \in Ids : /\ inst[i].status = "unused"
                             /\ inst'[i].status # "unused" /\ inst'[i].names = {req[p].key}
                             /\ \A j \in Ids : j # i => inst'[j] = inst[j]
           \/ CheckName(p)
<1>0. inst \in [Ids -> Row] /\ TypeOK /\ \A i \in Ids : inst[i] \in Row
  BY DEF IInv, TypeOK
<1>1. CASE UNCHANGED inst
  BY <1>1
<1>2. CASE InsertRow(p)
  <2>1. ASSUME NEW i \in Ids, NEW s \in {"creating", "running"},
               inst' = [inst EXCEPT ![i] = [status |-> s, key |-> req[p].key,
                                            volume |-> req[p].first, names |-> {req[p].key}]]
        PROVE  /\ inst'[i].status # "unused" /\ inst'[i].names = {req[p].key}
               /\ \A j \in Ids : j # i => inst'[j] = inst[j]
    BY <1>0, <2>1
  <2>2. QED
    BY <1>0, <1>1, <1>2, <2>1, InsertRowIs
<1>3. ASSUME NEW s, SetStatus(req[p].id, s) PROVE \A i \in Ids : inst'[i].names = inst[i].names
  BY <1>0, <1>3 DEF SetStatus, Row
<1>4. CASE FinalizeRunning(p) \/ FinalizeError(p) \/ StatusWritten(p)
  BY <1>3, <1>4 DEF FinalizeRunning, FinalizeError, StatusWritten
<1>5. CASE DeleteRow(p)
  BY <1>0, <1>5 DEF DeleteRow, Row
<1>6. CASE RecordName(p)
  <2>1. UNCHANGED inst \/ inst' = [inst EXCEPT ![req[p].id].key = IF Live(req[p].id)
                                                                    THEN req[p].to ELSE @]
    BY <1>6 DEF RecordName
  <2>2. QED
    BY <1>0, <1>1, <2>1 DEF Row
<1>7. CASE ~(InsertRow(p) \/ FinalizeRunning(p) \/ FinalizeError(p) \/ StatusWritten(p)
             \/ DeleteRow(p) \/ RecordName(p) \/ CheckName(p))
  <2>1. UNCHANGED inst
    BY <1>7 DEF Begin, Step, BeginCreate, BeginOn, BeginMove, CreateContainer, StartContainer,
       CreateVolume, AttachNewVolume, RemoveNewVolume, UnrecordVolume, JoinNewVolume,
       JoinFoundVolume, StartRequested, StopRequested, ListVolumes, ProbeContainer,
       StopIgnored, RemoveContainer, Reattach, DeleteVolume, DeleteVolumeRecord, Return,
       RecordVolume, FindVolume, DetachVolume, LookUpListed, MoveContainer, UndoMove, db
  <2>2. QED
    BY <1>1, <2>1
<1>8. QED
  BY <1>2, <1>4, <1>5, <1>6, <1>7

\* What a rename touches it has touched for ever; and nothing else touches it.
LEMMA StepRenamed ==
    ASSUME IInv, FreshNames, NEW p \in Procs, Begin(p) \/ Step(p)
    PROVE  /\ FreshNames'
           /\ Renamed \subseteq Renamed'
           /\ \/ Renamed' = Renamed
              \/ /\ CheckName(p) /\ req[p].key \in Renamed' /\ req'[p].key = req[p].key
                 /\ \E l \in {"stop", "move"} : Goes(p, l)
<1>0. inst \in [Ids -> Row] /\ TypeOK /\ IdsKept /\ \A i \in Ids : inst[i] \in Row
  BY StepDb DEF IInv, TypeOK
<1>1. Renamed \subseteq Renamed'
  <2>1. SUFFICES ASSUME NEW k \in Keys, NEW i \in Ids, k \in inst[i].names, inst[i].names # {k}
                 PROVE  k \in inst'[i].names /\ inst'[i].names # {k}
    BY DEF Renamed
  <2>2. inst[i].names \subseteq inst'[i].names
    BY <1>0, <2>1 DEF FreshNames, IdsKept
  <2>3. QED
    BY <2>1, <2>2
<1>2. CASE \A i \in Ids : inst'[i].names = inst[i].names
  <2>1. Renamed' = Renamed
    BY <1>2 DEF Renamed
  <2>2. FreshNames'
    BY <1>0, <1>2 DEF FreshNames, IdsKept
  <2>3. QED
    BY <2>1, <2>2
<1>3. ASSUME NEW i \in Ids, inst[i].status = "unused", inst'[i].status # "unused",
             NEW k, inst'[i].names = {k}, \A j \in Ids : j # i => inst'[j] = inst[j]
      PROVE  FreshNames' /\ Renamed' = Renamed
  <2>1. inst[i].names = {}
    BY <1>3 DEF FreshNames
  <2>2. FreshNames'
    BY <1>3 DEF FreshNames
  <2>3. \A l, j \in Ids \cup Keys : j \in Ids =>
          ((l \in inst'[j].names /\ inst'[j].names # {l}) <=>
           (l \in inst[j].names /\ inst[j].names # {l}))
    BY <1>3, <2>1
  <2>4. QED
    BY <2>2, <2>3 DEF Renamed
<1>4. CASE CheckName(p)
  <2> DEFINE i == req[p].id
             l == req[p].to
  <2>1. i \in Ids /\ l \in Keys /\ req[p].key \in inst[i].names /\ l # req[p].key
        /\ req[p].key \in Keys /\ inst[i].status # "unused"
    BY <1>4, Mover, Actor DEF CheckName, At, Placed, Remembers
  <2>2. CASE UNCHANGED inst
    BY <1>2, <2>2
  <2>3. CASE /\ \E s \in {"stop", "move"} : Goes(p, s)
             /\ inst' = [inst EXCEPT ![i].names = @ \cup {l}]
    <3> HIDE DEF i, l
    <3>1. inst'[i].names = inst[i].names \cup {l} /\ inst'[i].status = inst[i].status
          /\ \A j \in Ids : j # i => inst'[j] = inst[j]
      BY <1>0, <2>1, <2>3 DEF Row
    <3>2. FreshNames'
      BY <2>1, <3>1 DEF FreshNames
    <3>3. req[p].key \in Renamed'
      BY <2>1, <3>1 DEF Renamed
    <3>4. req'[p].key = req[p].key
      BY <2>3 DEF Goes, Same
    <3>5. QED
      BY <1>1, <1>4, <2>3, <3>2, <3>3, <3>4
  <2>4. QED
    BY <1>0, <1>4, <2>1, <2>2, <2>3, CheckNameIs
<1>5. QED
  BY <1>1, <1>2, <1>3, <1>4, StepNames

\* A rename past its check works on names that it has touched.
LEMMA MoversRenamed ==
    ASSUME IInv, NEW p \in Procs, req[p].op \in Moves, req[p].pc # "check"
    PROVE  req[p].key \in Renamed /\ req[p].to \in Renamed
<1>1. /\ req[p].id \in Ids /\ req[p].key \in Keys /\ req[p].to \in Keys
      /\ req[p].key \in inst[req[p].id].names
      /\ req[p].to \in inst[req[p].id].names /\ inst[req[p].id].names # {req[p].to}
  BY Mover, Actor, NoneIsNothing DEF Remembers
<1>2. QED
  BY <1>1 DEF Renamed

\* The storage volume that a Rebuild or a Delete means is the one of its dir,
\* under a name of the instance.
LEMMA ListedIs ==
    ASSUME IInv, NEW p \in Procs, req[p].pc \in {"attach", "delVol"}
    PROVE  /\ Listed(p) = <<Listed(p)[1], req[p].dev>> /\ Listed(p) \in Keys \X Devs
           /\ Related(Listed(p)[1], req[p].key)
<1> DEFINE r == req[p]
           k == <<r.key[1], vol[r.vid].key[2]>>
<1>1. r.vid \in VolIds /\ r.key \in Keys /\ r.dev \in Devs
  BY Actor DEF Placed, WithVolume
<1>2. KnownVolume(r.vid, r.dev, CalledBy(r))
  BY <1>1, Actor, NoneIsNothing DEF Remembers
<1>3. r.key = <<r.key[1], r.key[2]>>
  BY <1>1 DEF Keys
<1>4. Listed(p) = <<k, r.dev>>
  BY <1>2 DEF Listed, KnownVolume
<1>5. CASE r.id = None
  <2>1. k = r.key
    BY <1>2, <1>3, <1>5 DEF KnownVolume, CalledBy
  <2>2. QED
    BY <1>1, <1>4, <2>1 DEF Related
<1>6. CASE r.id # None
  <2>1. r.id \in Ids /\ r.key \in inst[r.id].names
    BY <1>6, Actor DEF Remembers
  <2>2. PICK l \in inst[r.id].names : l[2] = vol[r.vid].key[2]
    BY <1>2, <1>6 DEF KnownVolume, CalledBy, Called
  <2>3. l[1] = r.key[1] /\ l \in Keys
    BY <2>1, <2>2 DEF IInv, DbInv, UniqueKeys, TypeOK, Row
  <2>4. k = l
    BY <2>2, <2>3 DEF Keys
  <2>5. Related(l, r.key)
    BY <1>1, <2>1, <2>2, <2>3 DEF Related, Renamed
  <2>6. QED
    BY <1>1, <1>4, <2>3, <2>4, <2>5
<1>7. QED
  BY <1>5, <1>6

LEMMA StepIncusSound ==
    ASSUME IInv, FreshNames, NEW p \in Procs, Begin(p) \/ Step(p), IncusSound
    PROVE  IncusSound'
<1> DEFINE k == req[p].key
           d == req[p].dev
<1>0. \A l, m : Related(l, m) => Related(l, m)'
  BY StepRenamed DEF Related
<1>1. CASE UNCHANGED incus
  BY <1>0, <1>1 DEF IncusSound, incus
<1>2. /\ cont  \in [Keys -> {"absent", "stopped", "running"}]
      /\ devs  \in [Keys -> SUBSET (Keys \X Devs)]
      /\ store \subseteq Keys \X Devs
  BY DEF IInv, TypeOK
<1>3. CASE CreateContainer(p) \/ RemoveContainer(p)
  BY <1>0, <1>2, <1>3 DEF IncusSound, CreateContainer, RemoveContainer, CanRemove
<1>4. CASE StartContainer(p) \/ StartRequested(p) \/ StopRequested(p) \/ StopIgnored(p)
  BY <1>0, <1>2, <1>4 DEF IncusSound, StartContainer, StartRequested, StopRequested, StopIgnored,
     CanStart, CanStop
<1>5. CASE CreateVolume(p)
  BY <1>0, <1>5 DEF IncusSound, CreateVolume
<1>6. ASSUME NEW x, CanAttach(x, k), Attach(x, k), Related(x[1], k), UNCHANGED <<cont, store>>
      PROVE  IncusSound'
  <2>1. \A l \in Keys : devs'[l] \subseteq devs[l] \cup (IF l = k THEN {x} ELSE {})
    BY <1>2, <1>6 DEF Attach
  <2>2. QED
    BY <1>0, <1>6, <2>1 DEF IncusSound, CanAttach
<1>7. CASE AttachNewVolume(p)
  <2>1. /\ UNCHANGED <<cont, store>>
        /\ \/ UNCHANGED devs
           \/ CanAttach(<<k, d>>, k) /\ Attach(<<k, d>>, k)
    BY <1>7 DEF AttachNewVolume
  <2>2. Related(<<k, d>>[1], k)
    BY DEF Related
  <2>3. QED
    BY <1>1, <1>6, <2>1, <2>2 DEF incus
<1>8. CASE Reattach(p)
  <2>1. Related(Listed(p)[1], k)
    BY <1>8, ListedIs DEF Reattach, At
  <2>2. /\ UNCHANGED <<cont, store>>
        /\ \/ UNCHANGED devs
           \/ CanAttach(Listed(p), k) /\ Attach(Listed(p), k)
    BY <1>8 DEF Reattach
  <2>3. QED
    BY <1>1, <1>6, <2>1, <2>2 DEF incus
<1>9. CASE RemoveNewVolume(p) \/ DeleteVolume(p)
  <2>1. UNCHANGED <<cont, devs>> /\ \E x : TryDeleteVolume(x)
    BY <1>9 DEF RemoveNewVolume, DeleteVolume
  <2>2. PICK x : TryDeleteVolume(x)
    BY <2>1
  <2>3. CASE UNCHANGED store
    BY <1>1, <2>1, <2>3 DEF incus
  <2>4. CASE CanDeleteVolume(x) /\ store' = store \ {x}
    BY <1>0, <2>1, <2>4 DEF IncusSound, CanDeleteVolume
  <2>5. QED
    BY <2>2, <2>3, <2>4 DEF TryDeleteVolume
<1>10. CASE \E e \in Devs : DetachVolume(p, e)
  <2>1. UNCHANGED <<cont, store>> /\ \A l \in Keys : devs'[l] \subseteq devs[l]
    BY <1>2, <1>10 DEF DetachVolume, Detach
  <2>2. QED
    BY <1>0, <2>1 DEF IncusSound
<1>11. ASSUME NEW l \in Renamed, NEW m \in Renamed, CanMove(l, m), MoveTo(l, m), UNCHANGED store
       PROVE  IncusSound'
  <2>1. l \in Keys /\ m \in Keys /\ l # m
    BY <1>2, <1>11 DEF Renamed, CanMove
  <2>2. /\ cont'[l] = "absent" /\ devs'[l] = {}
        /\ cont'[m] = "stopped" /\ devs'[m] = devs[l]
        /\ \A n \in Keys \ {l, m} : cont'[n] = cont[n] /\ devs'[n] = devs[n]
    BY <1>2, <1>11, <2>1 DEF MoveTo
  <2>3. \A x \in devs[l] : x \in store /\ Related(x[1], m)
    BY <1>11, <2>1 DEF IncusSound, Related
  <2>4. QED
    BY <1>0, <1>11, <2>1, <2>2, <2>3 DEF IncusSound
<1>12. CASE MoveContainer(p) \/ UndoMove(p)
  <2>1. req[p].op \in Moves /\ req[p].pc # "check"
    BY <1>12, Actor DEF MoveContainer, UndoMove, At, Placed
  <2>2. QED
    BY <1>1, <1>11, <1>12, <2>1, MoversRenamed DEF MoveContainer, UndoMove, incus
<1>13. CASE ~\/ CreateContainer(p) \/ RemoveContainer(p) \/ StartContainer(p)
             \/ StartRequested(p) \/ StopRequested(p) \/ StopIgnored(p) \/ CreateVolume(p)
             \/ AttachNewVolume(p) \/ Reattach(p) \/ RemoveNewVolume(p) \/ DeleteVolume(p)
             \/ MoveContainer(p) \/ UndoMove(p) \/ \E e \in Devs : DetachVolume(p, e)
  <2>1. UNCHANGED incus
    BY <1>13 DEF Begin, Step, BeginCreate, BeginOn, BeginMove, InsertRow, UnrecordVolume,
         JoinNewVolume, JoinFoundVolume, FinalizeRunning, FinalizeError, StatusWritten,
         ListVolumes, ProbeContainer, DeleteRow, DeleteVolumeRecord, Return, RecordVolume,
         FindVolume, LookUpListed, CheckName, RecordName
  <2>2. QED
    BY <1>1, <2>1
<1>14. QED
  BY <1>3, <1>4, <1>5, <1>7, <1>8, <1>9, <1>10, <1>12, <1>13

\* What holds of any number of requests.
SInv == IInv /\ OnCourse /\ RecordsUnique /\ FreshNames /\ IncusSound

LEMMA InitSInv == Init => SInv
<1>1. SUFFICES ASSUME Init PROVE SInv
  OBVIOUS
<1>2. OnCourse
  BY <1>1, IdleIs DEF Init, OnCourse
<1>3. RecordsUnique /\ FreshNames /\ IncusSound
  BY <1>1 DEF Init, RecordsUnique, FreshNames, IncusSound, LiveVol
<1>4. QED
  BY <1>1, <1>2, <1>3, InitIInv DEF SInv

LEMMA StepSInv ==
    ASSUME SInv, NEW p \in Procs, Begin(p) \/ Step(p)
    PROVE  SInv'
<1>1. IInv'
  <2>1. Next
    BY DEF Next
  <2>2. QED
    BY <2>1, NextIInv DEF SInv
<1>2. \A o \in Procs : o # p => req'[o] = req[o]
  BY StepDb, StepKnows DEF SInv, KnowsNext
<1>3. OnCourse'
  BY <1>2, StepCourse DEF SInv, IInv, OnCourse, InPlace
<1>4. QED
  BY <1>1, <1>3, StepRecords, StepRenamed, StepIncusSound DEF SInv

LEMMA CrashSInv == SInv /\ Crash => SInv'
<1>1. SUFFICES ASSUME SInv, Crash PROVE SInv'
  OBVIOUS
<1>2. IInv'
  BY <1>1, CrashKeeps DEF SInv
<1>3. OnCourse'
  BY <1>1, IdleIs DEF Crash, OnCourse, InPlace
<1>4. RecordsUnique' /\ FreshNames' /\ IncusSound'
  BY <1>1 DEF SInv, Crash, db, incus, RecordsUnique, FreshNames, IncusSound, Related, Renamed,
              LiveVol
<1>5. QED
  BY <1>2, <1>3, <1>4 DEF SInv

LEMMA StutterSInv == SInv /\ UNCHANGED vars => SInv'
<1>1. SUFFICES ASSUME SInv, UNCHANGED vars PROVE SInv'
  OBVIOUS
<1>2. IInv'
  BY <1>1, NextIInv DEF SInv
<1>3. OnCourse' /\ RecordsUnique' /\ FreshNames' /\ IncusSound'
  BY <1>1 DEF SInv, vars, OnCourse, InPlace, RecordsUnique, FreshNames, IncusSound, Related,
              Renamed, LiveVol
<1>4. QED
  BY <1>2, <1>3 DEF SInv

-----------------------------------------------------------------------------
(* A request touches nothing but what belongs to its own instance.         *)

\* What a step of p may touch: its own key and, where a rename has touched that
\* one, whatever renames have touched.
Reach(p) == {req[p].key} \cup {k \in Renamed' : req[p].key \in Renamed'}

\* What a step of p leaves alone: the containers, devices and storage volumes
\* of keys out of its reach, their rows, the volume records of other names,
\* the attachments of other instances, and what the other requests hold.
IncusElsewhere(p) ==
    /\ \A k \in Keys \ Reach(p) : cont'[k] = cont[k] /\ devs'[k] = devs[k]
    /\ \A x \in Keys \X Devs : x[1] \notin Reach(p) => (x \in store' <=> x \in store)
RowsElsewhere(p)  ==
    \A i \in Ids : inst'[i] # inst[i] => /\ Live(i)  => inst[i].key \in Reach(p)
                                         /\ Live(i)' => inst'[i].key \in Reach(p)
VolsElsewhere(p)  ==
    \A v \in VolIds : vol'[v] # vol[v] => vol'[v].key[2] \in {k[2] : k \in Reach(p)}
JoinsElsewhere(p) == \A j \in joins' : j \in joins \/ j.inst = req[p].id
OthersAsTheyWere(p) == \A o \in Procs : o # p => req'[o] = req[o]

Elsewhere(p) == /\ IncusElsewhere(p) /\ RowsElsewhere(p) /\ VolsElsewhere(p)
                /\ JoinsElsewhere(p) /\ OthersAsTheyWere(p)

\* The names of the request's instance are within its reach.
LEMMA OwnReach ==
    ASSUME SInv, NEW p \in Procs, Begin(p) \/ Step(p)
    PROVE  /\ req[p].key \in Reach(p)
           /\ \A l : Related(l, req[p].key) => l \in Reach(p)
           /\ req[p].id # None => /\ req[p].id \in Ids
                                  /\ inst[req[p].id].names \subseteq Reach(p)
                                  /\ inst'[req[p].id].names \subseteq Reach(p)
<1> DEFINE i == req[p].id
<1>1. Renamed \subseteq Renamed' /\ SInv' /\ IdsKept
  BY StepRenamed, StepSInv, StepDb DEF SInv
<1>2. \A l : Related(l, req[p].key) => l \in Reach(p)
  BY <1>1 DEF Reach, Related
<1>3. ASSUME i # None
      PROVE  i \in Ids /\ inst[i].names \subseteq Reach(p) /\ inst'[i].names \subseteq Reach(p)
  <2>1. i \in Ids /\ inst[i].status # "unused" /\ req[p].key \in inst[i].names
    BY <1>3, Actor DEF SInv, Remembers
  <2>2. inst[i].names \subseteq inst'[i].names
    BY <1>1, <2>1 DEF IdsKept
  <2>3. inst'[i].names \subseteq Keys
    BY <1>1, <2>1 DEF SInv, IInv, TypeOK, Row
  <2>4. ASSUME NEW l \in inst'[i].names PROVE l \in Reach(p)
    BY <2>1, <2>2, <2>3, <2>4 DEF Reach, Renamed
  <2>5. QED
    BY <2>1, <2>2, <2>4
<1>4. QED
  BY <1>2, <1>3 DEF Reach

LEMMA StepIncusElsewhere ==
    ASSUME SInv, NEW p \in Procs, Begin(p) \/ Step(p)
    PROVE  IncusElsewhere(p)
<1> DEFINE k == req[p].key
           x == <<k, req[p].dev>>
<1>1. CASE UNCHANGED incus
  BY <1>1 DEF IncusElsewhere, incus
<1>2. /\ cont \in [Keys -> {"absent", "stopped", "running"}]
      /\ devs \in [Keys -> SUBSET (Keys \X Devs)]
      /\ k \in Reach(p)
  BY OwnReach DEF SInv, IInv, TypeOK
<1>3. CASE CreateContainer(p) \/ RemoveContainer(p)
  BY <1>2, <1>3 DEF IncusElsewhere, CreateContainer, RemoveContainer
<1>4. CASE StartContainer(p) \/ StartRequested(p) \/ StopRequested(p) \/ StopIgnored(p)
  BY <1>2, <1>4 DEF IncusElsewhere, StartContainer, StartRequested, StopRequested, StopIgnored
<1>5. CASE CreateVolume(p)
  BY <1>2, <1>5 DEF IncusElsewhere, CreateVolume
<1>6. CASE AttachNewVolume(p) \/ Reattach(p) \/ (\E e \in Devs : DetachVolume(p, e))
  BY <1>2, <1>6 DEF IncusElsewhere, AttachNewVolume, Reattach, DetachVolume, Attach, Detach
<1>7. CASE RemoveNewVolume(p) \/ DeleteVolume(p)
  <2>1. ASSUME NEW y, y[1] \in Reach(p), TryDeleteVolume(y), UNCHANGED <<cont, devs>>
        PROVE  IncusElsewhere(p)
    BY <2>1 DEF TryDeleteVolume, IncusElsewhere
  <2>2. CASE RemoveNewVolume(p)
    BY <1>2, <2>1, <2>2 DEF RemoveNewVolume
  <2>3. CASE DeleteVolume(p)
    BY <2>1, <2>3, ListedIs, OwnReach DEF DeleteVolume, At, SInv
  <2>4. QED
    BY <1>7, <2>2, <2>3
<1>10. ASSUME NEW l \in Reach(p), NEW m \in Reach(p), MoveTo(l, m), UNCHANGED store
       PROVE  IncusElsewhere(p)
  BY <1>2, <1>10 DEF MoveTo, IncusElsewhere
<1>11. CASE MoveContainer(p) \/ UndoMove(p)
  <2>1. req[p].op \in Moves /\ req[p].pc # "check"
    BY <1>11, Actor DEF MoveContainer, UndoMove, At, Placed, SInv
  <2>2. req[p].key \in Reach(p) /\ req[p].to \in Reach(p)
    BY <1>2, <2>1, MoversRenamed, StepRenamed DEF SInv, Reach
  <2>3. QED
    BY <1>1, <1>10, <1>11, <2>2 DEF MoveContainer, UndoMove, incus
<1>8. CASE ~\/ CreateContainer(p) \/ RemoveContainer(p) \/ StartContainer(p)
            \/ StartRequested(p) \/ StopRequested(p) \/ StopIgnored(p) \/ CreateVolume(p)
            \/ AttachNewVolume(p) \/ Reattach(p) \/ RemoveNewVolume(p) \/ DeleteVolume(p)
            \/ MoveContainer(p) \/ UndoMove(p) \/ \E e \in Devs : DetachVolume(p, e)
  <2>1. UNCHANGED incus
    BY <1>8 DEF Begin, Step, BeginCreate, BeginOn, BeginMove, InsertRow, UnrecordVolume,
         JoinNewVolume, JoinFoundVolume, FinalizeRunning, FinalizeError, StatusWritten,
         ListVolumes, ProbeContainer, DeleteRow, DeleteVolumeRecord, Return, RecordVolume,
         FindVolume, LookUpListed, CheckName, RecordName
  <2>2. QED
    BY <1>1, <2>1
<1>9. QED
  BY <1>3, <1>4, <1>5, <1>6, <1>7, <1>8, <1>11

LEMMA StepRowsElsewhere ==
    ASSUME SInv, NEW p \in Procs, Begin(p) \/ Step(p)
    PROVE  RowsElsewhere(p)
<1> DEFINE r == req[p]
<1>1. CASE UNCHANGED inst
  BY <1>1 DEF RowsElsewhere
<1>2. /\ TypeOK /\ inst \in [Ids -> Row] /\ Placed(r)
      /\ \A i \in Ids : /\ Live(i)  => inst[i].key \in inst[i].names
                        /\ Live(i)' => inst'[i].key \in inst'[i].names
  BY Actor, StepSInv DEF SInv, IInv, DbInv, UniqueKeys, TypeOK
<1>3. CASE InsertRow(p)
  <2>1. ASSUME NEW i \in Ids, NEW s, inst[i].status = "unused",
               inst' = [inst EXCEPT ![i] = [status |-> s, key |-> r.key, volume |-> r.first,
                                            names |-> {r.key}]]
        PROVE  RowsElsewhere(p)
    BY <1>2, <2>1, OwnReach DEF RowsElsewhere, Live, Statuses
  <2>2. QED
    BY <1>1, <1>2, <1>3, <2>1, InsertRowIs
<1>4. ASSUME r.id # None, \A i \in Ids : i # r.id => inst'[i] = inst[i]
      PROVE  RowsElsewhere(p)
  BY <1>2, <1>4, OwnReach DEF RowsElsewhere
<1>5. CASE FinalizeRunning(p) \/ FinalizeError(p) \/ StatusWritten(p) \/ DeleteRow(p)
           \/ CheckName(p) \/ RecordName(p)
  <2>1. r.id # None
    BY <1>2, <1>5 DEF FinalizeRunning, FinalizeError, StatusWritten, DeleteRow, CheckName,
       RecordName, At, Placed, SInv, OnCourse, InPlace, Places, MoveLabels, TypeOK, Request,
       AllOps, Moves
  <2>2. \A i \in Ids : i # r.id => inst'[i] = inst[i]
    BY <1>2, <1>5 DEF FinalizeRunning, FinalizeError, StatusWritten, SetStatus, DeleteRow,
       CheckName, RecordName
  <2>3. QED
    BY <1>4, <2>1, <2>2
<1>7. CASE ~(InsertRow(p) \/ FinalizeRunning(p) \/ FinalizeError(p) \/ StatusWritten(p)
             \/ DeleteRow(p) \/ CheckName(p) \/ RecordName(p))
  <2>1. UNCHANGED inst
    BY <1>7 DEF Begin, Step, BeginCreate, BeginOn, BeginMove, CreateContainer, StartContainer,
       CreateVolume, AttachNewVolume, RemoveNewVolume, UnrecordVolume, JoinNewVolume,
       JoinFoundVolume, StartRequested, StopRequested, ListVolumes, ProbeContainer,
       StopIgnored, RemoveContainer, Reattach, DeleteVolume, DeleteVolumeRecord, Return,
       RecordVolume, FindVolume, DetachVolume, LookUpListed, MoveContainer, UndoMove, db
  <2>2. QED
    BY <1>1, <2>1
<1>8. QED
  BY <1>3, <1>5, <1>7

LEMMA StepVolsElsewhere ==
    ASSUME SInv, NEW p \in Procs, Begin(p) \/ Step(p)
    PROVE  VolsElsewhere(p)
<1> DEFINE r == req[p]
<1>1. CASE UNCHANGED vol
  BY <1>1 DEF VolsElsewhere
<1>2. TypeOK /\ vol \in [VolIds -> VolRow] /\ Remembers(r)
  BY Actor DEF SInv, IInv, TypeOK
<1>3. CASE \E d \in Devs : RecordVolume(p, d)
  BY <1>1, <1>2, <1>3, RecordVolumeIs, OwnReach DEF VolsElsewhere
<1>4. CASE UnrecordVolume(p) \/ DeleteVolumeRecord(p)
  <2>1. r.vid \in VolIds /\ KnownVolume(r.vid, r.dev, CalledBy(r))
    BY <1>4, Actor, NoneIsNothing
       DEF UnrecordVolume, DeleteVolumeRecord, At, Placed, WithVolume, SInv, Remembers
  <2>2. UNCHANGED vol \/ vol' = [vol EXCEPT ![r.vid].state = "deleted"]
    BY <1>4 DEF UnrecordVolume, DeleteVolumeRecord, DeleteVolumeRow
  <2>3. \A v \in VolIds : vol'[v] = vol[v] \/ (v = r.vid /\ vol'[v].key = vol[v].key)
    BY <1>2, <2>2 DEF VolRow
  <2>4. CalledBy(r) \subseteq {k[2] : k \in Reach(p)}
    BY OwnReach DEF CalledBy, Called
  <2>5. QED
    BY <2>1, <2>3, <2>4 DEF VolsElsewhere, KnownVolume
<1>5. CASE ~\/ \E d \in Devs : RecordVolume(p, d)
            \/ UnrecordVolume(p) \/ DeleteVolumeRecord(p)
  BY <1>1, <1>5, OtherSteps
<1>6. QED
  BY <1>3, <1>4, <1>5

LEMMA StepJoinsElsewhere ==
    ASSUME SInv, NEW p \in Procs, Begin(p) \/ Step(p)
    PROVE  JoinsElsewhere(p)
<1>1. CASE UNCHANGED joins
  BY <1>1 DEF JoinsElsewhere
<1>2. CASE JoinNewVolume(p) \/ JoinFoundVolume(p)
  BY <1>2 DEF JoinNewVolume, JoinFoundVolume, InsertJoin, JoinsElsewhere
<1>3. CASE UnrecordVolume(p) \/ DeleteVolumeRecord(p) \/ DeleteRow(p)
  BY <1>3 DEF UnrecordVolume, DeleteVolumeRecord, DeleteVolumeRow, DeleteRow, JoinsElsewhere
<1>4. CASE ~(JoinNewVolume(p) \/ JoinFoundVolume(p) \/ UnrecordVolume(p)
             \/ DeleteVolumeRecord(p) \/ DeleteRow(p))
  <2>1. UNCHANGED joins
    BY <1>4 DEF Begin, Step, BeginCreate, BeginOn, BeginMove, CheckName, MoveContainer,
       RecordName, UndoMove, InsertRow, CreateContainer, StartContainer, CreateVolume, AttachNewVolume, RemoveNewVolume, FinalizeRunning, FinalizeError,
       StartRequested, StopRequested, StatusWritten, ListVolumes, ProbeContainer,
       StopIgnored, RemoveContainer, Reattach, DeleteVolume, Return, RecordVolume,
       FindVolume, DetachVolume, LookUpListed, db
  <2>2. QED
    BY <1>1, <2>1
<1>5. QED
  BY <1>2, <1>3, <1>4

\* A process that is idle can only begin, which writes nothing but its request.
LEMMA IdleSteps ==
    ASSUME NEW p \in Procs, req[p].pc = "idle", Begin(p) \/ Step(p)
    PROVE  UNCHANGED <<db, incus, crashes>>
BY DEF Begin, Step, BeginCreate, BeginOn, InsertRow, CreateContainer, StartContainer,
   CreateVolume, AttachNewVolume, RemoveNewVolume, UnrecordVolume, JoinNewVolume,
   JoinFoundVolume, FinalizeRunning, FinalizeError, StartRequested, StopRequested,
   StatusWritten, ListVolumes, ProbeContainer, StopIgnored, RemoveContainer, Reattach,
   DeleteRow, DeleteVolume, DeleteVolumeRecord, Return, RecordVolume, FindVolume,
   DetachVolume, LookUpListed, BeginMove, CheckName, MoveContainer, RecordName, UndoMove, At

LEMMA StepElsewhere ==
    ASSUME SInv, NEW p \in Procs, Begin(p) \/ Step(p)
    PROVE  Elsewhere(p)
<1>1. OthersAsTheyWere(p)
  BY StepDb, StepKnows DEF SInv, KnowsNext, OthersAsTheyWere
<1>2. QED
  BY <1>1, StepIncusElsewhere, StepRowsElsewhere, StepVolsElsewhere, StepJoinsElsewhere
     DEF Elsewhere

\* Every step but a crash is one request's, and leaves alone whatever belongs
\* to the instances of other names - containers, devices, storage volumes,
\* rows, records and attachments - unless a rename has touched both names: what
\* a request does for an instance of a name that another gave up may reach the
\* other.  The rest of the code relies on it wherever a request for one instance
\* runs next to a request for another.
THEOREM RequestsKeepToTheirOwn ==
    Spec => [][(\E p \in Procs : Elsewhere(p)) \/ Crash]_vars
<1>1. SInv /\ [Next]_vars => SInv'
  BY StepSInv, CrashSInv, StutterSInv DEF Next
<1>2. SInv /\ [Next]_vars => [(\E p \in Procs : Elsewhere(p)) \/ Crash]_vars
  BY StepElsewhere DEF Next
<1>3. QED
  BY <1>1, <1>2, InitSInv, PTL DEF Spec

-----------------------------------------------------------------------------
(* Every request comes to its end.                                         *)

\* Where a request is on its way: the phases in the order in which an
\* operation passes through them,
PhaseOf ==
    [start |-> 1, started |-> 2, stop |-> 1, stopped |-> 2,
     delStop |-> 0, list |-> 1, delRow |-> 2, delContainer |-> 3,
     delVols |-> 4, delVol |-> 4, delRec |-> 4,
     probe |-> 2, rbStop |-> 3, detach |-> 4, container |-> 5,
     volumes |-> 6, volCreate |-> 6, volAttach |-> 6, volUndo |-> 6, volUnrecord |-> 6,
     volJoin |-> 6, reattach |-> 6, attach |-> 6, insert |-> 0,
     joins |-> 8, joinInsert |-> 8, ready |-> 8, fail |-> 9]
MovePhaseOf ==
    [check |-> 0, stop |-> 1, stopped |-> 2, move |-> 3, record |-> 4, undo |-> 5,
     start |-> 6, started |-> 7]
Phase(r) == IF r.op \in Moves THEN MovePhaseOf[r.pc]
            ELSE IF r.op = "Create" /\ r.pc = "insert" THEN 7 ELSE PhaseOf[r.pc]

\* and the calls for one dir of the loop that a phase is.
CallOf ==
    [volCreate |-> 1, volAttach |-> 2, volJoin |-> 3, volUndo |-> 3, volUnrecord |-> 4,
     joinInsert |-> 1, attach |-> 1, delVol |-> 1, delRec |-> 2]
Call(r) == IF r.pc \in WithVolume THEN CallOf[r.pc] ELSE 0

\* From r to s a request has come closer to its end: it is in a later phase,
\* or has fewer dirs to go, or is at a later call for the same dirs.  The
\* order is well-founded as the dirs of a template are finitely many.
Closer(r, s) ==
    \/ Phase(r) < Phase(s)
    \/ /\ Phase(r) = Phase(s)
       /\ \/ s.todo \subseteq r.todo /\ s.todo # r.todo
          \/ s.todo = r.todo /\ Call(r) < Call(s)

\* The dir of the current calls is still on the list of the loop.
OnList(r) == r.pc \in WithVolume => r.dev \in r.todo
AllOnList == \A p \in Procs : OnList(req[p])

Advances(p) == \/ req[p].pc = "idle" /\ req'[p].pc # "idle"
               \/ req[p].pc # "idle" /\ Ends(p)
               \/ req[p].pc # "idle" /\ Closer(req[p], req'[p])

LEMMA MovesList ==
    ASSUME TypeOK, NEW p \in Procs
    PROVE  /\ \A l : Goto(p, l) => req'[p].todo = req[p].todo
           /\ \A l, D : Loop(p, l, D) => req'[p].todo = D
           /\ \A l, d : NextDir(p, l, d) => req'[p].todo = req[p].todo \ {d}
<1>1. req[p] \in Request /\ \A r : Becomes(p, r) => req'[p] = r
  BY DEF TypeOK, Becomes
<1>2. QED
  BY <1>1 DEF Goto, Loop, NextDir, Request

\* The calls that turn a dir of the loop into the first call for it, or pass
\* over it.
LEMMA TakesDir ==
    ASSUME TypeOK, NEW p \in Procs, NEW d \in Devs,
           RecordVolume(p, d) \/ FindVolume(p, d) \/ LookUpListed(p, d)
    PROVE  /\ req[p].pc \in {"volumes", "joins", "reattach", "delVols"} /\ d \in req[p].todo
           /\ req'[p].op = req[p].op
           /\ \/ req'[p].pc = req[p].pc /\ req'[p].todo = req[p].todo \ {d}
              \/ /\ req'[p].todo = req[p].todo /\ req'[p].dev = d
                 /\ \/ req[p].pc = "volumes" /\ req'[p].pc = "volCreate"
                    \/ req[p].pc = "joins" /\ req'[p].pc = "joinInsert"
                    \/ req[p].pc = "reattach" /\ req'[p].pc = "attach"
                    \/ req[p].pc = "delVols" /\ req'[p].pc = "delVol"
<1>1. req[p] \in Request /\ \A r : Becomes(p, r) => req'[p] = r
  BY DEF TypeOK, Becomes
<1>2. ASSUME NEW l, NextDir(p, l, d)
      PROVE  req'[p].pc = l /\ req'[p].op = req[p].op /\ req'[p].todo = req[p].todo \ {d}
  BY <1>2, ControlMoves, MovesList DEF Turns, Same
<1>3. ASSUME NEW l, NEW v, Becomes(p, [req[p] EXCEPT !.pc = l, !.dev = d, !.vid = v])
      PROVE  /\ req'[p].pc = l /\ req'[p].op = req[p].op /\ req'[p].todo = req[p].todo
             /\ req'[p].dev = d
  <2>1. req'[p] = [req[p] EXCEPT !.pc = l, !.dev = d, !.vid = v]
    BY <1>1, <1>3
  <2>2. QED
    BY <1>1, <2>1 DEF Request
<1>4. CASE RecordVolume(p, d)
  <2>1. ASSUME NEW v \in VolIds, NEW f,
               Becomes(p, [req[p] EXCEPT !.pc = "volCreate", !.dev = d, !.vid = v, !.first = f])
        PROVE  /\ req'[p].pc = "volCreate" /\ req'[p].op = req[p].op
               /\ req'[p].todo = req[p].todo /\ req'[p].dev = d
    <3>1. req'[p] = [req[p] EXCEPT !.pc = "volCreate", !.dev = d, !.vid = v, !.first = f]
      BY <1>1, <2>1
    <3>2. QED
      BY <1>1, <3>1 DEF Request
  <2>2. QED
    BY <1>2, <1>4, <2>1 DEF RecordVolume, At
<1>5. CASE FindVolume(p, d)
  BY <1>2, <1>3, <1>5 DEF FindVolume, At
<1>6. CASE LookUpListed(p, d)
  <2>1. PICK j \in req[p].snap :
          IF LiveVol(j.vol)
            THEN Becomes(p, [req[p] EXCEPT !.dev = d, !.vid = j.vol,
                               !.pc = IF At(p, "reattach") THEN "attach" ELSE "delVol"])
            ELSE NextDir(p, req[p].pc, d)
    BY <1>6 DEF LookUpListed
  <2>2. CASE LiveVol(j.vol)
    <3>1. PICK l : l = IF At(p, "reattach") THEN "attach" ELSE "delVol"
      OBVIOUS
    <3>2. req'[p] = [req[p] EXCEPT !.dev = d, !.vid = j.vol, !.pc = l]
      BY <1>1, <2>1, <2>2, <3>1
    <3>3. /\ req'[p].pc = l /\ req'[p].op = req[p].op /\ req'[p].todo = req[p].todo
          /\ req'[p].dev = d
      BY <1>1, <3>2 DEF Request
    <3>4. QED
      BY <1>6, <3>1, <3>3 DEF LookUpListed, At
  <2>3. CASE ~LiveVol(j.vol)
    BY <1>2, <1>6, <2>1, <2>3 DEF LookUpListed, At
  <2>4. QED
    BY <2>2, <2>3
<1>7. QED
  BY <1>4, <1>5, <1>6

LEMMA StepAdvances ==
    ASSUME SInv, NEW p \in Procs, OnList(req[p]), Step(p)
    PROVE  /\ Ends(p) \/ Closer(req[p], req'[p])
           /\ OnList(req'[p])
<1> USE DEF Closer, Phase, PhaseOf, MovePhaseOf, Moves, OnList, WithVolume
<1>0. /\ \A l : Goto(p, l) => Goes(p, l) /\ req'[p].todo = req[p].todo
      /\ \A l, D : Loop(p, l, D) => Goes(p, l) /\ req'[p].todo = D
      /\ \A l, d : NextDir(p, l, d) => Turns(p, l) /\ req'[p].todo = req[p].todo \ {d}
      /\ Done(p) => Ends(p)
      /\ Ends(p) => OnList(req'[p])
  BY ControlMoves, MovesList, IdleIs DEF Ends, SInv, IInv
<1>1. TypeOK /\ InPlace(req[p]) /\ req[p].op \in AllOps \cup {"none"} /\ Placed(req[p])
  BY Actor DEF TypeOK, Request, SInv, IInv, OnCourse
<1> DEFINE l == req[p].pc
<1>16. l \notin MoveLabels => req[p].op \notin Moves
  BY <1>1 DEF Placed
<1>2. CASE InsertRow(p)
  BY <1>0, <1>1, <1>2, InsertRowIs DEF InPlace, Places, AllOps, MoveLabels
<1>3. CASE ListVolumes(p)
  BY <1>1, <1>3, ListVolumesIs DEF InPlace, Places, AllOps, MoveLabels
<1>4. CASE \E d \in Devs : RecordVolume(p, d) \/ FindVolume(p, d) \/ LookUpListed(p, d)
  BY <1>1, <1>4, <1>16, TakesDir DEF Call, CallOf, MoveLabels
<1>5. CASE FinalizeRunning(p) \/ FinalizeError(p) \/ Return(p)
  BY <1>0, <1>5 DEF FinalizeRunning, FinalizeError, Return
<1>17. CASE StatusWritten(p)
  BY <1>0, <1>17 DEF StatusWritten, At, Goes, Same
<1>18. CASE CheckName(p) \/ MoveContainer(p) \/ UndoMove(p) \/ RecordName(p)
  <2>1. req[p].op \in {"Rename", "TransferToUser"} /\ req[p].id \in Ids
    BY <1>1, <1>18, Mover DEF CheckName, MoveContainer, UndoMove, RecordName, At, Placed, SInv
  <2>2. CASE Ends(p)
    BY <1>0, <2>2
  <2>3. ASSUME NEW m \in MoveLabels, MovePhaseOf[l] < MovePhaseOf[m], Goes(p, m)
        PROVE  Closer(req[p], req'[p]) /\ OnList(req'[p])
    BY <2>1, <2>3 DEF Goes, Same, MoveLabels
  <2>4. CASE CheckName(p)
    <3>1. l = "check" /\ (Ends(p) \/ \E m \in {"stop", "move"} : Goes(p, m))
      BY <1>1, <2>1, <2>4, CheckNameIs
    <3>2. QED
      BY <2>2, <2>3, <3>1 DEF MoveLabels
  <2>5. CASE MoveContainer(p)
    BY <1>1, <2>2, <2>3, <2>5, MoveContainerIs DEF MoveLabels
  <2>6. CASE UndoMove(p)
    BY <1>1, <2>2, <2>3, <2>6, UndoMoveIs DEF MoveLabels
  <2>7. CASE RecordName(p)
    <3>1. ASSUME l = "record", req'[p].pc = "start", req'[p].op = req[p].op
          PROVE  Closer(req[p], req'[p]) /\ OnList(req'[p])
      BY <2>1, <3>1
    <3>2. /\ l = "record"
          /\ \/ Ends(p) \/ Goes(p, "undo")
             \/ req'[p].pc = "start" /\ req'[p].op = req[p].op
      BY <1>1, <2>1, <2>7, RecordNameIs
    <3>3. QED
      BY <2>2, <2>3, <3>1, <3>2 DEF MoveLabels
  <2>8. QED
    BY <1>18, <2>4, <2>5, <2>6, <2>7
<1>6. CASE CreateContainer(p)
  BY <1>0, <1>6, <1>16 DEF MoveLabels, CreateContainer, At, Goes, Same
<1>7. CASE CreateVolume(p) \/ RemoveNewVolume(p) \/ DeleteVolume(p)
  BY <1>0, <1>7, <1>16 DEF MoveLabels, CreateVolume, RemoveNewVolume, DeleteVolume, At, Goes, Same, Call, CallOf
<1>8. CASE AttachNewVolume(p)
  BY <1>0, <1>8, <1>16 DEF MoveLabels, AttachNewVolume, At, Goes, Turns, Same, Call, CallOf
<1>9. CASE UnrecordVolume(p) \/ JoinNewVolume(p) \/ JoinFoundVolume(p) \/ DeleteVolumeRecord(p)
  BY <1>0, <1>9, <1>16 DEF MoveLabels, UnrecordVolume, JoinNewVolume, JoinFoundVolume, DeleteVolumeRecord, At,
     Turns, Same
<1>10. CASE StartContainer(p)
  BY <1>0, <1>10, <1>16 DEF MoveLabels, StartContainer, At, Goes, Same
<1>11. CASE StartRequested(p) \/ StopRequested(p)
  BY <1>0, <1>11 DEF StartRequested, StopRequested, At, Goes, Same
<1>12. CASE ProbeContainer(p) \/ StopIgnored(p)
  BY <1>0, <1>12, <1>16 DEF MoveLabels, ProbeContainer, StopIgnored, At, Goes, Same
<1>13. CASE RemoveContainer(p) \/ DeleteRow(p)
  BY <1>0, <1>13, <1>16 DEF MoveLabels, RemoveContainer, DeleteRow, At, Goes, Same
<1>14. CASE Reattach(p) \/ (\E d \in Devs : DetachVolume(p, d))
  BY <1>0, <1>14, <1>16 DEF MoveLabels, Reattach, DetachVolume, At, Turns, Same
<1>15. QED
  BY <1>2, <1>3, <1>4, <1>5, <1>6, <1>7, <1>8, <1>9, <1>10, <1>11, <1>12, <1>13, <1>14,
     <1>17, <1>18 DEF Step

LEMMA BeginAdvances ==
    ASSUME TypeOK, NEW p \in Procs, Begin(p)
    PROVE  req[p].pc = "idle" /\ req'[p].pc # "idle" /\ OnList(req'[p])
<1> USE DEF BeganOn, OnList, WithVolume, At
<1>1. ASSUME NEW o \in AllOps, NEW n \in Names, BeginCreate(p, o, n)
      PROVE  req[p].pc = "idle" /\ req'[p].pc # "idle" /\ OnList(req'[p])
  BY <1>1, BeginCreateIs DEF BeginCreate
<1>2. ASSUME NEW o \in AllOps, NEW i \in Ids, BeginOn(p, o, i)
      PROVE  req[p].pc = "idle" /\ req'[p].pc # "idle" /\ OnList(req'[p])
  BY <1>2, BeginOnIs DEF BeginOn
<1>3. ASSUME NEW o \in AllOps, NEW i \in Ids, NEW n \in Names, BeginMove(p, o, i, n)
      PROVE  req[p].pc = "idle" /\ req'[p].pc # "idle" /\ OnList(req'[p])
  BY <1>3, BeginMoveIs DEF BeginMove
<1>4. QED
  BY <1>1, <1>2, <1>3 DEF Begin

\* No request goes round in circles: whatever calls fail and whatever else
\* runs, every step but a crash begins a request, ends one, or brings the one
\* that takes it closer to its end.  Of the promise that every request, and so
\* every creation, comes to an end this is the part that does not need
\* fairness.
THEOREM RequestsAdvance ==
    Spec => [][(\E p \in Procs : Advances(p)) \/ Crash]_vars
<1> DEFINE Inv == SInv /\ AllOnList
<1>1. Init => Inv
  <2>1. SUFFICES ASSUME Init PROVE AllOnList
    BY InitSInv
  <2>2. \A p \in Procs : req[p] = Idle
    BY <2>1 DEF Init
  <2>3. QED
    BY <2>2, IdleIs DEF AllOnList, OnList, WithVolume
<1>2. ASSUME Inv, NEW p \in Procs, Begin(p) \/ Step(p)
      PROVE  Advances(p) /\ AllOnList'
  <2>1. TypeOK /\ InPlace(req[p]) /\ (\A q \in Procs : q # p => req'[q] = req[q])
    BY <1>2, StepElsewhere DEF SInv, IInv, OnCourse, Elsewhere, OthersAsTheyWere
  <2>2. CASE Begin(p)
    BY <1>2, <2>1, <2>2, BeginAdvances DEF Advances, AllOnList
  <2>3. CASE Step(p)
    <3>1. req[p].pc # "idle"
      BY <2>3 DEF Step, InsertRow, CreateContainer, StartContainer, CreateVolume,
         AttachNewVolume, RemoveNewVolume, UnrecordVolume, JoinNewVolume, JoinFoundVolume,
         FinalizeRunning, FinalizeError, StartRequested, StopRequested, StatusWritten,
         ListVolumes, ProbeContainer, StopIgnored, RemoveContainer, Reattach, DeleteRow,
         DeleteVolume, DeleteVolumeRecord, Return, RecordVolume, FindVolume, DetachVolume,
         LookUpListed, CheckName, MoveContainer, RecordName, UndoMove, At
    <3>2. QED
      BY <1>2, <2>1, <2>3, <3>1, StepAdvances DEF Advances, AllOnList
  <2>4. QED
    BY <1>2, <2>2, <2>3
<1>3. Inv /\ [Next]_vars => Inv' /\ [(\E p \in Procs : Advances(p)) \/ Crash]_vars
  <2>1. SUFFICES ASSUME Inv, [Next]_vars
                 PROVE  Inv' /\ [(\E p \in Procs : Advances(p)) \/ Crash]_vars
    OBVIOUS
  <2>2. CASE \E p \in Procs : Begin(p) \/ Step(p)
    BY <1>2, <2>1, <2>2, StepSInv
  <2>3. CASE Crash
    BY <2>1, <2>3, CrashSInv, IdleIs DEF Crash, AllOnList, OnList, WithVolume
  <2>4. CASE UNCHANGED vars
    BY <2>1, <2>4, StutterSInv DEF vars, AllOnList
  <2>5. QED
    BY <2>1, <2>2, <2>3, <2>4 DEF Next
<1>4. QED
  BY <1>1, <1>3, PTL DEF Spec
-----------------------------------------------------------------------------
(* The names that no rename has touched.                                   *)

\* A request under way ends, or goes on with its key and, once it has a row,
\* with that row.  Only the last write of a rename turns to another key.
GoesOn(p) ==
    /\ req'[p].pc # "idle" /\ req'[p].op = req[p].op
    /\ \/ req'[p].key = req[p].key
       \/ req[p].pc = "record" /\ req'[p].key = req[p].to
    /\ req[p].pc # "insert" => req'[p].id = req[p].id
    /\ req[p].op = "CreateAsync" => req'[p].pc # "insert"

LEMMA StepGoesOn ==
    ASSUME SInv, NEW p \in Procs, Step(p)
    PROVE  req[p].pc # "idle" /\ (Ends(p) \/ GoesOn(p))
<1> USE DEF GoesOn, At
<1>0. /\ \A l \in Labels \ {"idle", "insert"} : Goto(p, l) => GoesOn(p)
      /\ \A l \in Labels \ {"idle", "insert"} : \A D : Loop(p, l, D) => GoesOn(p)
      /\ \A l \in Labels \ {"idle", "insert"} : \A d : NextDir(p, l, d) => GoesOn(p)
      /\ \A l \in Labels \ {"idle", "insert"} : Goes(p, l) => GoesOn(p)
      /\ Done(p) => Ends(p)
  BY ControlMoves DEF Goes, Turns, Same, SInv, IInv
<1>1. /\ {"container", "volumes", "volCreate", "volAttach", "volUndo", "volUnrecord", "volJoin",
          "joins", "joinInsert", "ready", "fail", "start", "started", "stop", "stopped",
          "list", "probe", "rbStop", "detach", "reattach", "attach", "delStop", "delRow",
          "delContainer", "delVols", "delVol", "delRec", "move", "record", "undo"}
             \subseteq Labels \ {"idle", "insert"}
      /\ req[p].op \in AllOps \cup {"none"} /\ TypeOK /\ InPlace(req[p])
  BY DEF Labels, TypeOK, Request, SInv, IInv, OnCourse
<1>2. CASE InsertRow(p) \/ ListVolumes(p)
  BY <1>1, <1>2, InsertRowIs, ListVolumesIs
<1>3. CASE \E d \in Devs : RecordVolume(p, d) \/ FindVolume(p, d)
  BY <1>1, <1>3, RecordVolumeIs, FindVolumeIs DEF Turns, Same, Takes
<1>4. CASE \E d \in Devs : LookUpListed(p, d)
  BY <1>1, <1>4, LookUpListedIs DEF Turns, Same, Takes
<1>5. CASE FinalizeRunning(p) \/ FinalizeError(p) \/ StatusWritten(p) \/ Return(p)
  BY <1>0, <1>1, <1>5 DEF FinalizeRunning, FinalizeError, StatusWritten, Return
<1>6. CASE CreateContainer(p)
  BY <1>0, <1>1, <1>6 DEF CreateContainer
<1>7. CASE StartContainer(p)
  <2>1. CASE Goto(p, "insert") /\ req[p].op = "Create"
    BY <1>1, <1>7, <2>1, ControlMoves DEF Goes, Same, StartContainer
  <2>2. QED
    BY <1>0, <1>1, <1>7, <2>1 DEF StartContainer
<1>8. CASE StartRequested(p) \/ StopRequested(p)
  BY <1>0, <1>1, <1>8 DEF StartRequested, StopRequested
<1>9. CASE \/ CreateVolume(p) \/ RemoveNewVolume(p) \/ AttachNewVolume(p) \/ UnrecordVolume(p)
           \/ JoinNewVolume(p) \/ JoinFoundVolume(p) \/ ProbeContainer(p) \/ StopIgnored(p)
  BY <1>0, <1>1, <1>9 DEF CreateVolume, RemoveNewVolume, AttachNewVolume, UnrecordVolume,
     JoinNewVolume, JoinFoundVolume, ProbeContainer, StopIgnored
<1>10. CASE \/ RemoveContainer(p) \/ Reattach(p) \/ DeleteRow(p) \/ DeleteVolume(p)
            \/ DeleteVolumeRecord(p) \/ (\E d \in Devs : DetachVolume(p, d))
  BY <1>0, <1>1, <1>10 DEF RemoveContainer, Reattach, DeleteRow, DeleteVolume,
     DeleteVolumeRecord, DetachVolume
<1>11. CASE CheckName(p) \/ MoveContainer(p) \/ UndoMove(p) \/ RecordName(p)
  <2>1. req[p].op \in Moves /\ req[p].id \in Ids
    BY <1>11, Mover, Actor DEF CheckName, MoveContainer, UndoMove, RecordName, Placed, SInv
  <2>2. req[p].op # "CreateAsync"
    BY <2>1 DEF Moves
  <2>3. CASE CheckName(p) \/ MoveContainer(p) \/ UndoMove(p)
    BY <1>0, <1>1, <2>1, <2>3, CheckNameIs, MoveContainerIs, UndoMoveIs
  <2>4. CASE RecordName(p)
    BY <1>0, <1>1, <2>1, <2>2, <2>4, RecordNameIs
  <2>5. QED
    BY <1>11, <2>3, <2>4
<1>12. QED
  BY <1>2, <1>3, <1>4, <1>5, <1>6, <1>7, <1>8, <1>9, <1>10, <1>11 DEF Step

\* A request on such a name, and what is known of its row.
Plain(r) == r.pc = "idle" \/ r.key \notin Renamed

LEMMA PlainRow ==
    ASSUME SInv, NEW p \in Procs, Plain(req[p]), req[p].pc # "idle"
    PROVE  /\ req[p].key \in Keys \ Renamed
           /\ CalledBy(req[p]) = {req[p].key[2]}
           /\ req[p].id # None => /\ req[p].id \in Ids /\ inst[req[p].id].status # "unused"
                                  /\ inst[req[p].id].names = {req[p].key}
                                  /\ Live(req[p].id) => inst[req[p].id].key = req[p].key
<1> DEFINE r == req[p]
<1>1. r.key \in Keys \ Renamed
  BY Actor DEF SInv, Placed, Plain
<1>2. CASE r.id = None
  BY <1>1, <1>2 DEF CalledBy
<1>3. CASE r.id # None
  <2>1. r.id \in Ids /\ inst[r.id].status # "unused" /\ r.key \in inst[r.id].names
    BY <1>3, Actor DEF SInv, Remembers
  <2>2. inst[r.id].names = {r.key}
    BY <1>1, <2>1 DEF Renamed
  <2>3. Live(r.id) => inst[r.id].key = r.key
    BY <2>1, <2>2 DEF SInv, IInv, DbInv, UniqueKeys
  <2>4. QED
    BY <1>1, <1>3, <2>1, <2>2, <2>3 DEF CalledBy, Called
<1>4. QED
  BY <1>2, <1>3

\* The steps of the operations that keep the name,
Served == {"CreateAsync", "Create", "Start", "Stop", "Sleep", "Rebuild", "Delete"}
Serves(p) ==
    \/ \E o \in AllOps, n \in Names : BeginCreate(p, o, n)
    \/ \E o \in AllOps, i \in Ids : BeginOn(p, o, i)
    \/ /\ req[p].op \notin Moves
       /\ \/ InsertRow(p) \/ CreateContainer(p) \/ StartContainer(p)
          \/ CreateVolume(p) \/ AttachNewVolume(p) \/ RemoveNewVolume(p)
          \/ UnrecordVolume(p) \/ JoinNewVolume(p) \/ JoinFoundVolume(p)
          \/ FinalizeRunning(p) \/ FinalizeError(p)
          \/ StartRequested(p) \/ StopRequested(p) \/ StatusWritten(p)
          \/ ListVolumes(p) \/ ProbeContainer(p) \/ StopIgnored(p)
          \/ RemoveContainer(p) \/ Reattach(p) \/ DeleteRow(p)
          \/ DeleteVolume(p) \/ DeleteVolumeRecord(p) \/ Return(p)
          \/ \E d \in Devs : \/ RecordVolume(p, d) \/ FindVolume(p, d)
                             \/ DetachVolume(p, d) \/ LookUpListed(p, d)

\* those that change nothing but the request, and those for names that a rename
\* has touched.  What the latter two leave of a request on another name is at
\* its very beginning or end.
Stands(p)  == UNCHANGED <<db, incus, crashes>> /\ Renamed' = Renamed
              /\ req[p].pc \in {"idle", "check"}
Strays(p)  == req[p].pc # "idle" /\ req[p].key \in Renamed'
Resting(p) == req'[p].pc \in {"idle", "check"} /\ req'[p].op \in {"none"} \cup Moves

LEMMA ServedIs ==
    ASSUME SInv, NEW p \in Procs, Serves(p)
    PROVE  /\ Begin(p) \/ Step(p)
           /\ req[p].op \in Served \cup {"none"}
<1>1. Begin(p) \/ Step(p)
  BY DEF Serves, Begin, Step
<1>2. InPlace(req[p]) /\ req[p].op \in AllOps \cup {"none"}
  BY DEF SInv, IInv, TypeOK, Request, OnCourse
<1>3. req[p].pc = "idle" => req[p].op = "none"
  BY <1>2 DEF InPlace, Places, AllOps, Moves, MoveLabels
<1>4. QED
  BY <1>1, <1>2, <1>3 DEF Serves, BeginCreate, BeginOn, At, AllOps, Served

LEMMA Kinds ==
    ASSUME SInv, NEW p \in Procs, Begin(p) \/ Step(p)
    PROVE  \/ Serves(p) /\ Plain(req[p]) /\ Plain(req[p])' /\ Renamed' = Renamed
           \/ /\ Stands(p) \/ Strays(p)
              /\ Plain(req[p])' => Resting(p)
<1> DEFINE r == req[p]
<1>0. TypeOK /\ SInv'
  BY StepSInv DEF SInv, IInv
<1>1. Renamed \subseteq Renamed'
  BY StepRenamed DEF SInv
<1>2. ASSUME Ends(p) PROVE Plain(r)' /\ Resting(p)
  BY <1>2, IdleIs DEF Ends, Plain, Resting
<1>3. CASE Begin(p)
  <2>1. r.pc = "idle"
    BY <1>3 DEF Begin, BeginCreate, BeginOn, BeginMove, At
  <2>2. UNCHANGED <<db, incus, crashes>>
    BY <1>3, <2>1, IdleSteps
  <2>3. Stands(p) /\ Renamed' = Renamed
    BY <2>1, <2>2 DEF Stands, Renamed, db
  <2>4. ASSUME NEW o \in AllOps, NEW i \in Ids, NEW n \in Names, BeginMove(p, o, i, n)
        PROVE  Resting(p)
    BY <1>0, <2>4, BeginMoveIs DEF BeganOn, Resting
  <2>5. QED
    BY <1>3, <2>1, <2>3, <2>4 DEF Begin, Serves, Plain
<1>4. CASE Step(p) /\ r.key \in Renamed'
  <2>1. r.pc # "idle" /\ (Ends(p) \/ GoesOn(p))
    BY <1>4, StepGoesOn
  <2>2. CASE GoesOn(p)
    <3>1. r.pc = "record" => r.to \in Renamed
      BY Actor, MoversRenamed DEF SInv, Placed
    <3>2. ~Plain(r)'
      BY <1>1, <1>4, <2>2, <3>1 DEF GoesOn, Plain
    <3>3. QED
      BY <1>4, <2>1, <3>2 DEF Strays
  <2>3. QED
    BY <1>2, <1>4, <2>1, <2>2 DEF Strays
<1>5. CASE Step(p) /\ r.key \notin Renamed'
  <2>1. Renamed' = Renamed /\ r.pc # "idle" /\ (Ends(p) \/ GoesOn(p)) /\ r.key \notin Renamed
    BY <1>5, StepRenamed, StepGoesOn DEF SInv
  <2>2. CASE r.op \notin Moves
    <3>1. Serves(p)
      BY <1>5, <2>2, Actor
         DEF Step, Serves, CheckName, MoveContainer, RecordName, UndoMove, At, Placed, SInv
    <3>2. Plain(r)'
      BY <1>2, <2>1, <2>2, Actor DEF GoesOn, Plain, Placed, SInv
    <3>3. QED
      BY <2>1, <3>1, <3>2 DEF Plain
  <2>3. CASE r.op \in Moves
    <3>1. r.pc = "check"
      BY <2>1, <2>3, MoversRenamed DEF SInv
    <3>2. CheckName(p)
      BY <1>5, <3>1 DEF Step, InsertRow, CreateContainer, StartContainer, CreateVolume,
         AttachNewVolume, RemoveNewVolume, UnrecordVolume, JoinNewVolume, JoinFoundVolume,
         FinalizeRunning, FinalizeError, StartRequested, StopRequested, StatusWritten,
         MoveContainer, RecordName, UndoMove, ListVolumes, ProbeContainer, StopIgnored,
         RemoveContainer, Reattach, DeleteRow, DeleteVolume, DeleteVolumeRecord, Return,
         RecordVolume, FindVolume, DetachVolume, LookUpListed, At
    <3>3. /\ r.id \in Ids /\ r.key \in inst[r.id].names /\ r.to # r.key
          /\ r.key \in Keys
      BY <2>3, <3>1, Mover, Actor DEF SInv, Remembers
    <3>4. CASE inst' = [inst EXCEPT ![r.id].names = @ \cup {r.to}]
      <4>1. inst'[r.id].names = inst[r.id].names \cup {r.to}
        BY <1>0, <3>3, <3>4 DEF TypeOK, Row
      <4>2. r.key \in Renamed'
        BY <3>3, <4>1 DEF Renamed
      <4>3. QED
        BY <1>5, <4>2
    <3>5. CASE UNCHANGED inst /\ Ends(p)
      <4>1. UNCHANGED <<db, incus, crashes>>
        BY <3>2, <3>5 DEF CheckName, db
      <4>2. QED
        BY <1>2, <2>1, <3>1, <3>5, <4>1 DEF Stands
    <3>6. QED
      BY <1>0, <3>2, <3>3, <3>4, <3>5, CheckNameIs
  <2>4. QED
    BY <2>2, <2>3
<1>6. QED
  BY <1>3, <1>4, <1>5

\* Nor do they reach anything of the other names.
LEMMA OutOfReach ==
    ASSUME SInv, NEW p \in Procs, Begin(p) \/ Step(p), Stands(p) \/ Strays(p)
    PROVE  /\ \A k \in Keys \ Renamed' : cont'[k] = cont[k] /\ devs'[k] = devs[k]
           /\ \A x \in Keys \X Devs : x[1] \notin Renamed' => (x \in store' <=> x \in store)
           /\ \A i \in Ids : /\ Live(i)' /\ inst'[i].key \notin Renamed' => inst'[i] = inst[i]
                             /\ Live(i) /\ inst[i].key \notin Renamed' => inst'[i] = inst[i]
           /\ \A v \in VolIds : vol'[v] # vol[v] => vol'[v].key[2] \in {k[2] : k \in Renamed'}
           /\ \A j \in joins' \ joins : vol'[j.vol].key[2] \in {k[2] : k \in Renamed'}
<1>1. CASE Stands(p)
  BY <1>1 DEF Stands, db, incus
<1>2. CASE Strays(p)
  <2>1. Reach(p) \subseteq Renamed' /\ Elsewhere(p) /\ SInv'
    BY <1>2, StepElsewhere, StepSInv DEF Strays, Reach
  <2>2. ASSUME NEW j \in joins' \ joins
        PROVE  vol'[j.vol].key[2] \in {k[2] : k \in Renamed'}
    <3>1. j.inst = req[p].id /\ j.inst \in Ids
      BY <2>1, <2>2 DEF Elsewhere, JoinsElsewhere, SInv, IInv, TypeOK, Join
    <3>2. inst'[j.inst].names \subseteq Renamed'
      BY <2>1, <3>1, NoneIsNothing, OwnReach
    <3>3. vol'[j.vol].key[2] \in {k[2] : k \in inst'[j.inst].names}
      BY <2>1, <2>2 DEF SInv, IInv, DbInv, JoinIntegrity, Called
    <3>4. QED
      BY <3>2, <3>3
  <2>3. QED
    BY <2>1, <2>2 DEF Elsewhere, IncusElsewhere, RowsElsewhere, VolsElsewhere
<1>3. QED
  BY <1>1, <1>2

-----------------------------------------------------------------------------
(* Requests on different instances.                                        *)

\* No two requests under way concern the same instance, or the same name to
\* be.  Nothing in the code sees to it; what follows says what holds as long
\* as it is so, however many requests run at once.
Apart == \A p, q \in Procs : p # q /\ req[p].key # None => req[p].key # req[q].key

\* Whether the request's row is there.
HasRow(r)  == \/ r.op \in {"Start", "Stop", "Sleep", "Rebuild"}
              \/ r.op = "CreateAsync" /\ r.pc # "insert"
              \/ r.op = "Create" /\ r.pc \in {"joins", "joinInsert"}
              \/ r.op = "Delete" /\ r.pc \in {"delStop", "list", "delRow"}
RowGone(r) == \/ r.op = "Create" /\ r.pc \notin {"joins", "joinInsert"}
              \/ r.op = "Delete" /\ r.pc \notin {"delStop", "list", "delRow"}

RowInv(r) ==
    /\ HasRow(r) => r.id \in Ids /\ Live(r.id)
    /\ RowGone(r) => \A i \in Ids : Live(i) => inst[i].key # r.key

\* A volume record that the request has just made is nobody's yet; one that it
\* is about to remove is still there.
NewVolume == {"volCreate", "volAttach", "volUndo", "volUnrecord", "volJoin"}
OldVolume == {"delVol", "delRec"}

VolumeInv(r) ==
    /\ r.pc \in NewVolume \cup OldVolume => LiveVol(r.vid)
    /\ r.pc \in NewVolume => /\ \A i \in Ids : Live(i) => inst[i].volume # r.vid
                             /\ \A j \in joins : j.vol # r.vid

LEMMA IdleRow ==
    ASSUME NEW q \in Procs, Ends(q) \/ Resting(q)
    PROVE  RowInv(req[q])' /\ VolumeInv(req[q])'
BY IdleIs DEF Ends, Resting, Moves, RowInv, VolumeInv, HasRow, RowGone, NewVolume, OldVolume

\* What holds at the step of a request, of its row and of its volume record.
AInv(q) == SInv /\ Plain(req[q]) /\ RowInv(req[q])
BInv(q) == AInv(q) /\ VolumeInv(req[q])

LEMMA StepRow ==
    ASSUME NEW q \in Procs, AInv(q), Serves(q)
    PROVE  RowInv(req[q])'
<1> USE DEF AInv, RowInv, HasRow, RowGone
<1>0. /\ \A l : Goto(q, l) => Goes(q, l)
      /\ \A l, D : Loop(q, l, D) => Goes(q, l)
      /\ \A l, d : NextDir(q, l, d) => Turns(q, l)
      /\ Done(q) => RowInv(req[q])'
      /\ Ends(q) => RowInv(req[q])'
  BY ControlMoves, IdleRow DEF SInv, IInv
<1>1. /\ TypeOK /\ InPlace(req[q]) /\ req[q].op \in Served \cup {"none"}
      /\ Served \subseteq AllOps /\ req[q].op \notin Moves
  BY ServedIs DEF SInv, IInv, OnCourse, Served, AllOps, Moves
<1>2. ASSUME NEW o \in AllOps, NEW n \in Names, BeginCreate(q, o, n) PROVE RowInv(req[q])'
  BY <1>1, <1>2, BeginCreateIs DEF BeganOn, db, Live
<1>3. ASSUME NEW o \in AllOps, NEW i \in Ids, BeginOn(q, o, i) PROVE RowInv(req[q])'
  BY <1>1, <1>3, BeginOnIs DEF BeganOn, db, Live
<1>4. CASE InsertRow(q)
  BY <1>0, <1>1, <1>4, InsertRowIs DEF Live, Statuses, InPlace, Places, Served, Moves, TypeOK
<1>5. CASE \E d \in Devs : RecordVolume(q, d)
  BY <1>0, <1>1, <1>5, RecordVolumeIs DEF Turns, Same, Takes, Live
<1>6. CASE \E d \in Devs : FindVolume(q, d)
  BY <1>0, <1>1, <1>6, FindVolumeIs DEF Turns, Same, Takes, Live, db
<1>7. CASE \E d \in Devs : LookUpListed(q, d)
  BY <1>0, <1>1, <1>7, LookUpListedIs DEF Turns, Same, Takes, Live, db, InPlace, Places, Served, Moves
<1>8. CASE ListVolumes(q)
  BY <1>1, <1>8, ListVolumesIs DEF Live, db
<1>9. CASE \/ FinalizeRunning(q) \/ FinalizeError(q) \/ StatusWritten(q) \/ Return(q)
  BY <1>0, <1>1, <1>9 DEF FinalizeRunning, FinalizeError, StatusWritten, Return
<1>10. CASE CreateContainer(q) \/ StartContainer(q)
  BY <1>0, <1>1, <1>10 DEF CreateContainer, StartContainer, At, Goes, Same, Live, db, InPlace,
     Places, Served, Moves
<1>11. CASE CreateVolume(q) \/ RemoveNewVolume(q) \/ AttachNewVolume(q) \/ UnrecordVolume(q)
  BY <1>0, <1>1, <1>11 DEF CreateVolume, RemoveNewVolume, AttachNewVolume, UnrecordVolume, At,
     Goes, Turns, Same, Live, db
<1>12. CASE JoinNewVolume(q) \/ JoinFoundVolume(q)
  BY <1>0, <1>1, <1>12 DEF JoinNewVolume, JoinFoundVolume, At, Turns, Same, Live
<1>13. CASE StartRequested(q) \/ StopRequested(q) \/ ProbeContainer(q) \/ StopIgnored(q)
  BY <1>0, <1>1, <1>13 DEF StartRequested, StopRequested, ProbeContainer, StopIgnored, At,
     Goes, Same, Live, db, InPlace, Places, Served, Moves
<1>14. CASE RemoveContainer(q) \/ DeleteVolume(q)
  BY <1>0, <1>1, <1>14 DEF RemoveContainer, DeleteVolume, At, Goes, Same, Live, db, InPlace,
     Places, Served, Moves
<1>15. CASE Reattach(q) \/ (\E d \in Devs : DetachVolume(q, d))
  BY <1>0, <1>1, <1>15 DEF Reattach, DetachVolume, At, Turns, Same, Live, db, InPlace, Places,
     AllOps
<1>16. CASE DeleteVolumeRecord(q)
  BY <1>0, <1>1, <1>16 DEF DeleteVolumeRecord, At, Turns, Same, Live, db
<1>17. CASE DeleteRow(q)
  <2>1. Goes(q, "delContainer") /\ req[q].op = "Delete" /\ req[q].pc = "delRow"
    BY <1>0, <1>1, <1>17 DEF DeleteRow, At, InPlace, Places, Served, Moves
  <2>2. /\ req[q].id \in Ids /\ Live(req[q].id)
        /\ inst' = [inst EXCEPT ![req[q].id].status = IF Live(req[q].id) THEN "deleted" ELSE @]
    BY <1>17, <2>1 DEF DeleteRow
  <2>3. /\ inst[req[q].id].key = req[q].key
    BY <2>1, <2>2, NoneIsNothing, PlainRow
  <2>4. \A i \in Ids : /\ inst'[i].key = inst[i].key
                       /\ Live(i)' => Live(i) /\ i # req[q].id
    BY <1>1, <2>2 DEF TypeOK, Row, Live, Statuses
  <2>5. \A i \in Ids : Live(i)' => inst'[i].key # req[q].key
    BY <2>2, <2>3, <2>4 DEF SInv, IInv, DbInv, UniqueKeys
  <2>6. QED
    BY <2>1, <2>5 DEF Goes, Same
<1>18. QED
  BY <1>2, <1>3, <1>4, <1>5, <1>6, <1>7, <1>8, <1>9, <1>10, <1>11, <1>12, <1>13, <1>14,
     <1>15, <1>16, <1>17 DEF Serves

LEMMA StepVolume ==
    ASSUME SInv, NEW q \in Procs, VolumeInv(req[q]), Serves(q)
    PROVE  VolumeInv(req[q])'
<1> USE DEF VolumeInv, NewVolume, OldVolume
<1>0. /\ \A l : Goto(q, l) => Goes(q, l)
      /\ \A l, D : Loop(q, l, D) => Goes(q, l)
      /\ \A l, d : NextDir(q, l, d) => Turns(q, l)
      /\ Done(q) => VolumeInv(req[q])'
      /\ Ends(q) => VolumeInv(req[q])'
  BY ControlMoves, IdleRow DEF SInv, IInv
<1>1. TypeOK /\ JoinIntegrity
  BY DEF SInv, IInv, DbInv
<1>2. ASSUME NEW o \in AllOps, NEW n \in Names, BeginCreate(q, o, n) PROVE VolumeInv(req[q])'
  BY <1>1, <1>2, BeginCreateIs DEF BeganOn
<1>3. ASSUME NEW o \in AllOps, NEW i \in Ids, BeginOn(q, o, i) PROVE VolumeInv(req[q])'
  BY <1>1, <1>3, BeginOnIs DEF BeganOn
<1>4. CASE InsertRow(q)
  BY <1>0, <1>1, <1>4, InsertRowIs
<1>5. CASE \E d \in Devs : RecordVolume(q, d)
  <2>1. PICK d \in Devs : RecordVolume(q, d)
    BY <1>5
  <2>2. CASE Turns(q, "volumes")
    BY <2>2 DEF Turns
  <2>3. ASSUME NEW v \in VolIds, vol[v].state = "unused",
               vol' = [vol EXCEPT ![v] = [state |-> "live", key |-> req[q].key, dev |-> d]],
               Takes(q, "volCreate", v, d), UNCHANGED <<inst, joins>>
        PROVE  VolumeInv(req[q])'
    <3>1. LiveVol(v)' /\ ~LiveVol(v)
      BY <1>1, <2>3 DEF LiveVol, TypeOK
    <3>2. (\A i \in Ids : Live(i) => inst[i].volume # v) /\ \A j \in joins : j.vol # v
      BY <1>1, <3>1, NoneIsNothing DEF JoinIntegrity
    <3>3. QED
      BY <2>3, <3>1, <3>2 DEF Takes, Live
  <2>4. QED
    BY <1>1, <2>1, <2>2, <2>3, RecordVolumeIs
<1>6. CASE \E d \in Devs : FindVolume(q, d)
  BY <1>0, <1>1, <1>6, FindVolumeIs DEF Turns, Takes
<1>7. CASE \E d \in Devs : LookUpListed(q, d)
  BY <1>0, <1>1, <1>7, LookUpListedIs DEF Turns, Takes, LiveVol, db
<1>8. CASE ListVolumes(q)
  BY <1>1, <1>8, ListVolumesIs
<1>9. CASE \/ FinalizeRunning(q) \/ FinalizeError(q) \/ StatusWritten(q) \/ Return(q)
  BY <1>0, <1>9, ServedIs DEF FinalizeRunning, FinalizeError, StatusWritten, Return, Served, Moves
<1>10. CASE CreateContainer(q) \/ StartContainer(q)
  BY <1>0, <1>10 DEF CreateContainer, StartContainer, At, Goes
<1>11. CASE CreateVolume(q) \/ RemoveNewVolume(q) \/ AttachNewVolume(q) \/ UnrecordVolume(q)
  BY <1>0, <1>11 DEF CreateVolume, RemoveNewVolume, AttachNewVolume, UnrecordVolume, At,
     Goes, Turns, Same, Live, LiveVol, db
<1>12. CASE JoinNewVolume(q) \/ JoinFoundVolume(q) \/ DeleteVolumeRecord(q)
  BY <1>0, <1>12 DEF JoinNewVolume, JoinFoundVolume, DeleteVolumeRecord, Turns
<1>13. CASE StartRequested(q) \/ StopRequested(q) \/ ProbeContainer(q) \/ StopIgnored(q)
  BY <1>0, <1>13 DEF StartRequested, StopRequested, ProbeContainer, StopIgnored, At, Goes
<1>14. CASE RemoveContainer(q) \/ DeleteRow(q)
  BY <1>0, <1>14 DEF RemoveContainer, DeleteRow, At, Goes
<1>15. CASE Reattach(q) \/ (\E d \in Devs : DetachVolume(q, d))
  BY <1>0, <1>15 DEF Reattach, DetachVolume, Turns
<1>16. CASE DeleteVolume(q)
  BY <1>0, <1>16 DEF DeleteVolume, At, Goes, LiveVol, db
<1>17. QED
  BY <1>2, <1>3, <1>4, <1>5, <1>6, <1>7, <1>8, <1>9, <1>10, <1>11, <1>12, <1>13, <1>14,
     <1>15, <1>16 DEF Serves

\* A step of a request that is apart leaves them so.
LEMMA ElseIs ==
    ASSUME SInv, Apart, NEW q \in Procs, Begin(q) \/ Step(q), NEW p \in Procs, p # q,
           Plain(req[p])'
    PROVE  /\ Elsewhere(q) /\ req'[p] = req[p] /\ IdsKept /\ Plain(req[p])
           /\ \/ /\ req[p].key \in Keys \ Reach(q) /\ req[p].key \notin Renamed'
                 /\ req[p].pc # "idle"
              \/ req[p].op = "none" /\ req[p].pc = "idle"
<1>1. Elsewhere(q) /\ IdsKept /\ Renamed \subseteq Renamed'
  BY StepElsewhere, StepDb, StepRenamed DEF SInv
<1>2. req'[p] = req[p] /\ Plain(req[p])
  BY <1>1 DEF Elsewhere, OthersAsTheyWere, Plain
<1>3. InPlace(req[p]) /\ req[p].op \in AllOps \cup {"none"} /\ Placed(req[p])
      /\ req[p].key \in Keys \cup {None}
  BY DEF SInv, IInv, TypeOK, Request, OnCourse, MemoryHolds, Knows
<1>4. req[p].pc = "idle" => req[p].op = "none"
  BY <1>3 DEF InPlace, Places, AllOps, Moves, MoveLabels
<1>5. req[p].pc # "idle" => req[p].key \in Keys \ Reach(q) /\ req[p].key \notin Renamed'
  BY <1>2, <1>3 DEF Plain, Apart, Placed, Reach
<1>6. QED
  BY <1>1, <1>2, <1>4, <1>5

LEMMA RowKept ==
    ASSUME SInv, Apart, NEW q \in Procs, Begin(q) \/ Step(q), NEW p \in Procs, p # q,
           Plain(req[p])', RowInv(req[p]), HasRow(req[p])
    PROVE  inst'[req[p].id] = inst[req[p].id]
<1>1. /\ req[p].op # "none" /\ req[p].id \in Ids /\ Live(req[p].id)
      /\ Plain(req[p]) /\ req[p].key \in Keys \ Reach(q) /\ RowsElsewhere(q)
      /\ req[p].pc # "idle"
  BY ElseIs DEF RowInv, HasRow, Elsewhere
<1>2. inst[req[p].id].key = req[p].key
  BY <1>1, NoneIsNothing, PlainRow
<1>3. QED
  BY <1>1, <1>2 DEF RowsElsewhere

LEMMA RowElsewhere ==
    ASSUME SInv, Apart, NEW q \in Procs, Begin(q) \/ Step(q), NEW p \in Procs, p # q,
           Plain(req[p])', RowInv(req[p])
    PROVE  RowInv(req[p])'
<1>1. CASE req[p].op = "none"
  BY <1>1, ElseIs DEF RowInv, HasRow, RowGone
<1>2. CASE req[p].key \in Keys \ Reach(q)
  <2>1. req'[p] = req[p] /\ IdsKept /\ RowsElsewhere(q)
    BY ElseIs DEF Elsewhere
  <2>2. \A i \in Ids : Live(i)' /\ inst'[i].key = req[p].key => inst'[i] = inst[i]
    BY <1>2, <2>1 DEF RowsElsewhere
  <2>3. QED
    BY <2>1, <2>2, RowKept DEF RowInv, HasRow, RowGone, Live
<1>3. QED
  BY <1>1, <1>2, ElseIs

\* With one server a name is a key, and the volumes of a key that no rename
\* has touched are its own.
LEMMA VolumeElsewhere ==
    ASSUME SInv, Apart, OneServer, NEW q \in Procs, Begin(q) \/ Step(q), NEW p \in Procs, p # q,
           Plain(req[p])', VolumeInv(req[p])
    PROVE  VolumeInv(req[p])'
<1> DEFINE r == req[p]
<1>1. req'[p] = r /\ IdsKept /\ Elsewhere(q) /\ Plain(r)
  BY ElseIs
<1>2. SUFFICES ASSUME r.pc \in NewVolume \cup OldVolume
               PROVE  /\ vol'[r.vid].state = "live"
                      /\ r.pc \in NewVolume => /\ \A i \in Ids : Live(i)' => inst'[i].volume # r.vid
                                               /\ \A j \in joins' : j.vol # r.vid
  BY <1>1 DEF VolumeInv, LiveVol
<1>3. r.key \in Keys \ Reach(q) /\ r.key \notin Renamed' /\ r.pc # "idle"
  BY <1>2, ElseIs DEF NewVolume, OldVolume
<1>4. r.vid \in VolIds /\ LiveVol(r.vid) /\ vol[r.vid].key[2] = r.key[2]
  <2>1. r.pc \in WithVolume /\ LiveVol(r.vid) /\ CalledBy(r) = {r.key[2]}
    BY <1>1, <1>2, <1>3, PlainRow DEF NewVolume, OldVolume, WithVolume, VolumeInv
  <2>2. QED
    BY <2>1, Actor, NoneIsNothing DEF Placed, Remembers, KnownVolume, SInv
<1>5. SInv'
  BY StepSInv
<1>6. \A k, m \in Keys : k[2] = m[2] => k = m
  BY DEF OneServer, Keys
<1>7. req[q].key = None \/ req[q].key \in Keys
  BY DEF SInv, IInv, TypeOK, Request
<1>8. vol[r.vid].key = r.key
  BY <1>3, <1>4, <1>6 DEF SInv, IInv, DbInv, VolumesNamed, LiveVol
<1>9. CASE req[q].key = None
  <2>1. UNCHANGED <<inst, vol, joins>>
    <3>1. req[q].pc = "idle"
      BY <1>9 DEF SInv, IInv, MemoryHolds, Knows, Placed
    <3>2. QED
      BY <3>1, IdleSteps DEF db
  <2>2. QED
    BY <1>2, <1>4, <2>1 DEF VolumeInv, Live, LiveVol
<1>10. CASE req[q].key \in Keys
  <2>1. r.key[2] \notin {k[2] : k \in Reach(q)}
    <3>1. Reach(q) \subseteq Keys
      BY <1>10 DEF Reach, Renamed
    <3>2. QED
      BY <1>3, <1>6, <3>1
  <2>2. vol'[r.vid] = vol[r.vid]
    <3>1. vol'[r.vid].key = vol[r.vid].key
      BY <1>1, <1>4 DEF IdsKept, LiveVol
    <3>2. QED
      BY <1>1, <1>4, <2>1, <3>1 DEF Elsewhere, VolsElsewhere
  <2>3. vol'[r.vid].state = "live"
    BY <1>4, <2>2 DEF LiveVol
  <2>4. ASSUME r.pc \in NewVolume, NEW i \in Ids, Live(i)' PROVE inst'[i].volume # r.vid
    <3>1. CASE inst'[i] = inst[i]
      BY <1>2, <2>4, <3>1 DEF VolumeInv, Live
    <3>2. CASE inst'[i].key \in Reach(q)
      <4>1. inst'[i].volume = r.vid => vol'[r.vid].key \in inst'[i].names
        BY <1>4, <1>5, <2>4, NoneIsNothing DEF SInv, IInv, DbInv, JoinIntegrity
      <4>2. r.key \in inst'[i].names => inst'[i].names = {r.key}
        BY <1>3 DEF Renamed
      <4>3. inst'[i].key \in inst'[i].names
        BY <1>5, <2>4 DEF SInv, IInv, DbInv, UniqueKeys
      <4>4. QED
        BY <1>3, <1>8, <2>2, <3>2, <4>1, <4>2, <4>3
    <3>3. QED
      BY <1>1, <2>4, <3>1, <3>2 DEF Elsewhere, RowsElsewhere
  <2>5. ASSUME r.pc \in NewVolume, NEW j \in joins', j \notin joins PROVE j.vol # r.vid
    <3>1. j.inst = req[q].id /\ j.inst \in Ids
      BY <1>1, <1>5, <2>5 DEF Elsewhere, JoinsElsewhere, SInv, IInv, TypeOK, Join
    <3>2. inst'[j.inst].names \subseteq Reach(q)
      BY <3>1, NoneIsNothing, OwnReach
    <3>3. vol'[j.vol].key[2] \in {k[2] : k \in inst'[j.inst].names}
      BY <1>5, <2>5 DEF SInv, IInv, DbInv, JoinIntegrity, Called
    <3>4. QED
      BY <1>4, <2>1, <2>2, <3>2, <3>3
  <2>6. QED
    BY <1>2, <2>3, <2>4, <2>5 DEF VolumeInv
<1>11. QED
  BY <1>7, <1>9, <1>10

\* What holds of all requests on names without a rename, as long as requests
\* are apart.
RowsInv == SInv /\ \A p \in Procs : Plain(req[p]) => RowInv(req[p])
VolsInv == RowsInv /\ \A p \in Procs : Plain(req[p]) => VolumeInv(req[p])

LEMMA AtRest ==
    ASSUME \A p \in Procs : Ends(p)
    PROVE  \A p \in Procs : RowInv(req[p])' /\ VolumeInv(req[p])'
BY IdleRow

LEMMA InitRowsInv == Init => RowsInv /\ VolsInv
<1>1. SUFFICES ASSUME Init PROVE RowsInv /\ VolsInv
  OBVIOUS
<1>2. \A p \in Procs : req[p] = Idle
  BY <1>1 DEF Init
<1>3. QED
  BY <1>1, <1>2, InitSInv, IdleIs
     DEF RowsInv, VolsInv, RowInv, VolumeInv, HasRow, RowGone, NewVolume, OldVolume

LEMMA NextRowsInv ==
    ASSUME Apart, RowsInv, [Next]_vars
    PROVE  RowsInv'
<1>1. ASSUME NEW q \in Procs, Begin(q) \/ Step(q) PROVE RowsInv'
  <2>1. ASSUME Plain(req[q])' PROVE RowInv(req[q])'
    BY <1>1, <2>1, Kinds, StepRow, IdleRow DEF RowsInv, AInv
  <2>2. ASSUME NEW p \in Procs, p # q, Plain(req[p])' PROVE RowInv(req[p])'
    BY <1>1, <2>2, ElseIs, RowElsewhere DEF RowsInv
  <2>3. QED
    BY <1>1, <2>1, <2>2, StepSInv DEF RowsInv
<1>2. CASE Crash
  BY <1>2, CrashSInv, AtRest DEF RowsInv, Crash, Ends
<1>3. CASE UNCHANGED vars
  <2>1. SInv' /\ \A p \in Procs : Plain(req[p])' <=> Plain(req[p])
    BY <1>3, StutterSInv DEF RowsInv, vars, Plain, Renamed
  <2>2. QED
    BY <1>3, <2>1 DEF RowsInv, vars, RowInv, HasRow, RowGone, Live
<1>4. QED
  BY <1>1, <1>2, <1>3 DEF Next

LEMMA NextVolsInv ==
    ASSUME Apart, OneServer, VolsInv, [Next]_vars
    PROVE  VolsInv'
<1>0. SInv /\ RowsInv'
  BY NextRowsInv DEF VolsInv, RowsInv
<1>1. ASSUME NEW q \in Procs, Begin(q) \/ Step(q) PROVE VolsInv'
  <2>1. ASSUME Plain(req[q])' PROVE VolumeInv(req[q])'
    BY <1>0, <1>1, <2>1, Kinds, StepVolume, IdleRow DEF VolsInv
  <2>2. ASSUME NEW p \in Procs, p # q, Plain(req[p])' PROVE VolumeInv(req[p])'
    BY <1>0, <1>1, <2>2, ElseIs, VolumeElsewhere DEF VolsInv
  <2>3. QED
    BY <1>0, <2>1, <2>2 DEF VolsInv
<1>2. CASE Crash
  BY <1>0, <1>2, AtRest DEF VolsInv, Crash, Ends
<1>3. CASE UNCHANGED vars
  <2>1. \A p \in Procs : Plain(req[p])' <=> Plain(req[p])
    BY <1>3 DEF vars, Plain, Renamed
  <2>2. QED
    BY <1>0, <1>3, <2>1 DEF VolsInv, vars, VolumeInv, Live, LiveVol
<1>4. QED
  BY <1>1, <1>2, <1>3 DEF Next

\* A single process is apart: the requests of a user who waits for each answer.
LEMMA AloneIsApart ==
    ASSUME NEW q, Procs = {q}
    PROVE  Apart
BY DEF Apart

-----------------------------------------------------------------------------
(* The status and the container.                                           *)

\* E is the set of keys on which other requests may leave the row in doubt.
TruthAt(E, i) ==
    inst[i].key \notin E =>
        /\ inst[i].status = "running" => cont[inst[i].key] = "running"
        /\ inst[i].status = "stopped" => cont[inst[i].key] = "stopped"

\* Whether the row under way may say what is not (yet) so.
InDoubt(r) ==
    \/ r.op = "Delete" /\ r.pc \in {"list", "delRow"}
    \/ r.op = "Rebuild" /\ r.pc \notin {"list", "probe", "rbStop", "detach"}
    \/ r.pc \in {"started", "stopped"}
    \/ r.pc = "detach" /\ cont[r.key] = "stopped"

\* Whether the request is about to write that the container runs.
Started(r) == \/ r.pc \in {"started", "ready", "joins", "joinInsert"}
              \/ r.pc = "insert" /\ r.op = "Create"

TruthOwn(r) ==
    /\ r.op = "CreateAsync" /\ r.pc # "insert" => inst[r.id].status = "creating"
    /\ Started(r) => cont[r.key] = "running"
    /\ r.pc = "stopped" => cont[r.key] = "stopped"

TruthInv(E, r) ==
    /\ TruthOwn(r)
    /\ \A i \in Ids : TruthAt(E, i) \/ (inst[i].key = r.key /\ InDoubt(r))

LEMMA RestsTrue ==
    ASSUME NEW E, NEW q \in Procs, Ends(q), \A i \in Ids : TruthAt(E, i)'
    PROVE  TruthInv(E, req[q])'
BY IdleIs DEF Ends, TruthInv, TruthOwn, Started

\* A step that touches neither rows nor containers.
LEMMA TruthKept ==
    ASSUME NEW E, NEW q \in Procs, UNCHANGED <<inst, cont>>,
           \A i \in Ids : TruthAt(E, i) \/ (inst[i].key = req[q].key /\ InDoubt(req[q])),
           req'[q].key = req[q].key, InDoubt(req[q]) => InDoubt(req[q])'
    PROVE  \A i \in Ids : TruthAt(E, i)' \/ (inst'[i].key = req'[q].key /\ InDoubt(req[q])')
<1>1. \A i \in Ids : TruthAt(E, i) => TruthAt(E, i)'
  BY DEF TruthAt
<1>2. QED
  BY <1>1

\* A step that changes the container of the request.
LEMMA ContainerTurned ==
    ASSUME SInv, NEW E, NEW q \in Procs, UNCHANGED inst, NEW c,
           cont' = [cont EXCEPT ![req[q].key] = c],
           \A i \in Ids : TruthAt(E, i) \/ (inst[i].key = req[q].key /\ InDoubt(req[q])),
           NEW i \in Ids, inst[i].key # req[q].key
    PROVE  TruthAt(E, i)'
<1>1. TruthAt(E, i)
  OBVIOUS
<1>2. inst[i].status \in {"running", "stopped"} => inst[i].key \in Keys
  BY DEF SInv, IInv, DbInv, UniqueKeys, TypeOK, Row, Live, Statuses
<1>3. inst[i].key \in Keys => cont'[inst[i].key] = cont[inst[i].key]
  BY DEF SInv, IInv, TypeOK
<1>4. QED
  BY <1>1, <1>2, <1>3 DEF TruthAt

LEMMA StepTruth ==
    ASSUME NEW E, NEW q \in Procs, AInv(q), TruthInv(E, req[q]), Serves(q),
           "DeleteInstance" \notin Faults
    PROVE  TruthInv(E, req[q])'
<1> DEFINE r == req[q]
<1>0. /\ \A l : Goto(q, l) => Goes(q, l)
      /\ \A l, D : Loop(q, l, D) => Goes(q, l)
      /\ \A l, d : NextDir(q, l, d) => Turns(q, l)
      /\ Done(q) => Ends(q)
  BY ControlMoves DEF AInv, SInv, IInv
<1>1. /\ TypeOK /\ InPlace(r) /\ r.op \in Served \cup {"none"} /\ r.op \notin Moves
      /\ Placed(r) /\ UniqueKeys
      /\ HasRow(r) => r.id \in Ids /\ Live(r.id) /\ inst[r.id].key = r.key
      /\ RowGone(r) => \A i \in Ids : Live(i) => inst[i].key # r.key
  <2>1. TypeOK /\ InPlace(r) /\ UniqueKeys /\ Placed(r) /\ RowInv(r) /\ SInv
    BY Actor DEF AInv, SInv, IInv, OnCourse, DbInv
  <2>2. r.op \in Served \cup {"none"} /\ r.op \notin Moves
    BY <2>1, ServedIs DEF Served, Moves
  <2>3. r.op \in Served => r.pc # "idle"
    BY <2>1 DEF InPlace, Places, Served
  <2>4. HasRow(r) => r.id \in Ids /\ Live(r.id) /\ inst[r.id].key = r.key
    BY <2>1, <2>2, <2>3, PlainRow, NoneIsNothing DEF RowInv, AInv, HasRow
  <2>5. QED
    BY <2>1, <2>2, <2>4 DEF RowInv
<1>2. \A i \in Ids : TruthAt(E, i) \/ (inst[i].key = r.key /\ InDoubt(r))
  BY DEF TruthInv, TruthOwn
<1>3. ASSUME UNCHANGED <<inst, cont>>, ~InDoubt(r) PROVE \A i \in Ids : TruthAt(E, i)'
  BY <1>2, <1>3 DEF TruthAt
<1>4. ASSUME UNCHANGED <<inst, cont>>, Goes(q, r.pc) \/ Turns(q, r.pc)
      PROVE  TruthInv(E, req[q])'
  <2>1. InDoubt(r)' <=> InDoubt(r)
    BY <1>4 DEF InDoubt, Goes, Turns, Same
  <2>2. QED
    BY <1>2, <1>4, <2>1, TruthKept DEF TruthInv, TruthOwn, Goes, Turns, Same, Started
<1>5. ASSUME NEW o \in AllOps, NEW n \in Names, BeginCreate(q, o, n) PROVE TruthInv(E, req[q])'
  <2>0. r.pc = "idle"
    BY <1>5 DEF BeginCreate, At
  <2>1. ~InDoubt(r) /\ UNCHANGED <<inst, cont>>
    BY <1>1, <1>5, <2>0, BeginCreateIs DEF InDoubt, db, incus, InPlace, Places, Served
  <2>2. QED
    BY <1>3, <1>5, <2>1, BeginCreateIs DEF BeganOn, TruthInv, TruthOwn, Started, AInv, SInv, IInv
<1>6. ASSUME NEW o \in AllOps, NEW i \in Ids, BeginOn(q, o, i) PROVE TruthInv(E, req[q])'
  <2>0. r.pc = "idle"
    BY <1>6 DEF BeginOn, At
  <2>1. ~InDoubt(r) /\ UNCHANGED <<inst, cont>>
    BY <1>1, <1>6, <2>0, BeginOnIs DEF InDoubt, db, incus, InPlace, Places, Served
  <2>2. QED
    BY <1>3, <1>6, <2>1, BeginOnIs DEF BeganOn, TruthInv, TruthOwn, Started, AInv, SInv, IInv
<1>7. CASE InsertRow(q)
  <2>1. r.pc = "insert" /\ UNCHANGED cont /\ ~InDoubt(r)
    BY <1>1, <1>7, InsertRowIs DEF incus, InDoubt, InPlace, Places, Served
  <2>2. CASE UNCHANGED inst /\ Ends(q)
    BY <1>3, <2>1, <2>2, RestsTrue
  <2>3. ASSUME NEW i \in Ids, NEW s \in {"creating", "running"},
               inst' = [inst EXCEPT ![i] = [status |-> s, key |-> r.key, volume |-> r.first,
                                            names |-> {r.key}]],
               req'[q].op = r.op, req'[q].id = i, req'[q].key = r.key,
               \/ r.op = "CreateAsync" /\ s = "creating" /\ req'[q].pc = "container"
               \/ r.op # "CreateAsync" /\ s = "running" /\ req'[q].pc = "joins"
        PROVE  TruthInv(E, req[q])'
    <3>1. r.op = "Create" \/ r.op = "CreateAsync"
      BY <1>1, <2>1 DEF InPlace, Places, Served
    <3>2. s = "running" => cont[r.key] = "running"
      BY <2>1, <2>3, <3>1 DEF TruthInv, TruthOwn, Started
    <3>3. /\ inst'[i].status = s /\ inst'[i].key = r.key
          /\ \A j \in Ids : j # i => inst'[j] = inst[j]
      BY <1>1, <2>3 DEF TypeOK
    <3>4. \A j \in Ids : TruthAt(E, j)'
      BY <1>2, <2>1, <2>3, <3>2, <3>3 DEF TruthAt
    <3>5. QED
      BY <2>1, <2>3, <3>1, <3>2, <3>3, <3>4 DEF TruthInv, TruthOwn, Started
  <2>4. QED
    BY <1>1, <1>7, <2>2, <2>3, InsertRowIs
<1>8. CASE \E d \in Devs : RecordVolume(q, d)
  <2>1. PICK d \in Devs : RecordVolume(q, d)
    BY <1>8
  <2>2. r.pc = "volumes" /\ UNCHANGED <<inst, cont>>
    BY <1>1, <2>1, RecordVolumeIs DEF incus
  <2>3. CASE Turns(q, "volumes")
    BY <1>4, <2>2, <2>3
  <2>4. ASSUME NEW v, Takes(q, "volCreate", v, d) PROVE TruthInv(E, req[q])'
    <3>1. InDoubt(r) => InDoubt(r)'
      BY <2>2, <2>4 DEF InDoubt, Takes
    <3>2. QED
      BY <1>2, <2>2, <2>4, <3>1, TruthKept DEF TruthInv, TruthOwn, Takes, Started
  <2>5. QED
    BY <1>1, <2>1, <2>3, <2>4, RecordVolumeIs
<1>9. CASE \E d \in Devs : FindVolume(q, d)
  <2>1. PICK d \in Devs : FindVolume(q, d)
    BY <1>9
  <2>2. r.pc = "joins" /\ UNCHANGED <<inst, cont>>
    BY <1>1, <2>1, FindVolumeIs DEF incus, db
  <2>3. CASE Turns(q, "joins")
    BY <1>4, <2>2, <2>3
  <2>4. ASSUME NEW v, Takes(q, "joinInsert", v, d) PROVE TruthInv(E, req[q])'
    <3>1. InDoubt(r) => InDoubt(r)'
      BY <2>2, <2>4 DEF InDoubt, Takes
    <3>2. QED
      BY <1>2, <2>2, <2>4, <3>1, TruthKept DEF TruthInv, TruthOwn, Takes, Started
  <2>5. QED
    BY <1>1, <2>1, <2>3, <2>4, FindVolumeIs
<1>10. CASE \E d \in Devs : LookUpListed(q, d)
  <2>1. PICK d \in Devs : LookUpListed(q, d)
    BY <1>10
  <2>2. UNCHANGED <<inst, cont>>
    BY <1>1, <2>1, LookUpListedIs DEF incus, db
  <2>3. CASE Turns(q, r.pc)
    BY <1>4, <2>2, <2>3
  <2>4. ASSUME NEW v, NEW l \in {"attach", "delVol"}, r.pc \in {"reattach", "delVols"},
               Takes(q, l, v, d)
        PROVE  TruthInv(E, req[q])'
    <3>1. InDoubt(r) => InDoubt(r)'
      BY <2>2, <2>4 DEF InDoubt, Takes
    <3>2. QED
      BY <1>1, <1>2, <2>2, <2>4, <3>1, TruthKept
         DEF TruthInv, TruthOwn, Takes, Started, InPlace, Places, Served
  <2>5. QED
    BY <1>1, <2>1, <2>3, <2>4, LookUpListedIs
<1>11. CASE ListVolumes(q)
  <2>1. /\ r.pc = "list" /\ UNCHANGED <<inst, cont>>
        /\ req'[q].op = r.op /\ req'[q].id = r.id /\ req'[q].key = r.key
        /\ req'[q].pc = IF r.op = "Rebuild" THEN "probe" ELSE "delRow"
    BY <1>1, <1>11, ListVolumesIs DEF incus, db
  <2>2. r.op = "Rebuild" \/ r.op = "Delete"
    BY <1>1, <2>1 DEF InPlace, Places, Served
  <2>3. InDoubt(r) => InDoubt(r)'
    BY <2>1, <2>2 DEF InDoubt
  <2>4. QED
    BY <1>2, <2>1, <2>2, <2>3, TruthKept DEF TruthInv, TruthOwn, Started
<1>12. ASSUME NEW l \in Labels \ {"started", "stopped", "ready", "insert"},
              Goes(q, l) \/ Turns(q, l), UNCHANGED <<inst, cont>>, r.pc # "insert",
              l \in {"joins", "joinInsert"} => r.pc \in {"joins", "joinInsert"},
              InDoubt(r) => InDoubt(r)'
       PROVE  TruthInv(E, req[q])'
  BY <1>2, <1>12, TruthKept DEF TruthInv, TruthOwn, Goes, Turns, Same, Started
<1>13. CASE \/ CreateVolume(q) \/ RemoveNewVolume(q) \/ AttachNewVolume(q) \/ UnrecordVolume(q)
            \/ JoinNewVolume(q)
  <2>1. UNCHANGED <<inst, cont>> /\ r.pc \in NewVolume
    BY <1>13 DEF CreateVolume, RemoveNewVolume, AttachNewVolume, UnrecordVolume, JoinNewVolume,
       At, db, incus, NewVolume
  <2>2. PICK l \in NewVolume \cup {"volumes"} : Goes(q, l) \/ Turns(q, l)
    BY <1>0, <1>13 DEF CreateVolume, RemoveNewVolume, AttachNewVolume, UnrecordVolume,
       JoinNewVolume, NewVolume
  <2>3. InDoubt(r) => InDoubt(r)'
    BY <2>1, <2>2 DEF InDoubt, Goes, Turns, Same, NewVolume
  <2>4. QED
    BY <1>12, <2>1, <2>2, <2>3 DEF NewVolume, Labels
<1>14. CASE JoinFoundVolume(q)
  <2>1. UNCHANGED <<inst, cont>> /\ r.pc = "joinInsert" /\ Turns(q, "joins")
    BY <1>0, <1>14 DEF JoinFoundVolume, At, incus
  <2>2. InDoubt(r) => InDoubt(r)'
    BY <2>1 DEF InDoubt, Turns, Same
  <2>3. QED
    BY <1>12, <2>1, <2>2 DEF Labels
<1>15. CASE \/ Reattach(q) \/ DeleteVolume(q) \/ DeleteVolumeRecord(q)
            \/ \E d \in Devs : DetachVolume(q, d)
  <2>1. UNCHANGED <<inst, cont>>
    BY <1>15 DEF Reattach, DeleteVolume, DeleteVolumeRecord, DetachVolume, db, incus
  <2>2. \/ r.pc = "attach" /\ Turns(q, "reattach")
        \/ r.pc = "delVol" /\ Goes(q, "delRec")
        \/ r.pc = "delRec" /\ Turns(q, "delVols")
        \/ r.pc = "detach" /\ Turns(q, "detach")
    BY <1>0, <1>15 DEF Reattach, DeleteVolume, DeleteVolumeRecord, DetachVolume, At
  <2>3. InDoubt(r) => InDoubt(r)'
    BY <2>1, <2>2 DEF InDoubt, Goes, Turns, Same
  <2>4. QED
    BY <1>12, <2>1, <2>2, <2>3 DEF Labels
<1>16. CASE ProbeContainer(q)
  <2>1. /\ UNCHANGED <<inst, cont>> /\ r.pc = "probe"
        /\ Goes(q, "rbStop") \/ Goes(q, "container")
    BY <1>0, <1>16 DEF ProbeContainer, At, db, incus
  <2>2. ~InDoubt(r)
    BY <1>1, <2>1 DEF InDoubt, InPlace, Places, Served
  <2>3. QED
    BY <1>12, <2>1, <2>2 DEF Labels
<1>17. ASSUME NEW s, SetStatus(r.id, s), UNCHANGED cont, HasRow(r), Ends(q),
              s = "running" => cont[r.key] = "running",
              s = "stopped" => cont[r.key] = "stopped"
       PROVE  TruthInv(E, req[q])'
  <2>1. /\ r.id \in Ids /\ inst[r.id].key = r.key
        /\ \A i \in Ids : i # r.id /\ inst[i].key = r.key => ~Live(i)
    BY <1>1, <1>17 DEF UniqueKeys
  <2>2. inst'[r.id].status = s /\ inst'[r.id].key = r.key
    BY <1>1, <1>17, <2>1 DEF SetStatus, TypeOK, Row
  <2>3. \A i \in Ids : i # r.id => inst'[i] = inst[i]
    BY <1>1, <1>17 DEF SetStatus, TypeOK
  <2>4. ASSUME NEW i \in Ids, i # r.id PROVE TruthAt(E, i)'
    <3>1. CASE inst[i].key = r.key
      BY <1>17, <2>1, <2>3, <2>4, <3>1 DEF TruthAt, Live, Statuses
    <3>2. CASE inst[i].key # r.key
      BY <1>2, <1>17, <2>3, <2>4, <3>2 DEF TruthAt
    <3>3. QED
      BY <3>1, <3>2
  <2>5. \A i \in Ids : i = r.id => TruthAt(E, i)'
    BY <1>17, <2>1, <2>2 DEF TruthAt
  <2>6. QED
    BY <1>17, <2>4, <2>5, RestsTrue
<1>18. CASE FinalizeRunning(q) \/ FinalizeError(q) \/ StatusWritten(q)
  <2>1. Ends(q) /\ UNCHANGED cont
    BY <1>0, <1>1, <1>18 DEF FinalizeRunning, FinalizeError, StatusWritten, incus
  <2>2. \/ /\ (r.pc = "joins" /\ r.op = "CreateAsync") \/ r.pc \in {"ready", "started"}
           /\ SetStatus(r.id, "running")
        \/ r.pc = "fail" /\ SetStatus(r.id, "error")
        \/ r.pc = "stopped" /\ SetStatus(r.id, "stopped")
    BY <1>18 DEF FinalizeRunning, FinalizeError, StatusWritten, At
  <2>3. HasRow(r)
    BY <1>1, <2>2 DEF InPlace, Places, Served, HasRow
  <2>4. QED
    BY <1>17, <2>1, <2>2, <2>3 DEF TruthInv, TruthOwn, Started
<1>19. CASE Return(q)
  <2>1. Ends(q) /\ UNCHANGED <<inst, cont>> /\ ~InDoubt(r)
    BY <1>0, <1>1, <1>19 DEF Return, At, db, incus, InDoubt, InPlace, Places, Served
  <2>2. QED
    BY <1>3, <2>1, RestsTrue
<1>20. ASSUME NEW i \in Ids, inst[i].key = r.key, UNCHANGED inst,
              RowGone(r) \/ (r.op = "CreateAsync" /\ r.pc # "insert")
       PROVE  TruthAt(E, i)'
  <2>1. i = r.id \/ ~Live(i)
    BY <1>1, <1>20 DEF UniqueKeys, HasRow
  <2>2. inst[i].status \notin {"running", "stopped"}
    BY <1>20, <2>1, <1>1 DEF TruthInv, TruthOwn, Live, Statuses
  <2>3. QED
    BY <1>20, <2>2 DEF TruthAt
<1>21. ASSUME NEW c, NEW l, cont' = [cont EXCEPT ![r.key] = c], UNCHANGED inst, Goes(q, l),
              r.pc \notin {"idle", "insert"}, l = "stopped" => c = "stopped",
              Started(req[q])' => c = "running",
              \/ RowGone(r) \/ r.op = "CreateAsync"
              \/ InDoubt(r)'
       PROVE  TruthInv(E, req[q])'
  <2>1. cont'[r.key] = c
    BY <1>1, <1>21, Actor DEF TypeOK, Placed, AInv, SInv
  <2>2. \A i \in Ids : inst[i].key # r.key => TruthAt(E, i)'
    BY <1>2, <1>21, ContainerTurned DEF AInv
  <2>3. /\ req'[q].pc = l /\ req'[q].key = r.key /\ req'[q].op = r.op /\ req'[q].id = r.id
    BY <1>21 DEF Goes, Same
  <2>4. \A i \in Ids : TruthAt(E, i)' \/ (inst'[i].key = req'[q].key /\ InDoubt(req[q])')
    BY <1>20, <1>21, <2>2, <2>3
  <2>5. r.op = "CreateAsync" => inst[r.id].status = "creating"
    BY <1>21 DEF TruthInv, TruthOwn
  <2>6. QED
    BY <1>21, <2>1, <2>3, <2>4, <2>5 DEF TruthInv, TruthOwn
<1>22. CASE CreateContainer(q)
  <2>1. r.pc = "container" /\ UNCHANGED inst
    BY <1>22 DEF CreateContainer, At, db
  <2>2. r.op \in {"CreateAsync", "Create", "Rebuild"}
    BY <1>1, <2>1 DEF InPlace, Places, Served
  <2>3. CASE UNCHANGED cont
    <3>1. CASE r.op = "Create" /\ Ends(q)
      BY <1>3, <2>1, <2>3, <3>1, RestsTrue DEF InDoubt
    <3>2. ASSUME NEW l \in {"fail", "volumes", "reattach"}, Goes(q, l)
          PROVE  TruthInv(E, req[q])'
      <4>1. InDoubt(r) => InDoubt(r)'
        BY <2>1, <3>2 DEF InDoubt, Goes, Same
      <4>2. QED
        BY <1>12, <2>1, <2>3, <3>2, <4>1 DEF Labels
    <3>3. QED
      BY <1>0, <1>22, <3>1, <3>2 DEF CreateContainer
  <2>4. CASE cont' = [cont EXCEPT ![r.key] = "stopped"]
    <3>1. PICK l \in {"fail", "volumes", "reattach"} : Goes(q, l) \/ (Ends(q) /\ UNCHANGED cont)
      BY <1>0, <1>22 DEF CreateContainer
    <3>2. CASE Goes(q, l)
      <4>1. ~Started(req[q])' /\ (r.op = "Rebuild" => InDoubt(req[q])')
        BY <3>2 DEF Goes, Same, Started, InDoubt
      <4>2. r.op = "Create" => RowGone(r)
        BY <2>1 DEF RowGone
      <4>3. QED
        BY <1>21, <2>1, <2>2, <2>4, <3>2, <4>1, <4>2
    <3>3. QED
      BY <2>3, <3>1, <3>2
  <2>5. QED
    BY <1>22, <2>3, <2>4 DEF CreateContainer
<1>23. CASE StartContainer(q)
  <2>1. r.pc \in {"volumes", "reattach"} /\ UNCHANGED inst
    BY <1>23 DEF StartContainer, At, db
  <2>2. r.op \in {"CreateAsync", "Create", "Rebuild"}
    BY <1>1, <2>1 DEF InPlace, Places, Served
  <2>3. CASE UNCHANGED cont /\ (IF r.op = "Create" THEN Done(q) ELSE Goto(q, "fail"))
    <3>1. CASE r.op = "Create" /\ Ends(q)
      BY <1>3, <2>1, <2>3, <3>1, RestsTrue DEF InDoubt
    <3>2. CASE Goes(q, "fail")
      <4>1. InDoubt(r) => InDoubt(r)'
        BY <2>1, <3>2 DEF InDoubt, Goes, Same
      <4>2. QED
        BY <1>12, <2>1, <2>3, <3>2, <4>1 DEF Labels
    <3>3. QED
      BY <1>0, <2>3, <3>1, <3>2
  <2>4. CASE /\ cont' = [cont EXCEPT ![r.key] = "running"]
             /\ \/ r.op = "CreateAsync" /\ Loop(q, "joins", Devs)
                \/ r.op = "Create" /\ Goto(q, "insert")
                \/ r.op = "Rebuild" /\ Goto(q, "ready")
    <3>1. PICK l \in {"joins", "insert", "ready"} : Goes(q, l)
      BY <1>0, <2>4
    <3>2. (r.op = "Rebuild" => InDoubt(req[q])') /\ (r.op = "Create" => RowGone(r))
      BY <1>0, <2>1, <2>4 DEF Goes, Same, InDoubt, RowGone
    <3>3. QED
      BY <1>21, <2>1, <2>2, <2>4, <3>1, <3>2
  <2>5. QED
    BY <1>23, <2>3, <2>4 DEF StartContainer
<1>24. CASE StartRequested(q) \/ StopRequested(q)
  <2>1. r.pc \in {"start", "stop"} /\ UNCHANGED inst /\ ~InDoubt(r)
    BY <1>1, <1>24 DEF StartRequested, StopRequested, At, db, InDoubt, InPlace, Places, Served
  <2>2. CASE UNCHANGED cont /\ Done(q)
    BY <1>0, <1>3, <2>1, <2>2, RestsTrue
  <2>3. ASSUME NEW c, NEW l, cont' = [cont EXCEPT ![r.key] = c], Goes(q, l),
               (c = "running" /\ l = "started") \/ (c = "stopped" /\ l = "stopped")
        PROVE  TruthInv(E, req[q])'
    <3>1. InDoubt(req[q])' /\ (Started(req[q])' => c = "running")
      BY <2>3 DEF InDoubt, Started, Goes
    <3>2. QED
      BY <1>21, <2>1, <2>3, <3>1
  <2>4. QED
    BY <1>0, <1>24, <2>2, <2>3 DEF StartRequested, StopRequested
<1>25. CASE StopIgnored(q)
  <2>1. /\ UNCHANGED inst
        /\ \/ r.pc = "rbStop" /\ r.op = "Rebuild" /\ Goes(q, "detach")
           \/ r.pc = "delStop" /\ r.op = "Delete" /\ Goes(q, "list")
    BY <1>0, <1>1, <1>25 DEF StopIgnored, At, db, InPlace, Places, Served
  <2>2. CASE UNCHANGED cont
    <3>1. ~InDoubt(r)
      BY <2>1 DEF InDoubt
    <3>2. QED
      BY <1>12, <2>1, <2>2, <3>1 DEF Labels
  <2>3. CASE cont' = [cont EXCEPT ![r.key] = "stopped"]
    <3>1. r.key \in Keys
      BY <1>1, <2>1, Actor DEF Placed, AInv, SInv
    <3>2. InDoubt(req[q])' /\ ~Started(req[q])'
      BY <1>1, <2>1, <2>3, <3>1 DEF InDoubt, Started, Goes, Same, TypeOK
    <3>3. QED
      BY <1>21, <2>1, <2>3, <3>2
  <2>4. QED
    BY <1>25, <2>2, <2>3 DEF StopIgnored
<1>26. CASE RemoveContainer(q)
  <2>1. /\ UNCHANGED inst
        /\ \/ r.pc = "detach" /\ r.op = "Rebuild"
           \/ r.pc = "delContainer" /\ r.op = "Delete"
    BY <1>1, <1>26 DEF RemoveContainer, At, db, InPlace, Places, Served
  <2>2. CASE CanRemove(r.key) /\ cont' = [cont EXCEPT ![r.key] = "absent"]
    <3>1. \/ r.pc = "detach" /\ Goes(q, "container")
          \/ r.pc = "delContainer" /\ Goes(q, "delVols")
      BY <1>0, <1>26, <2>1, <2>2 DEF RemoveContainer, At, Fault
    <3>2. ~Started(req[q])' /\ (RowGone(r) \/ InDoubt(req[q])')
      BY <2>1, <3>1 DEF Started, RowGone, InDoubt, Goes, Same
    <3>3. QED
      BY <1>21, <2>1, <2>2, <3>1, <3>2
  <2>3. CASE ~CanRemove(r.key) /\ UNCHANGED cont
    <3>1. \/ r.pc = "detach" /\ Ends(q)
          \/ r.pc = "delContainer" /\ Goes(q, "delVols")
      BY <1>0, <1>26, <2>1, <2>3 DEF RemoveContainer, At
    <3>2. ~InDoubt(r)
      BY <2>1, <2>3 DEF InDoubt, CanRemove
    <3>3. QED
      BY <1>3, <1>12, <2>1, <2>3, <3>1, <3>2, RestsTrue DEF Labels
  <2>4. CASE Fault("DeleteInstance") /\ UNCHANGED cont
    BY <2>4 DEF Fault
  <2>5. QED
    BY <1>26, <2>2, <2>3, <2>4 DEF RemoveContainer
<1>27. CASE DeleteRow(q)
  <2>1. Goes(q, "delContainer") /\ r.op = "Delete" /\ r.pc = "delRow" /\ UNCHANGED cont
    BY <1>0, <1>1, <1>27 DEF DeleteRow, At, InPlace, Places, Served, incus
  <2>2. /\ r.id \in Ids /\ Live(r.id) /\ inst[r.id].key = r.key
        /\ inst' = [inst EXCEPT ![r.id].status = IF Live(r.id) THEN "deleted" ELSE @]
    BY <1>1, <1>27, <2>1 DEF DeleteRow, HasRow
  <2>3. inst'[r.id].status = "deleted" /\ \A i \in Ids : i # r.id => inst'[i] = inst[i]
    BY <1>1, <2>2 DEF TypeOK, Row
  <2>4. ASSUME NEW i \in Ids PROVE TruthAt(E, i)'
    <3>1. CASE i = r.id
      BY <2>3, <3>1 DEF TruthAt
    <3>2. CASE i # r.id /\ inst[i].key = r.key
      <4>1. ~Live(i)
        BY <1>1, <2>2, <3>2 DEF UniqueKeys
      <4>2. QED
        BY <2>3, <3>2, <4>1 DEF TruthAt, Live, Statuses
    <3>3. CASE i # r.id /\ inst[i].key # r.key
      BY <1>2, <2>1, <2>3, <3>3 DEF TruthAt
    <3>4. QED
      BY <3>1, <3>2, <3>3
  <2>5. QED
    BY <2>1, <2>4 DEF TruthInv, TruthOwn, Started, Goes, Same
<1>28. QED
  BY <1>5, <1>6, <1>7, <1>8, <1>9, <1>10, <1>11, <1>13, <1>14, <1>15, <1>16, <1>18, <1>19,
     <1>22, <1>23, <1>24, <1>25, <1>26, <1>27 DEF Serves

\* The truth about all rows: a row is in doubt only while its own request is
\* at a point where it must be, or once a rename has touched its name.
Doubted(k) == \E p \in Procs : req[p].key = k /\ InDoubt(req[p])
AllTruth ==
    /\ \A p \in Procs : Plain(req[p]) => TruthOwn(req[p])
    /\ \A i \in Ids : TruthAt(Renamed, i) \/ Doubted(inst[i].key)

LEMMA NextTruth ==
    ASSUME Apart, RowsInv, AllTruth, NEW q \in Procs, Begin(q) \/ Step(q),
           "DeleteInstance" \notin Faults
    PROVE  AllTruth'
<1>1. SInv /\ Renamed \subseteq Renamed'
  BY StepRenamed DEF RowsInv, SInv
<1>2. ASSUME NEW p \in Procs, p # q, Plain(req[p])'
      PROVE  /\ req'[p] = req[p]
             /\ InDoubt(req[p]) => InDoubt(req[p])'
             /\ TruthOwn(req[p])'
  <2>1. /\ req'[p] = req[p] /\ TruthOwn(req[p])
        /\ HasRow(req[p]) => inst'[req[p].id] = inst[req[p].id]
    BY <1>1, <1>2, ElseIs, RowKept DEF RowsInv, AllTruth
  <2>2. \/ req[p].key \in Keys /\ cont'[req[p].key] = cont[req[p].key]
        \/ req[p].op = "none" /\ req[p].pc = "idle"
    BY <1>1, <1>2, ElseIs DEF Elsewhere, IncusElsewhere
  <2>3. InDoubt(req[p]) => InDoubt(req[p])'
    BY <2>1, <2>2 DEF InDoubt
  <2>4. TruthOwn(req[p])'
    BY <2>1, <2>2 DEF TruthOwn, Started, HasRow
  <2>5. QED
    BY <2>1, <2>3, <2>4
<1>3. CASE Serves(q) /\ Plain(req[q]) /\ Renamed' = Renamed
  <2>1. PICK E : E = {req[p].key : p \in {o \in Procs : o # q /\ InDoubt(req[o])}} \cup Renamed
    OBVIOUS
  <2>2. AInv(q)
    BY <1>3 DEF RowsInv, AInv
  <2>3. TruthInv(E, req[q])
    <3>1. \A i \in Ids : TruthAt(Renamed, i) => TruthAt(E, i)
      BY <2>1 DEF TruthAt
    <3>2. \A i \in Ids : Doubted(inst[i].key) =>
            TruthAt(E, i) \/ (inst[i].key = req[q].key /\ InDoubt(req[q]))
      BY <2>1 DEF Doubted, TruthAt
    <3>3. QED
      BY <1>3, <3>1, <3>2 DEF AllTruth, TruthInv
  <2>4. TruthInv(E, req[q])'
    BY <1>3, <2>2, <2>3, StepTruth
  <2>5. ASSUME NEW i \in Ids PROVE TruthAt(Renamed, i)' \/ Doubted(inst[i].key)'
    <3>1. CASE inst'[i].key \in Renamed'
      BY <3>1 DEF TruthAt
    <3>2. CASE inst'[i].key \in E /\ inst'[i].key \notin Renamed'
      <4>1. PICK p \in Procs : p # q /\ InDoubt(req[p]) /\ inst'[i].key = req[p].key
        BY <1>3, <2>1, <3>2
      <4>2. req'[p] = req[p]
        BY <1>1, StepElsewhere, <4>1 DEF Elsewhere, OthersAsTheyWere
      <4>3. Plain(req[p])'
        BY <3>2, <4>1, <4>2 DEF Plain
      <4>4. QED
        BY <1>2, <4>1, <4>3 DEF Doubted
    <3>3. CASE inst'[i].key \notin E
      <4>1. TruthAt(E, i)' => TruthAt(Renamed, i)'
        BY <3>3 DEF TruthAt
      <4>2. QED
        BY <2>4, <4>1 DEF TruthInv, Doubted
    <3>4. QED
      BY <3>1, <3>2, <3>3
  <2>6. TruthOwn(req[q])'
    BY <2>4 DEF TruthInv
  <2>7. QED
    BY <1>2, <2>5, <2>6 DEF AllTruth
<1>4. CASE (Stands(q) \/ Strays(q)) /\ (Plain(req[q])' => Resting(q))
  <2>1. Plain(req[q])' => TruthOwn(req[q])'
    BY <1>4 DEF Resting, TruthOwn, Started, Moves
  <2>2. ASSUME NEW i \in Ids PROVE TruthAt(Renamed, i)' \/ Doubted(inst[i].key)'
    <3>1. CASE inst'[i].key \in Renamed' \/ ~Live(i)'
      BY <3>1 DEF TruthAt, Live, Statuses
    <3>2. CASE inst'[i].key \notin Renamed' /\ Live(i)'
      <4>1. inst'[i] = inst[i] /\ inst[i].key \notin Renamed /\ inst[i].key \in Keys
        BY <1>1, <1>4, <3>2, OutOfReach DEF Live, SInv, IInv, DbInv, UniqueKeys, TypeOK, Row
      <4>2. cont'[inst[i].key] = cont[inst[i].key]
        BY <1>1, <1>4, <3>2, <4>1, OutOfReach
      <4>3. TruthAt(Renamed, i) => TruthAt(Renamed, i)'
        BY <4>1, <4>2 DEF TruthAt
      <4>4. ASSUME Doubted(inst[i].key) PROVE Doubted(inst[i].key)'
        <5>1. PICK p \in Procs : InDoubt(req[p]) /\ inst[i].key = req[p].key
          BY <4>4 DEF Doubted
        <5>2. p # q
          BY <1>1, <1>4, <3>2, <4>1, <5>1
             DEF Stands, Strays, InDoubt, SInv, OnCourse, InPlace, Places
        <5>3. req'[p] = req[p]
          BY <1>1, StepElsewhere, <5>2 DEF Elsewhere, OthersAsTheyWere
        <5>4. Plain(req[p])'
          BY <3>2, <4>1, <5>1, <5>3 DEF Plain
        <5>5. QED
          BY <1>2, <4>1, <5>1, <5>2, <5>3, <5>4 DEF Doubted
      <4>5. QED
        BY <4>3, <4>4 DEF AllTruth
    <3>3. QED
      BY <3>1, <3>2
  <2>3. QED
    BY <1>2, <2>1, <2>2 DEF AllTruth
<1>5. QED
  BY <1>1, <1>3, <1>4, Kinds

LEMMA InitTruth == Init => AllTruth
<1>1. SUFFICES ASSUME Init PROVE AllTruth
  OBVIOUS
<1>2. \A p \in Procs : req[p] = Idle
  BY <1>1 DEF Init
<1>3. \A i \in Ids : inst[i].status = "unused"
  BY <1>1 DEF Init
<1>4. QED
  BY <1>2, <1>3, IdleIs DEF AllTruth, TruthOwn, TruthAt, Started

\* Between requests the status tells the truth about the container of every
\* instance that no rename has touched, whatever calls of Incus fail and however
\* many requests have run at once, renames among them, as long as no two of
\* them concerned the same instance, and provided that a stopped container can
\* be deleted: Rebuild then ends in "error" or in a running container.
THEOREM StatusIsTrue ==
    ASSUME MaxCrashes = 0, "DeleteInstance" \notin Faults
    PROVE  Spec /\ []Apart => []StatusTruth
<1> DEFINE Inv == RowsInv /\ AllTruth
<1>1. Init => Inv
  BY InitRowsInv, InitTruth
<1>2. Inv /\ Apart /\ [Next]_vars => Inv'
  <2>1. SUFFICES ASSUME Inv, Apart, [Next]_vars PROVE AllTruth'
    BY NextRowsInv
  <2>2. CASE \E q \in Procs : Begin(q) \/ Step(q)
    BY <2>1, <2>2, NextTruth
  <2>3. CASE Crash
    BY <2>1, <2>3 DEF Crash, RowsInv, SInv, IInv, TypeOK
  <2>4. CASE UNCHANGED vars
    <3>1. \A p \in Procs : Plain(req[p])' <=> Plain(req[p])
      BY <2>4 DEF vars, Plain, Renamed
    <3>2. \A i \in Ids : TruthAt(Renamed, i) => TruthAt(Renamed, i)'
      BY <2>4 DEF vars, TruthAt, Renamed
    <3>3. QED
      BY <2>1, <2>4, <3>1, <3>2 DEF vars, AllTruth, TruthOwn, Doubted, InDoubt, Started
  <2>5. QED
    BY <2>1, <2>2, <2>3, <2>4 DEF Next
<1>3. Inv => StatusTruth
  <2>1. SUFFICES ASSUME Inv, Quiet, NEW i \in Ids PROVE TruthAt(Renamed, i)
    BY DEF StatusTruth, TruthAt
  <2>2. \A p \in Procs : req[p].pc = "idle" /\ req[p].op = "none"
    BY <2>1 DEF Quiet, At, RowsInv, SInv, IInv, TypeOK, Request, OnCourse, InPlace, Places,
       AllOps, Moves, MoveLabels
  <2>3. ~Doubted(inst[i].key)
    BY <2>2 DEF Doubted, InDoubt
  <2>4. QED
    BY <2>1, <2>3 DEF AllTruth
<1>4. QED
  BY <1>1, <1>2, <1>3, PTL DEF Spec

-----------------------------------------------------------------------------
(* The container and the row.                                              *)

\* A Delete has stopped the container before it removes the row.
Stilled(r) ==
    r.op = "Delete" /\ r.pc \in {"list", "delRow", "delContainer"} => cont[r.key] # "running"

LEMMA StepStilled ==
    ASSUME NEW q \in Procs, AInv(q), Stilled(req[q]), Serves(q),
           "StopInstance" \notin Faults
    PROVE  Stilled(req[q])'
<1> USE DEF Stilled
<1>0. /\ \A l : Goto(q, l) => Goes(q, l)
      /\ \A l, D : Loop(q, l, D) => Goes(q, l)
      /\ \A l, d : NextDir(q, l, d) => Turns(q, l)
      /\ Done(q) => Stilled(req[q])'
      /\ Ends(q) => Stilled(req[q])'
  BY ControlMoves, IdleIs DEF AInv, SInv, IInv, Ends
<1>1. TypeOK /\ InPlace(req[q]) /\ req[q].op \in Served \cup {"none"} /\ req[q].op \notin Moves
  BY ServedIs DEF AInv, SInv, IInv, OnCourse, Served, Moves
<1>2. ASSUME NEW o \in AllOps, NEW n \in Names, BeginCreate(q, o, n) PROVE Stilled(req[q])'
  BY <1>1, <1>2, BeginCreateIs DEF BeganOn
<1>3. ASSUME NEW o \in AllOps, NEW i \in Ids, BeginOn(q, o, i) PROVE Stilled(req[q])'
  BY <1>1, <1>3, BeginOnIs DEF BeganOn
<1>4. CASE InsertRow(q)
  BY <1>0, <1>1, <1>4, InsertRowIs
<1>5. CASE \E d \in Devs : RecordVolume(q, d)
  BY <1>0, <1>1, <1>5, RecordVolumeIs DEF Turns, Takes
<1>6. CASE \E d \in Devs : FindVolume(q, d)
  BY <1>0, <1>1, <1>6, FindVolumeIs DEF Turns, Takes
<1>7. CASE \E d \in Devs : LookUpListed(q, d)
  BY <1>0, <1>1, <1>7, LookUpListedIs DEF Turns, Takes
<1>8. CASE ListVolumes(q)
  BY <1>1, <1>8, ListVolumesIs DEF incus
<1>9. CASE \/ FinalizeRunning(q) \/ FinalizeError(q) \/ StatusWritten(q) \/ Return(q)
  BY <1>0, <1>1, <1>9 DEF FinalizeRunning, FinalizeError, StatusWritten, Return
<1>10. CASE CreateContainer(q) \/ StartContainer(q)
  BY <1>0, <1>10 DEF CreateContainer, StartContainer, Goes
<1>11. CASE CreateVolume(q) \/ RemoveNewVolume(q) \/ AttachNewVolume(q) \/ UnrecordVolume(q)
  BY <1>0, <1>11 DEF CreateVolume, RemoveNewVolume, AttachNewVolume, UnrecordVolume, Goes, Turns
<1>12. CASE JoinNewVolume(q) \/ JoinFoundVolume(q) \/ DeleteVolumeRecord(q)
  BY <1>0, <1>12 DEF JoinNewVolume, JoinFoundVolume, DeleteVolumeRecord, Turns
<1>13. CASE StartRequested(q) \/ StopRequested(q) \/ ProbeContainer(q)
  BY <1>0, <1>13 DEF StartRequested, StopRequested, ProbeContainer, Goes
<1>14. CASE RemoveContainer(q) \/ DeleteVolume(q)
  BY <1>0, <1>14 DEF RemoveContainer, DeleteVolume, Goes
<1>15. CASE Reattach(q) \/ (\E d \in Devs : DetachVolume(q, d))
  BY <1>0, <1>15 DEF Reattach, DetachVolume, Turns
<1>16. CASE StopIgnored(q)
  <2>1. Goes(q, "detach") \/ (Goes(q, "list") /\ req[q].pc = "delStop")
    BY <1>0, <1>16 DEF StopIgnored, At
  <2>2. req[q].pc = "delStop" => req[q].key \in Keys
    BY Actor DEF AInv, SInv, Placed
  <2>3. req[q].pc = "delStop" => cont'[req[q].key] # "running"
    BY <1>1, <1>16, <2>2 DEF StopIgnored, CanStop, Fault, TypeOK
  <2>4. QED
    BY <2>1, <2>3 DEF Goes, Same
<1>17. CASE DeleteRow(q)
  BY <1>0, <1>1, <1>17 DEF DeleteRow, At, Goes, Same, incus, InPlace, Places, Served
<1>18. QED
  BY <1>2, <1>3, <1>4, <1>5, <1>6, <1>7, <1>8, <1>9, <1>10, <1>11, <1>12, <1>13, <1>14,
     <1>15, <1>16, <1>17 DEF Serves

LEMMA StepOp ==
    ASSUME SInv, NEW p \in Procs, Begin(p) \/ Step(p)
    PROVE  req'[p].op \in Ops \cup {req[p].op, "none"}
<1>0. /\ \A l : Goto(p, l) => Goes(p, l)
      /\ \A l, D : Loop(p, l, D) => Goes(p, l)
      /\ \A l, d : NextDir(p, l, d) => Turns(p, l)
      /\ Done(p) => req'[p].op = "none"
      /\ Ends(p) => req'[p].op = "none"
      /\ TypeOK
  BY ControlMoves, IdleIs DEF Ends, SInv, IInv
<1>1. ASSUME NEW o \in AllOps, NEW n \in Names, BeginCreate(p, o, n) PROVE req'[p].op \in Ops
  BY <1>0, <1>1, BeginCreateIs DEF BeganOn
<1>2. ASSUME NEW o \in AllOps, NEW i \in Ids, BeginOn(p, o, i) PROVE req'[p].op \in Ops
  BY <1>0, <1>2, BeginOnIs DEF BeganOn, BeginOn
<1>3. CASE InsertRow(p) \/ ListVolumes(p)
  BY <1>0, <1>3, InsertRowIs, ListVolumesIs
<1>4. CASE \E d \in Devs : RecordVolume(p, d) \/ FindVolume(p, d) \/ LookUpListed(p, d)
  BY <1>0, <1>4, RecordVolumeIs, FindVolumeIs, LookUpListedIs DEF Turns, Same, Takes
<1>5. CASE \/ FinalizeRunning(p) \/ FinalizeError(p) \/ StatusWritten(p) \/ Return(p)
           \/ CreateContainer(p) \/ StartContainer(p) \/ StartRequested(p) \/ StopRequested(p)
  BY <1>0, <1>5 DEF FinalizeRunning, FinalizeError, StatusWritten, Return, CreateContainer,
     StartContainer, StartRequested, StopRequested, Goes, Same
<1>6. CASE \/ CreateVolume(p) \/ RemoveNewVolume(p) \/ AttachNewVolume(p) \/ UnrecordVolume(p)
           \/ JoinNewVolume(p) \/ JoinFoundVolume(p) \/ ProbeContainer(p) \/ StopIgnored(p)
  BY <1>0, <1>6 DEF CreateVolume, RemoveNewVolume, AttachNewVolume, UnrecordVolume,
     JoinNewVolume, JoinFoundVolume, ProbeContainer, StopIgnored, Goes, Turns, Same
<1>7. CASE \/ RemoveContainer(p) \/ Reattach(p) \/ DeleteRow(p) \/ DeleteVolume(p)
           \/ DeleteVolumeRecord(p) \/ (\E d \in Devs : DetachVolume(p, d))
  BY <1>0, <1>7 DEF RemoveContainer, Reattach, DeleteRow, DeleteVolume, DeleteVolumeRecord,
     DetachVolume, Goes, Turns, Same
<1>8. ASSUME NEW o \in AllOps, NEW i \in Ids, NEW n \in Names, BeginMove(p, o, i, n)
      PROVE  req'[p].op \in Ops
  BY <1>0, <1>8, BeginMoveIs DEF BeganOn, BeginMove
<1>9. CASE CheckName(p) \/ MoveContainer(p) \/ UndoMove(p) \/ RecordName(p)
  <2>1. Ends(p) \/ GoesOn(p)
    BY <1>9, StepGoesOn DEF Step
  <2>2. QED
    BY <1>0, <2>1 DEF GoesOn
<1>10. QED
  BY <1>1, <1>2, <1>3, <1>4, <1>5, <1>6, <1>7, <1>8, <1>9 DEF Begin, Step

\* Where the containers without a row are: at the Delete that removes one, and
\* at those of other requests, on the keys E.
HousedInv(E, r) ==
    /\ r.op # "Create"
    /\ crashes = 0 => \A k \in Keys \ E : cont[k] # "absent" =>
         \/ k = r.key /\ r.pc = "delContainer"
         \/ \E i \in Ids : Live(i) /\ inst[i].key = k

LEMMA StepHoused ==
    ASSUME NEW E, NEW q \in Procs, AInv(q), Stilled(req[q]), HousedInv(E, req[q]), Serves(q),
           "Create" \notin Ops, "DeleteInstance" \notin Faults
    PROVE  HousedInv(E, req[q])'
<1> DEFINE r == req[q]
<1>0. /\ \A l : Goto(q, l) => Goes(q, l)
      /\ \A l, D : Loop(q, l, D) => Goes(q, l)
      /\ \A l, d : NextDir(q, l, d) => Turns(q, l)
      /\ Done(q) => Ends(q)
      /\ UNCHANGED crashes
  BY ControlMoves, StepCrashes, ServedIs DEF AInv, SInv, IInv
<1>1. /\ TypeOK /\ InPlace(r) /\ r.op \in Served \cup {"none"} /\ r.op \notin Moves
      /\ UniqueKeys /\ Placed(r) /\ r.op # "Create"
      /\ HasRow(r) => r.id \in Ids /\ Live(r.id) /\ inst[r.id].key = r.key
      /\ r.key # None => r.key \in Keys
  <2>1. TypeOK /\ InPlace(r) /\ UniqueKeys /\ Placed(r) /\ RowInv(r) /\ SInv /\ r.op # "Create"
    BY Actor DEF AInv, SInv, IInv, OnCourse, DbInv, HousedInv
  <2>2. r.op \in Served \cup {"none"} /\ r.op \notin Moves
    BY <2>1, ServedIs DEF Served, Moves
  <2>3. r.op \in Served => r.pc # "idle"
    BY <2>1 DEF InPlace, Places, Served
  <2>4. HasRow(r) => r.id \in Ids /\ Live(r.id) /\ inst[r.id].key = r.key
    BY <2>1, <2>2, <2>3, PlainRow, NoneIsNothing DEF RowInv, AInv, HasRow
  <2>5. r.key # None => r.key \in Keys
    BY <2>1 DEF TypeOK, Request
  <2>6. QED
    BY <2>1, <2>2, <2>4, <2>5
<1>2. req'[q].op # "Create"
  BY <1>1, StepOp, ServedIs DEF AInv
<1>3. ASSUME r.pc # "delContainer",
             \A k \in Keys : cont'[k] # "absent" => cont[k] # "absent",
             \A i \in Ids : Live(i) => Live(i)' /\ inst'[i].key = inst[i].key
      PROVE  HousedInv(E, req[q])'
  <2>1. SUFFICES ASSUME crashes = 0, NEW k \in Keys \ E, cont'[k] # "absent"
                 PROVE  \E i \in Ids : Live(i)' /\ inst'[i].key = k
    BY <1>0, <1>2 DEF HousedInv
  <2>2. PICK i \in Ids : Live(i) /\ inst[i].key = k
    BY <1>3, <2>1 DEF HousedInv
  <2>3. QED
    BY <1>3, <2>2
<1>4. ASSUME UNCHANGED <<inst, cont>>, r.pc # "delContainer" PROVE HousedInv(E, req[q])'
  BY <1>3, <1>4 DEF Live
<1>5. ASSUME NEW o \in AllOps, NEW n \in Names, BeginCreate(q, o, n) PROVE HousedInv(E, req[q])'
  BY <1>4, <1>5 DEF BeginCreate, At, db, incus
<1>6. ASSUME NEW o \in AllOps, NEW i \in Ids, BeginOn(q, o, i) PROVE HousedInv(E, req[q])'
  BY <1>4, <1>6 DEF BeginOn, At, db, incus
<1>7. CASE InsertRow(q)
  <2>1. r.pc = "insert" /\ UNCHANGED cont
    BY <1>7 DEF InsertRow, At, incus
  <2>2. \A i \in Ids : Live(i) => Live(i)' /\ inst'[i].key = inst[i].key
    BY <1>1, <1>7, InsertRowIs DEF TypeOK, Live, Statuses
  <2>3. QED
    BY <1>3, <2>1, <2>2
<1>8. CASE \E d \in Devs : \/ RecordVolume(q, d) \/ FindVolume(q, d)
                           \/ DetachVolume(q, d) \/ LookUpListed(q, d)
  BY <1>4, <1>8 DEF RecordVolume, FindVolume, DetachVolume, LookUpListed, At, db, incus
<1>9. CASE \/ CreateVolume(q) \/ AttachNewVolume(q) \/ RemoveNewVolume(q)
           \/ UnrecordVolume(q) \/ JoinNewVolume(q) \/ JoinFoundVolume(q)
           \/ ListVolumes(q) \/ ProbeContainer(q) \/ Reattach(q)
           \/ DeleteVolume(q) \/ DeleteVolumeRecord(q) \/ Return(q)
  BY <1>4, <1>9 DEF CreateVolume, AttachNewVolume, RemoveNewVolume, UnrecordVolume,
     JoinNewVolume, JoinFoundVolume, ListVolumes, ProbeContainer, Reattach, DeleteVolume,
     DeleteVolumeRecord, Return, At, db, incus
<1>10. CASE FinalizeRunning(q) \/ FinalizeError(q) \/ StatusWritten(q)
  <2>1. r.pc # "delContainer" /\ UNCHANGED cont
    BY <1>10 DEF FinalizeRunning, FinalizeError, StatusWritten, At, incus
  <2>2. \E s \in Statuses : SetStatus(r.id, s)
    BY <1>10 DEF FinalizeRunning, FinalizeError, StatusWritten, Statuses
  <2>3. \A i \in Ids : Live(i) => Live(i)' /\ inst'[i].key = inst[i].key
    BY <1>1, <2>2 DEF SetStatus, TypeOK, Row, Live
  <2>4. QED
    BY <1>3, <2>1, <2>3
<1>11. CASE StartContainer(q) \/ StartRequested(q) \/ StopRequested(q) \/ StopIgnored(q)
  <2>1. r.pc # "delContainer" /\ UNCHANGED inst
    BY <1>11 DEF StartContainer, StartRequested, StopRequested, StopIgnored, At, db
  <2>2. \A k \in Keys : cont'[k] # "absent" => cont[k] # "absent"
    BY <1>1, <1>11 DEF StartContainer, StartRequested, StopRequested, StopIgnored, CanStart,
       CanStop, TypeOK
  <2>3. QED
    BY <1>3, <2>1, <2>2 DEF Live
<1>12. CASE CreateContainer(q)
  <2>1. r.pc = "container" /\ UNCHANGED inst
    BY <1>12 DEF CreateContainer, At, db
  <2>2. r.id \in Ids /\ Live(r.id) /\ inst[r.id].key = r.key
    BY <1>1, <2>1 DEF HasRow, InPlace, Places, Served
  <2>3. \A k \in Keys : k # r.key /\ cont'[k] # "absent" => cont[k] # "absent"
    BY <1>1, <1>12 DEF CreateContainer, TypeOK
  <2>4. QED
    BY <1>0, <1>2, <2>1, <2>2, <2>3 DEF HousedInv, Live
<1>13. CASE RemoveContainer(q)
  <2>1. r.key \in Keys /\ UNCHANGED inst
    BY <1>1, <1>13 DEF RemoveContainer, At, Placed, db
  <2>2. \A k \in Keys : cont'[k] # "absent" => cont[k] # "absent"
    BY <1>1, <1>13 DEF RemoveContainer, TypeOK
  <2>3. CASE r.pc = "delContainer"
    <3>1. r.op = "Delete"
      BY <1>1, <2>3 DEF InPlace, Places, Served
    <3>2. cont'[r.key] = "absent"
      BY <1>1, <1>13, <2>1, <2>3, <3>1 DEF RemoveContainer, CanRemove, Fault, Stilled, TypeOK
    <3>3. QED
      BY <1>0, <1>2, <2>1, <2>2, <3>2 DEF HousedInv, Live
  <2>4. CASE r.pc # "delContainer"
    BY <1>3, <2>1, <2>2, <2>4 DEF Live
  <2>5. QED
    BY <2>3, <2>4
<1>14. CASE DeleteRow(q)
  <2>1. r.pc = "delRow" /\ UNCHANGED cont /\ Goes(q, "delContainer")
    BY <1>0, <1>14 DEF DeleteRow, At, incus
  <2>2. r.id \in Ids /\ inst[r.id].key = r.key
    BY <1>1, <2>1 DEF HasRow, InPlace, Places, Served
  <2>3. \A i \in Ids : i # r.id => inst'[i] = inst[i]
    BY <1>1, <1>14 DEF DeleteRow, TypeOK
  <2>4. SUFFICES ASSUME crashes = 0, NEW k \in Keys \ E, cont[k] # "absent", k # r.key
                 PROVE  \E i \in Ids : Live(i)' /\ inst'[i].key = k
    BY <1>0, <1>2, <2>1 DEF HousedInv, Goes, Same
  <2>5. PICK i \in Ids : Live(i) /\ inst[i].key = k
    BY <2>4 DEF HousedInv
  <2>6. QED
    BY <2>2, <2>3, <2>4, <2>5 DEF Live
<1>15. QED
  BY <1>5, <1>6, <1>7, <1>8, <1>9, <1>10, <1>11, <1>12, <1>13, <1>14 DEF Serves

\* Where all the containers without a row are, those of names that a rename has
\* touched aside.
Leaving(k) == \E p \in Procs : k = req[p].key /\ req[p].pc = "delContainer"
AllHoused ==
    /\ \A p \in Procs : (Plain(req[p]) => Stilled(req[p])) /\ req[p].op # "Create"
    /\ crashes = 0 => \A k \in Keys \ Renamed : cont[k] # "absent" =>
         Leaving(k) \/ \E i \in Ids : Live(i) /\ inst[i].key = k

LEMMA NextHoused ==
    ASSUME Apart, RowsInv, AllHoused, NEW q \in Procs, Begin(q) \/ Step(q),
           "Create" \notin Ops, {"StopInstance", "DeleteInstance"} \cap Faults = {}
    PROVE  AllHoused'
<1>1. SInv /\ Renamed \subseteq Renamed' /\ UNCHANGED crashes
      /\ \A p \in Procs : p # q => req'[p] = req[p]
  BY StepRenamed, StepElsewhere, StepCrashes DEF RowsInv, SInv, Elsewhere, OthersAsTheyWere
<1>2. ASSUME NEW p \in Procs, p # q, Plain(req[p])' PROVE Stilled(req[p])'
  <2>1. req'[p] = req[p] /\ Stilled(req[p])
    BY <1>1, <1>2, ElseIs DEF AllHoused
  <2>2. \/ req[p].key \in Keys /\ cont'[req[p].key] = cont[req[p].key]
        \/ req[p].op = "none"
    BY <1>1, <1>2, ElseIs DEF Elsewhere, IncusElsewhere
  <2>3. QED
    BY <2>1, <2>2 DEF Stilled
<1>3. \A p \in Procs : req'[p].op # "Create"
  BY <1>1, StepOp DEF AllHoused
<1>4. CASE Serves(q) /\ Plain(req[q]) /\ Renamed' = Renamed
  <2>1. PICK E : E = {req[p].key : p \in {o \in Procs : o # q /\ req[o].pc = "delContainer"}}
                       \cup Renamed
    OBVIOUS
  <2>2. AInv(q) /\ Stilled(req[q])
    BY <1>4 DEF RowsInv, AInv, AllHoused
  <2>3. HousedInv(E, req[q])
    BY <2>1 DEF AllHoused, HousedInv, Leaving
  <2>4. HousedInv(E, req[q])' /\ Stilled(req[q])'
    BY <1>4, <2>2, <2>3, StepHoused, StepStilled
  <2>5. ASSUME crashes' = 0, NEW k \in Keys \ Renamed, cont'[k] # "absent"
        PROVE  Leaving(k)' \/ \E i \in Ids : Live(i)' /\ inst'[i].key = k
    <3>1. CASE k \in E
      BY <1>1, <2>1, <2>5, <3>1 DEF Leaving
    <3>2. CASE k \notin E
      BY <2>4, <2>5, <3>2 DEF HousedInv, Leaving
    <3>3. QED
      BY <3>1, <3>2
  <2>6. QED
    BY <1>2, <1>3, <1>4, <2>4, <2>5 DEF AllHoused
<1>5. CASE (Stands(q) \/ Strays(q)) /\ (Plain(req[q])' => Resting(q))
  <2>1. Plain(req[q])' => Stilled(req[q])'
    BY <1>5 DEF Resting, Stilled, Moves
  <2>2. ASSUME crashes' = 0, NEW k \in Keys \ Renamed', cont'[k] # "absent"
        PROVE  Leaving(k)' \/ \E i \in Ids : Live(i)' /\ inst'[i].key = k
    <3>1. cont[k] # "absent" /\ k \in Keys \ Renamed /\ crashes = 0
      BY <1>1, <1>5, <2>2, OutOfReach
    <3>2. CASE Leaving(k)
      <4>1. PICK p \in Procs : k = req[p].key /\ req[p].pc = "delContainer"
        BY <3>2 DEF Leaving
      <4>2. p # q
        BY <1>5, <2>2, <4>1 DEF Stands, Strays
      <4>3. QED
        BY <1>1, <4>1, <4>2 DEF Leaving
    <3>3. ASSUME NEW i \in Ids, Live(i), inst[i].key = k PROVE Live(i)' /\ inst'[i].key = k
      BY <1>1, <1>5, <2>2, <3>3, OutOfReach DEF Live
    <3>4. QED
      BY <3>1, <3>2, <3>3 DEF AllHoused
  <2>3. QED
    BY <1>2, <1>3, <2>1, <2>2 DEF AllHoused
<1>6. QED
  BY <1>1, <1>4, <1>5, Kinds

\* As long as no two requests concern the same instance every container of a
\* name that no rename has touched belongs to a row between requests, so that
\* Rebuild or Delete can still reach it: a failed creation leaves its row, and a
\* Delete removes the row only when the container can go too.
THEOREM ContainersAreHoused ==
    ASSUME "Create" \notin Ops, {"StopInstance", "DeleteInstance"} \cap Faults = {}
    PROVE  Spec /\ []Apart => []ContainersHaveRows
<1> DEFINE Inv == RowsInv /\ AllHoused
<1>1. Init => Inv
  <2>1. SUFFICES ASSUME Init PROVE Inv
    OBVIOUS
  <2>2. RowsInv /\ (\A p \in Procs : req[p] = Idle) /\ \A k \in Keys : cont[k] = "absent"
    BY <2>1, InitRowsInv DEF Init
  <2>3. QED
    BY <2>2, IdleIs DEF AllHoused, Stilled
<1>2. Inv /\ Apart /\ [Next]_vars => Inv'
  <2>1. SUFFICES ASSUME Inv, Apart, [Next]_vars PROVE AllHoused'
    BY NextRowsInv
  <2>2. CASE \E q \in Procs : Begin(q) \/ Step(q)
    BY <2>1, <2>2, NextHoused
  <2>3. CASE Crash
    <3>1. (\A p \in Procs : req'[p] = Idle) /\ crashes' # 0
      BY <2>1, <2>3 DEF Crash, RowsInv, SInv, IInv, TypeOK
    <3>2. QED
      BY <3>1, IdleIs DEF AllHoused, Stilled
  <2>4. CASE UNCHANGED vars
    <3>1. Renamed' = Renamed /\ \A p \in Procs : Plain(req[p])' <=> Plain(req[p])
      BY <2>4 DEF vars, Plain, Renamed
    <3>2. QED
      BY <2>1, <2>4, <3>1 DEF vars, AllHoused, Stilled, Leaving, Live
  <2>5. QED
    BY <2>1, <2>2, <2>3, <2>4 DEF Next
<1>3. Inv => ContainersHaveRows
  BY DEF ContainersHaveRows, AllHoused, Leaving, Quiet, At
<1>4. QED
  BY <1>1, <1>2, <1>3, PTL DEF Spec

-----------------------------------------------------------------------------
(* Volumes, with one server.                                               *)

LEMMA Underway ==
    ASSUME NEW q \in Procs, BInv(q)
    PROVE  InPlace(req[q]) /\ req[q].op \in AllOps \cup {"none"}
BY DEF BInv, AInv, SInv, IInv, TypeOK, Request, OnCourse

\* A volume that a Rebuild or a Delete looked up is its own.
LEMMA PlainListed ==
    ASSUME SInv, NEW p \in Procs, Plain(req[p]), req[p].pc \in {"attach", "delVol"}
    PROVE  Listed(p) = <<req[p].key, req[p].dev>>
BY ListedIs, PlainRow DEF Related, SInv

\* The volume that the request works on is its instance's, recorded once.
LEMMA OwnVolume ==
    ASSUME NEW q \in Procs, BInv(q), OneServer, req[q].pc \in NewVolume \cup OldVolume
    PROVE  /\ req[q].vid \in VolIds /\ req[q].key \in Keys /\ req[q].dev \in Devs
           /\ LiveVol(req[q].vid)
           /\ vol[req[q].vid].key = req[q].key /\ vol[req[q].vid].dev = req[q].dev
           /\ \A v \in VolIds : LiveVol(v) /\ vol[v].key = req[q].key /\ vol[v].dev = req[q].dev
                                => v = req[q].vid
<1> DEFINE r == req[q]
<1>1. r.vid \in VolIds /\ r.key \in Keys /\ r.dev \in Devs
  BY Actor DEF BInv, AInv, SInv, Placed, WithVolume, NewVolume, OldVolume
<1>2. LiveVol(r.vid) /\ KnownVolume(r.vid, r.dev, {r.key[2]})
  <2>1. CalledBy(r) = {r.key[2]}
    BY PlainRow DEF BInv, AInv, NewVolume, OldVolume
  <2>2. QED
    BY <1>1, <2>1, Actor, NoneIsNothing DEF BInv, AInv, SInv, VolumeInv, Remembers
<1>3. vol[r.vid].key \in Keys /\ vol[r.vid].key[2] = r.key[2] /\ vol[r.vid].dev = r.dev
  BY <1>1, <1>2 DEF BInv, AInv, SInv, IInv, DbInv, VolumesNamed, KnownVolume
<1>4. vol[r.vid].key = r.key
  BY <1>1, <1>3 DEF OneServer, Keys
<1>5. QED
  BY <1>1, <1>2, <1>3, <1>4 DEF BInv, AInv, SInv, RecordsUnique

\* The removal of the record of the request's volume, and of no other.
LEMMA RecordGone ==
    ASSUME NEW q \in Procs, BInv(q), OneServer, UnrecordVolume(q) \/ DeleteVolumeRecord(q)
    PROVE  /\ vol'[req[q].vid].state = "deleted"
           /\ \A v \in VolIds : v # req[q].vid => vol'[v] = vol[v]
<1> DEFINE r == req[q]
<1>1. r.pc \in {"volUnrecord", "delRec"} /\ DeleteVolumeRow(r.vid)
  BY DEF UnrecordVolume, DeleteVolumeRecord, At
<1>2. /\ r.vid \in VolIds /\ LiveVol(r.vid) /\ vol[r.vid].key = r.key
  BY <1>1, OwnVolume DEF NewVolume, OldVolume
<1>3. \A i \in Ids : Live(i) => inst[i].volume # r.vid
  <2>1. CASE r.pc = "volUnrecord"
    BY <2>1 DEF BInv, AInv, VolumeInv, NewVolume
  <2>2. CASE r.pc = "delRec"
    <3>1. r.op = "Delete"
      BY <2>2, Underway DEF InPlace, Places, AllOps, Moves, MoveLabels
    <3>2. \A i \in Ids : Live(i) => inst[i].key # r.key
      BY <2>2, <3>1 DEF BInv, AInv, RowInv, RowGone
    <3>3. r.key \in Keys \ Renamed
      BY <2>2, PlainRow DEF BInv, AInv
    <3>4. ASSUME NEW i \in Ids, Live(i), inst[i].volume = r.vid PROVE FALSE
      <4>1. r.key \in inst[i].names /\ inst[i].key \in inst[i].names
        BY <1>2, <3>4, NoneIsNothing
           DEF BInv, AInv, SInv, IInv, DbInv, JoinIntegrity, UniqueKeys
      <4>2. inst[i].key = r.key
        BY <3>3, <4>1 DEF Renamed
      <4>3. QED
        BY <3>2, <3>4, <4>2
    <3>5. QED
      BY <3>4
  <2>3. QED
    BY <1>1, <2>1, <2>2
<1>4. vol' = [vol EXCEPT ![r.vid].state = "deleted"]
  BY <1>1, <1>2, <1>3 DEF DeleteVolumeRow
<1>5. vol \in [VolIds -> VolRow]
  BY DEF BInv, AInv, SInv, IInv, TypeOK
<1>6. QED
  BY <1>2, <1>4, <1>5 DEF VolRow

\* What a Rebuild, another creation or a Delete removes from the store is not
\* the volume of an instance that is there, unless a rename has touched its name.
LEMMA StepSurvive ==
    ASSUME NEW q \in Procs, BInv(q), OneServer, Serves(q), NEW j \in joins,
           vol[j.vol].key \notin Renamed, <<vol[j.vol].key, j.dev>> \in store
    PROVE  <<vol[j.vol].key, j.dev>> \in store'
<1> DEFINE r == req[q]
           x == <<vol[j.vol].key, j.dev>>
<1>0. /\ j \in Join /\ Live(j.inst) /\ LiveVol(j.vol)
      /\ vol[j.vol].key[2] \in Called(j.inst) /\ vol[j.vol].dev = j.dev
  BY DEF BInv, AInv, SInv, IInv, TypeOK, DbInv, JoinIntegrity
<1>1. CASE RemoveNewVolume(q)
  <2>1. r.pc = "volUndo" /\ TryDeleteVolume(<<r.key, r.dev>>)
    BY <1>1 DEF RemoveNewVolume, At
  <2>2. j.vol # r.vid
    BY <2>1 DEF BInv, AInv, VolumeInv, NewVolume
  <2>3. x # <<r.key, r.dev>>
    BY <1>0, <2>1, <2>2, OwnVolume DEF NewVolume, Join
  <2>4. QED
    BY <2>1, <2>3 DEF TryDeleteVolume
<1>2. CASE DeleteVolume(q)
  <2>1. r.pc = "delVol" /\ TryDeleteVolume(<<r.key, r.dev>>)
    BY <1>2, PlainListed DEF DeleteVolume, At, BInv, AInv
  <2>2. r.key \in Keys /\ r.op = "Delete"
    BY <2>1, OwnVolume, Underway DEF InPlace, Places, AllOps, Moves, MoveLabels, OldVolume
  <2>3. inst[j.inst].key # r.key
    BY <1>0, <2>1, <2>2 DEF BInv, AInv, RowInv, RowGone, Join
  <2>4. vol[j.vol].key \in inst[j.inst].names
    <3>1. PICK k \in inst[j.inst].names : vol[j.vol].key[2] = k[2]
      BY <1>0 DEF Called
    <3>2. k \in Keys /\ vol[j.vol].key \in Keys
      BY <1>0, <3>1 DEF BInv, AInv, SInv, IInv, TypeOK, Row, DbInv, VolumesNamed, LiveVol, Join
    <3>3. QED
      BY <3>1, <3>2 DEF OneServer, Keys
  <2>5. inst[j.inst].key = vol[j.vol].key
    <3>1. inst[j.inst].names = {vol[j.vol].key}
      BY <1>0, <2>4 DEF Renamed, Join, BInv, AInv, SInv, IInv, TypeOK, Row
    <3>2. QED
      BY <1>0, <3>1 DEF BInv, AInv, SInv, IInv, DbInv, UniqueKeys, Join
  <2>6. QED
    BY <2>1, <2>3, <2>5 DEF TryDeleteVolume
<1>3. CASE ~(RemoveNewVolume(q) \/ DeleteVolume(q))
  <2>1. store \subseteq store'
    BY <1>3 DEF Serves, BeginCreate, BeginOn, InsertRow, CreateContainer, StartContainer,
       CreateVolume, AttachNewVolume, UnrecordVolume, JoinNewVolume, JoinFoundVolume,
       FinalizeRunning, FinalizeError, StartRequested, StopRequested, StatusWritten,
       ListVolumes, ProbeContainer, StopIgnored, RemoveContainer, Reattach, DeleteRow,
       DeleteVolumeRecord, Return, RecordVolume, FindVolume, DetachVolume, LookUpListed, incus
  <2>2. QED
    BY <2>1
<1>4. QED
  BY <1>1, <1>2, <1>3

LEMMA NextSurvive ==
    ASSUME OneServer, VolsInv, NEW q \in Procs, Begin(q) \/ Step(q), NEW j \in joins,
           vol[j.vol].key \notin Renamed, <<vol[j.vol].key, j.dev>> \in store
    PROVE  <<vol[j.vol].key, j.dev>> \in store'
<1>1. SInv
  BY DEF VolsInv, RowsInv
<1>2. CASE Serves(q) /\ Plain(req[q])
  BY <1>2, StepSurvive DEF VolsInv, RowsInv, BInv, AInv
<1>3. CASE (Stands(q) \/ Strays(q)) /\ Renamed' = Renamed
  <2>1. <<vol[j.vol].key, j.dev>> \in Keys \X Devs
    BY <1>1 DEF SInv, IInv, TypeOK
  <2>2. QED
    BY <1>1, <1>3, <2>1, OutOfReach
<1>4. CASE Renamed' # Renamed
  BY <1>1, <1>4, StepRenamed DEF SInv, CheckName, incus
<1>5. QED
  BY <1>1, <1>2, <1>3, <1>4, Kinds

\* No request, failed or crashed half-way, destroys the storage volume of an
\* instance other than the one whose Delete asks for it, as long as no rename
\* has touched the volume's name: on one server, with any number of requests,
\* renames among them, no two of which concern the same instance.
THEOREM VolumesSurvive ==
    ASSUME OneServer
    PROVE  Spec /\ []Apart => JoinedVolumesSurvive
<1>1. VolsInv /\ [Next]_vars =>
        [\A j \in joins : vol[j.vol].key \notin Renamed /\ <<vol[j.vol].key, j.dev>> \in store =>
                          <<vol[j.vol].key, j.dev>> \in store']_vars
  <2>1. SUFFICES ASSUME VolsInv, Next, NEW j \in joins, vol[j.vol].key \notin Renamed,
                        <<vol[j.vol].key, j.dev>> \in store
                 PROVE  <<vol[j.vol].key, j.dev>> \in store'
    OBVIOUS
  <2>2. CASE \E q \in Procs : Begin(q) \/ Step(q)
    BY <2>1, <2>2, NextSurvive
  <2>3. CASE Crash
    BY <2>1, <2>3 DEF Crash, incus
  <2>4. QED
    BY <2>1, <2>2, <2>3 DEF Next
<1>2. VolsInv /\ Apart /\ [Next]_vars => VolsInv'
  BY NextVolsInv
<1>3. QED
  BY <1>1, <1>2, InitRowsInv, PTL DEF Spec, JoinedVolumesSurvive

\* The storage volume of a step's dir, and whether the step may remove it.
RecordOwn(r) ==
    /\ r.pc \in {"volCreate", "volUnrecord", "delRec"} => <<r.key, r.dev>> \notin store
    /\ r.pc \in {"volAttach", "volUndo"} => <<r.key, r.dev>> \notin devs[r.key]
    /\ r.pc \in {"delVols", "delVol", "delRec"} => devs[r.key] = {}

RecordInv(r) == VolumesRecorded /\ RecordOwn(r)

LEMMA StepRecorded ==
    ASSUME NEW q \in Procs, BInv(q), OneServer, Stilled(req[q]), RecordInv(req[q]),
           Serves(q), Renamed' = Renamed, "DeleteInstance" \notin Faults, "DeleteVolume" \notin Faults
    PROVE  RecordInv(req[q])'
<1> DEFINE r == req[q]
           x == <<r.key, r.dev>>
<1>0. /\ \A l : Goto(q, l) => Goes(q, l)
      /\ \A l, D : Loop(q, l, D) => Goes(q, l)
      /\ \A l, d : NextDir(q, l, d) => Turns(q, l)
      /\ Done(q) => Ends(q)
  BY ControlMoves DEF BInv, AInv, SInv, IInv
<1>1. /\ TypeOK /\ InPlace(r) /\ r.op \in AllOps \cup {"none"} /\ VolumesRecorded
      /\ r.op \notin Moves
      /\ r.pc # "idle" => r.key \in Keys \ Renamed
  BY Underway, ServedIs, PlainRow DEF BInv, AInv, SInv, IInv, RecordInv, Served, Moves
<1>2. ASSUME UNCHANGED vol, store' \subseteq store PROVE VolumesRecorded'
  BY <1>1, <1>2 DEF VolumesRecorded, LiveVol
<1>3. ASSUME UNCHANGED <<vol, store>>,
             req'[q].pc \notin {"volCreate", "volUnrecord", "delRec", "volAttach", "volUndo",
                                "delVols", "delVol"}
      PROVE  RecordInv(req[q])'
  BY <1>2, <1>3 DEF RecordInv, RecordOwn
<1>4. ASSUME UNCHANGED <<vol, store>>, Ends(q) PROVE RecordInv(req[q])'
  BY <1>3, <1>4, IdleIs DEF Ends
<1>5. ASSUME NEW o \in AllOps, NEW n \in Names, BeginCreate(q, o, n) PROVE RecordInv(req[q])'
  BY <1>1, <1>3, <1>5, BeginCreateIs DEF BeganOn, db, incus
<1>6. ASSUME NEW o \in AllOps, NEW i \in Ids, BeginOn(q, o, i) PROVE RecordInv(req[q])'
  BY <1>1, <1>3, <1>6, BeginOnIs DEF BeganOn, db, incus
<1>7. CASE InsertRow(q)
  BY <1>1, <1>3, <1>4, <1>7, InsertRowIs DEF incus
<1>8. CASE ListVolumes(q)
  BY <1>1, <1>3, <1>8, ListVolumesIs DEF db, incus
<1>9. CASE \E d \in Devs : FindVolume(q, d)
  BY <1>1, <1>3, <1>9, FindVolumeIs DEF db, incus, Turns, Takes
<1>10. CASE FinalizeRunning(q) \/ FinalizeError(q) \/ StatusWritten(q) \/ Return(q)
  BY <1>0, <1>1, <1>4, <1>10 DEF FinalizeRunning, FinalizeError, StatusWritten, Return, db, incus
<1>11. CASE CreateContainer(q) \/ StartContainer(q)
  BY <1>0, <1>3, <1>4, <1>11 DEF CreateContainer, StartContainer, db, Goes
<1>12. CASE StartRequested(q) \/ StopRequested(q) \/ ProbeContainer(q) \/ StopIgnored(q)
  BY <1>0, <1>1, <1>3, <1>4, <1>12 DEF StartRequested, StopRequested, ProbeContainer, StopIgnored,
     db, incus, Goes
<1>13. CASE JoinNewVolume(q) \/ JoinFoundVolume(q) \/ Reattach(q)
            \/ (\E d \in Devs : DetachVolume(q, d))
  BY <1>0, <1>3, <1>13 DEF JoinNewVolume, JoinFoundVolume, Reattach, DetachVolume, db, incus,
     Turns
<1>14. CASE DeleteRow(q)
  BY <1>0, <1>3, <1>14 DEF DeleteRow, incus, Goes
<1>15. CASE \E d \in Devs : RecordVolume(q, d)
  <2>1. PICK d \in Devs : RecordVolume(q, d)
    BY <1>15
  <2>2. r.pc = "volumes" /\ UNCHANGED store /\ r.key \in Keys
    BY <1>1, <2>1, RecordVolumeIs, Actor DEF incus, BInv, AInv, SInv, Placed
  <2>3. CASE UNCHANGED vol /\ Turns(q, "volumes")
    BY <1>3, <2>2, <2>3 DEF Turns
  <2>4. ASSUME NEW v \in VolIds, vol[v].state = "unused",
               vol' = [vol EXCEPT ![v] = [state |-> "live", key |-> r.key, dev |-> d]],
               \A w \in VolIds : LiveVol(w) => ~(vol[w].key = r.key /\ vol[w].dev = d),
               Takes(q, "volCreate", v, d)
        PROVE  RecordInv(req[q])'
    <3>1. <<r.key, d>> \notin store
      BY <1>1, <2>2, <2>4 DEF VolumesRecorded
    <3>2. \A w \in VolIds : LiveVol(w) => vol'[w] = vol[w]
      BY <1>1, <2>4 DEF LiveVol, TypeOK
    <3>3. VolumesRecorded'
      BY <1>1, <2>2, <3>2 DEF VolumesRecorded, LiveVol
    <3>4. QED
      BY <2>2, <2>4, <3>1, <3>3 DEF RecordInv, RecordOwn, Takes
  <2>5. QED
    BY <1>1, <2>1, <2>3, <2>4, RecordVolumeIs
<1>16. CASE CreateVolume(q)
  <2>1. r.pc = "volCreate" /\ UNCHANGED <<vol, devs>> /\ x \notin store
    BY <1>16 DEF CreateVolume, At, db, RecordInv, RecordOwn
  <2>2. LiveVol(r.vid) /\ vol[r.vid].key = r.key /\ vol[r.vid].dev = r.dev /\ r.vid \in VolIds
        /\ r.key \in Keys
    BY <2>1, OwnVolume DEF NewVolume
  <2>3. CASE store' = store \cup {x} /\ Goes(q, "volAttach")
    <3>1. x \notin devs[r.key]
      BY <2>1, <2>2 DEF BInv, AInv, SInv, IncusSound
    <3>2. VolumesRecorded'
      BY <1>1, <2>1, <2>2, <2>3 DEF VolumesRecorded, LiveVol
    <3>3. QED
      BY <2>1, <2>3, <3>1, <3>2 DEF RecordInv, RecordOwn, Goes, Same
  <2>4. CASE UNCHANGED store /\ Goes(q, "volUnrecord")
    BY <1>2, <2>1, <2>4 DEF RecordInv, RecordOwn, Goes, Same
  <2>5. QED
    BY <1>0, <1>16, <2>3, <2>4 DEF CreateVolume
<1>17. CASE AttachNewVolume(q)
  <2>1. r.pc = "volAttach" /\ UNCHANGED <<vol, store>> /\ x \notin devs[r.key]
    BY <1>17 DEF AttachNewVolume, At, db, RecordInv, RecordOwn
  <2>2. CASE Turns(q, "volumes") \/ Goes(q, "volJoin")
    BY <1>3, <2>1, <2>2 DEF Turns, Goes
  <2>3. CASE Goes(q, "volUndo") /\ UNCHANGED devs
    BY <1>2, <2>1, <2>3 DEF RecordInv, RecordOwn, Goes, Same
  <2>4. QED
    BY <1>0, <1>17, <2>2, <2>3 DEF AttachNewVolume
<1>18. CASE RemoveNewVolume(q)
  <2>1. r.pc = "volUndo" /\ UNCHANGED <<vol, devs>> /\ x \notin devs[r.key]
        /\ Goes(q, "volUnrecord") /\ TryDeleteVolume(x)
    BY <1>0, <1>18 DEF RemoveNewVolume, At, db, RecordInv, RecordOwn
  <2>2. \A k \in Keys : x \notin devs[k]
    BY <1>1, <2>1 DEF BInv, AInv, SInv, IncusSound, Related
  <2>3. store' \subseteq store /\ x \notin store'
    BY <2>1, <2>2 DEF TryDeleteVolume, CanDeleteVolume, Fault
  <2>4. QED
    BY <1>2, <2>1, <2>3 DEF RecordInv, RecordOwn, Goes, Same
<1>19. CASE UnrecordVolume(q) \/ DeleteVolumeRecord(q)
  <2>1. /\ UNCHANGED <<store, devs>>
        /\ \/ r.pc = "volUnrecord" /\ Turns(q, "volumes")
           \/ r.pc = "delRec" /\ Turns(q, "delVols")
    BY <1>0, <1>19 DEF UnrecordVolume, DeleteVolumeRecord, At, incus
  <2>2. x \notin store /\ (r.pc = "delRec" => devs[r.key] = {})
    BY <2>1 DEF RecordInv, RecordOwn
  <2>3. vol[r.vid].key = r.key /\ vol[r.vid].dev = r.dev
    BY <2>1, OwnVolume DEF NewVolume, OldVolume
  <2>4. \A v \in VolIds : v # r.vid => vol'[v] = vol[v]
    BY <1>19, RecordGone
  <2>5. VolumesRecorded'
    <3>1. SUFFICES ASSUME NEW y \in store, y[1] \notin Renamed
                   PROVE  \E v \in VolIds : /\ LiveVol(v)' /\ vol'[v].key = y[1]
                                            /\ vol'[v].dev = y[2]
      BY <2>1 DEF VolumesRecorded
    <3>2. PICK v \in VolIds : LiveVol(v) /\ vol[v].key = y[1] /\ vol[v].dev = y[2]
      BY <1>1, <3>1 DEF VolumesRecorded
    <3>3. y = <<y[1], y[2]>>
      <4>1. store \subseteq Keys \X Devs
        BY <1>1 DEF TypeOK
      <4>2. QED
        BY <4>1
    <3>4. v # r.vid
      BY <2>2, <2>3, <3>2, <3>3
    <3>5. QED
      BY <2>4, <3>2, <3>4 DEF LiveVol
  <2>6. QED
    BY <2>1, <2>2, <2>5 DEF RecordInv, RecordOwn, Turns, Same
<1>20. CASE \E d \in Devs : LookUpListed(q, d)
  <2>1. PICK d \in Devs : LookUpListed(q, d)
    BY <1>20
  <2>2. UNCHANGED <<vol, store, devs>> /\ VolumesRecorded'
    BY <1>1, <1>2, <2>1, LookUpListedIs DEF db, incus
  <2>3. req'[q].key = r.key /\ \/ req'[q].pc \in {"reattach", "attach"}
                               \/ r.pc = "delVols" /\ req'[q].pc \in {"delVols", "delVol"}
    BY <1>1, <2>1, LookUpListedIs DEF Turns, Same, Takes
  <2>4. QED
    BY <2>2, <2>3 DEF RecordInv, RecordOwn
<1>21. CASE DeleteVolume(q)
  <2>1. r.pc = "delVol" /\ UNCHANGED <<vol, devs>> /\ devs[r.key] = {}
        /\ Goes(q, "delRec") /\ TryDeleteVolume(x)
    BY <1>0, <1>21, PlainListed DEF DeleteVolume, At, db, RecordInv, RecordOwn, BInv, AInv
  <2>2. \A k \in Keys : x \notin devs[k]
    BY <1>1, <2>1 DEF BInv, AInv, SInv, IncusSound, Related
  <2>3. store' \subseteq store /\ x \notin store'
    BY <2>1, <2>2 DEF TryDeleteVolume, CanDeleteVolume, Fault
  <2>4. QED
    BY <1>2, <2>1, <2>3 DEF RecordInv, RecordOwn, Goes, Same
<1>22. CASE RemoveContainer(q)
  <2>1. UNCHANGED <<vol, store>>
    BY <1>22 DEF RemoveContainer, db
  <2>2. CASE r.pc = "detach"
    BY <1>0, <1>3, <1>4, <1>22, <2>1, <2>2 DEF RemoveContainer, At, Goes
  <2>3. CASE r.pc = "delContainer"
    <3>1. r.op = "Delete" /\ r.key \in Keys
      BY <1>1, <2>3 DEF InPlace, Places, AllOps, Moves, MoveLabels
    <3>2. devs'[r.key] = {}
      BY <1>1, <1>22, <2>3, <3>1
         DEF RemoveContainer, CanRemove, Fault, Stilled, TypeOK, BInv, AInv, SInv, IncusSound
    <3>3. Goes(q, "delVols")
      BY <1>0, <1>22, <2>3 DEF RemoveContainer, At
    <3>4. QED
      BY <1>2, <2>1, <3>2, <3>3 DEF RecordInv, RecordOwn, Goes, Same
  <2>4. QED
    BY <1>22, <2>2, <2>3 DEF RemoveContainer, At
<1>23. QED
  BY <1>5, <1>6, <1>7, <1>8, <1>9, <1>10, <1>11, <1>12, <1>13, <1>14, <1>15, <1>16, <1>17,
     <1>18, <1>19, <1>20, <1>21, <1>22 DEF Serves

AllRecorded ==
    /\ VolumesRecorded
    /\ \A p \in Procs : Plain(req[p]) => RecordOwn(req[p]) /\ Stilled(req[p])

LEMMA NextRecorded ==
    ASSUME Apart, OneServer, VolsInv, AllRecorded, NEW q \in Procs, Begin(q) \/ Step(q),
           {"StopInstance", "DeleteInstance", "DeleteVolume"} \cap Faults = {}
    PROVE  AllRecorded'
<1>1. SInv /\ Renamed \subseteq Renamed' /\ IdsKept
  BY StepRenamed, StepDb DEF VolsInv, RowsInv, SInv
<1>2. ASSUME NEW p \in Procs, p # q, Plain(req[p])' PROVE RecordOwn(req[p])' /\ Stilled(req[p])'
  <2> DEFINE k == req[p].key
  <2>1. req'[p] = req[p] /\ RecordOwn(req[p]) /\ Stilled(req[p]) /\ IncusElsewhere(q)
    BY <1>1, <1>2, ElseIs DEF AllRecorded, Elsewhere
  <2>2. CASE req[p].op = "none" /\ req[p].pc = "idle"
    BY <2>1, <2>2 DEF RecordOwn, Stilled
  <2>3. CASE k \in Keys \ Reach(q)
    <3>1. cont'[k] = cont[k] /\ devs'[k] = devs[k]
      BY <2>1, <2>3 DEF IncusElsewhere
    <3>2. req[p].pc \in WithVolume => req[p].dev \in Devs
      BY <1>1, Actor DEF SInv, IInv, MemoryHolds, Knows, Placed, TypeOK, Request
    <3>3. req[p].dev \in Devs => (<<k, req[p].dev>> \in store' <=> <<k, req[p].dev>> \in store)
      BY <2>1, <2>3 DEF IncusElsewhere
    <3>4. QED
      BY <2>1, <3>1, <3>2, <3>3 DEF RecordOwn, Stilled, WithVolume
  <2>4. QED
    BY <1>1, <1>2, <2>2, <2>3, ElseIs
<1>3. CASE Serves(q) /\ Plain(req[q]) /\ Renamed' = Renamed
  <2>1. BInv(q) /\ AInv(q)
    BY <1>3 DEF VolsInv, RowsInv, BInv, AInv
  <2>2. RecordInv(req[q])' /\ Stilled(req[q])'
    BY <1>3, <2>1, StepStilled, StepRecorded DEF AllRecorded, RecordInv
  <2>3. QED
    BY <1>2, <2>2 DEF AllRecorded, RecordInv
<1>4. CASE (Stands(q) \/ Strays(q)) /\ (Plain(req[q])' => Resting(q))
  <2>1. Plain(req[q])' => RecordOwn(req[q])' /\ Stilled(req[q])'
    BY <1>4 DEF Resting, RecordOwn, Stilled, Moves
  <2>2. ASSUME NEW y \in store', y[1] \notin Renamed'
        PROVE  \E v \in VolIds : LiveVol(v)' /\ vol'[v].key = y[1] /\ vol'[v].dev = y[2]
    <3>1. y \in Keys \X Devs
      BY <1>1, <2>2, StepSInv DEF SInv, IInv, TypeOK
    <3>2. y \in store /\ y[1] \notin Renamed
      BY <1>1, <1>4, <2>2, <3>1, OutOfReach
    <3>3. PICK v \in VolIds : LiveVol(v) /\ vol[v].key = y[1] /\ vol[v].dev = y[2]
      BY <3>2 DEF AllRecorded, VolumesRecorded
    <3>4. vol'[v].key = y[1]
      BY <1>1, <3>3 DEF IdsKept, LiveVol
    <3>5. y[1] \in Keys \ Renamed' /\ Renamed' \subseteq Keys
      BY <2>2, <3>1 DEF Renamed
    <3>6. y[1][2] \notin {k[2] : k \in Renamed'}
      BY <3>5 DEF OneServer, Keys
    <3>7. vol'[v] = vol[v]
      BY <1>1, <1>4, <3>4, <3>6, OutOfReach
    <3>8. QED
      BY <3>3, <3>7 DEF LiveVol
  <2>3. VolumesRecorded'
    BY <2>2 DEF VolumesRecorded
  <2>4. QED
    BY <1>2, <2>1, <2>3 DEF AllRecorded
<1>5. QED
  BY <1>1, <1>3, <1>4, Kinds

\* Whatever crashes and whichever other call fails, no storage volume of a name
\* that no rename has touched loses its record, provided that what can be stopped
\* and deleted is: on one server, with any number of requests no two of which
\* concern the same instance.
THEOREM NoVolumeIsLost ==
    ASSUME OneServer, {"StopInstance", "DeleteInstance", "DeleteVolume"} \cap Faults = {}
    PROVE  Spec /\ []Apart => []VolumesRecorded
<1> DEFINE Inv == VolsInv /\ AllRecorded
<1>1. Init => Inv
  <2>1. SUFFICES ASSUME Init PROVE Inv
    OBVIOUS
  <2>2. VolsInv /\ (\A p \in Procs : req[p] = Idle) /\ store = {}
    BY <2>1, InitRowsInv DEF Init
  <2>3. QED
    BY <2>2, IdleIs DEF AllRecorded, Stilled, RecordOwn, VolumesRecorded
<1>2. Inv /\ Apart /\ [Next]_vars => Inv'
  <2>1. SUFFICES ASSUME Inv, Apart, [Next]_vars PROVE AllRecorded'
    BY NextVolsInv
  <2>2. CASE \E q \in Procs : Begin(q) \/ Step(q)
    BY <2>1, <2>2, NextRecorded
  <2>3. CASE Crash
    <3>1. (\A p \in Procs : req'[p] = Idle) /\ UNCHANGED <<inst, vol, store>>
      BY <2>3 DEF Crash, db, incus
    <3>2. Renamed' = Renamed
      BY <3>1 DEF Renamed
    <3>3. QED
      BY <2>1, <3>1, <3>2, IdleIs DEF AllRecorded, Stilled, RecordOwn, VolumesRecorded, LiveVol
  <2>4. CASE UNCHANGED vars
    <3>1. Renamed' = Renamed /\ \A p \in Procs : Plain(req[p])' <=> Plain(req[p])
      BY <2>4 DEF vars, Plain, Renamed
    <3>2. QED
      BY <2>1, <2>4, <3>1 DEF vars, AllRecorded, Stilled, RecordOwn, VolumesRecorded, LiveVol
  <2>5. QED
    BY <2>1, <2>2, <2>3, <2>4 DEF Next
<1>3. Inv => VolumesRecorded
  BY DEF AllRecorded
<1>4. QED
  BY <1>1, <1>2, <1>3, PTL DEF Spec

\* Which records have no storage volume: the one that the request makes or
\* removes, and those of other requests, E.
ExistInv(E, r) ==
    \A v \in VolIds \ E : LiveVol(v) => \/ <<vol[v].key, vol[v].dev>> \in store
                                        \/ v = r.vid /\ r.pc \in {"volCreate", "volUnrecord", "delRec"}

LEMMA StepExist ==
    ASSUME NEW E, NEW q \in Procs, BInv(q), OneServer, ExistInv(E, req[q]), Serves(q)
    PROVE  ExistInv(E, req[q])'
<1> DEFINE r == req[q]
           x == <<r.key, r.dev>>
<1>0. /\ \A l : Goto(q, l) => Goes(q, l)
      /\ \A l, d : NextDir(q, l, d) => Turns(q, l)
  BY ControlMoves DEF BInv, AInv, SInv, IInv
<1>1. TypeOK
  BY DEF BInv, AInv, SInv, IInv
<1>2. CASE \E d \in Devs : RecordVolume(q, d)
  <2>1. PICK d \in Devs : RecordVolume(q, d)
    BY <1>2
  <2>2. r.pc = "volumes" /\ UNCHANGED store
    BY <1>1, <2>1, RecordVolumeIs DEF incus
  <2>3. CASE UNCHANGED vol
    BY <2>2, <2>3 DEF ExistInv, LiveVol
  <2>4. ASSUME NEW v \in VolIds,
               vol' = [vol EXCEPT ![v] = [state |-> "live", key |-> r.key, dev |-> d]],
               Takes(q, "volCreate", v, d)
        PROVE  ExistInv(E, req[q])'
    <3>1. \A w \in VolIds : w # v => vol'[w] = vol[w]
      BY <1>1, <2>4 DEF TypeOK
    <3>2. QED
      BY <2>2, <2>4, <3>1 DEF ExistInv, LiveVol, Takes
  <2>5. QED
    BY <1>1, <2>1, <2>3, <2>4, RecordVolumeIs
<1>3. CASE CreateVolume(q)
  <2>1. r.pc = "volCreate" /\ UNCHANGED vol
    BY <1>3 DEF CreateVolume, At, db
  <2>2. vol[r.vid].key = r.key /\ vol[r.vid].dev = r.dev
    BY <2>1, OwnVolume DEF NewVolume
  <2>3. CASE store' = store \cup {x}
    BY <2>1, <2>2, <2>3 DEF ExistInv, LiveVol
  <2>4. CASE UNCHANGED store /\ Goes(q, "volUnrecord")
    BY <2>1, <2>4 DEF ExistInv, LiveVol, Goes
  <2>5. QED
    BY <1>0, <1>3, <2>3, <2>4 DEF CreateVolume
<1>4. CASE RemoveNewVolume(q) \/ DeleteVolume(q)
  <2>1. /\ UNCHANGED vol /\ TryDeleteVolume(x)
        /\ \/ r.pc = "volUndo" /\ Goes(q, "volUnrecord")
           \/ r.pc = "delVol" /\ Goes(q, "delRec")
    BY <1>0, <1>4, PlainListed DEF RemoveNewVolume, DeleteVolume, At, db, BInv, AInv
  <2>2. \A v \in VolIds : LiveVol(v) /\ <<vol[v].key, vol[v].dev>> = x => v = r.vid
    BY <2>1, OwnVolume DEF NewVolume, OldVolume
  <2>3. \A y \in store : y # x => y \in store'
    BY <2>1 DEF TryDeleteVolume
  <2>4. QED
    BY <2>1, <2>2, <2>3 DEF ExistInv, LiveVol, Goes
<1>5. CASE UnrecordVolume(q) \/ DeleteVolumeRecord(q)
  <2>1. UNCHANGED store
    BY <1>5 DEF UnrecordVolume, DeleteVolumeRecord, incus
  <2>2. vol'[r.vid].state = "deleted" /\ \A v \in VolIds : v # r.vid => vol'[v] = vol[v]
    BY <1>5, RecordGone
  <2>3. QED
    BY <2>1, <2>2 DEF ExistInv, LiveVol
<1>6. CASE ~\/ \E d \in Devs : RecordVolume(q, d)
            \/ CreateVolume(q) \/ RemoveNewVolume(q) \/ DeleteVolume(q)
            \/ UnrecordVolume(q) \/ DeleteVolumeRecord(q)
  <2>1. UNCHANGED vol
    BY <1>6, OtherSteps, ServedIs DEF BInv, AInv
  <2>2. /\ UNCHANGED store
        /\ r.pc \notin {"volCreate", "volUnrecord", "delRec"}
    BY <1>6 DEF Serves, BeginCreate, BeginOn, InsertRow, CreateContainer, StartContainer,
       AttachNewVolume, JoinNewVolume, JoinFoundVolume, FinalizeRunning, FinalizeError,
       StartRequested, StopRequested, StatusWritten, ListVolumes, ProbeContainer, StopIgnored,
       RemoveContainer, Reattach, DeleteRow, Return, FindVolume, DetachVolume, LookUpListed,
       At, incus
  <2>3. QED
    BY <2>1, <2>2 DEF ExistInv, LiveVol
<1>7. QED
  BY <1>2, <1>3, <1>4, <1>5, <1>6

\* Which records have no storage volume, over all requests, but for names that a
\* rename has touched.
Unmade(v) == \E p \in Procs : /\ v = req[p].vid
                              /\ req[p].pc \in {"volCreate", "volUnrecord", "delRec"}
AllExist ==
    \A v \in VolIds : LiveVol(v) /\ vol[v].key \notin Renamed =>
                         <<vol[v].key, vol[v].dev>> \in store \/ Unmade(v)

LEMMA NextExist ==
    ASSUME Apart, OneServer, VolsInv, AllExist, NEW q \in Procs, Begin(q) \/ Step(q)
    PROVE  AllExist'
<1>1. /\ SInv /\ SInv' /\ Renamed \subseteq Renamed' /\ IdsKept
      /\ \A p \in Procs : p # q => req'[p] = req[p]
  BY StepSInv, StepRenamed, StepDb, StepElsewhere
     DEF VolsInv, RowsInv, SInv, Elsewhere, OthersAsTheyWere
<1>2. CASE Serves(q) /\ Plain(req[q]) /\ Renamed' = Renamed
  <2>1. PICK E : E = {req[p].vid : p \in {o \in Procs :
                         o # q /\ req[o].pc \in {"volCreate", "volUnrecord", "delRec"}}}
                       \cup {v \in VolIds : vol'[v].key \in Renamed'}
    OBVIOUS
  <2>2. BInv(q)
    BY <1>2 DEF VolsInv, RowsInv, BInv, AInv
  <2>3. ExistInv(E, req[q])
    <3>1. ASSUME NEW v \in VolIds \ E, LiveVol(v) PROVE vol[v].key \notin Renamed
      BY <1>1, <1>2, <2>1, <3>1 DEF IdsKept, LiveVol
    <3>2. \A v \in VolIds \ E : Unmade(v) =>
            v = req[q].vid /\ req[q].pc \in {"volCreate", "volUnrecord", "delRec"}
      BY <2>1 DEF Unmade
    <3>3. QED
      BY <3>1, <3>2 DEF AllExist, ExistInv
  <2>4. ExistInv(E, req[q])'
    BY <1>2, <2>2, <2>3, StepExist
  <2>5. ASSUME NEW v \in VolIds, v \in E, vol'[v].key \notin Renamed' PROVE Unmade(v)'
    BY <1>1, <2>1, <2>5 DEF Unmade
  <2>6. QED
    BY <2>4, <2>5 DEF AllExist, ExistInv, Unmade
<1>3. CASE Stands(q) \/ Strays(q)
  <2>1. SUFFICES ASSUME NEW v \in VolIds, LiveVol(v)', vol'[v].key \notin Renamed'
                 PROVE  <<vol'[v].key, vol'[v].dev>> \in store' \/ Unmade(v)'
    BY DEF AllExist
  <2>2. vol'[v].key \in Keys \ Renamed' /\ Renamed' \subseteq Keys
    BY <1>1, <2>1 DEF SInv, IInv, DbInv, VolumesNamed, LiveVol, Renamed
  <2>3. vol'[v].key[2] \notin {k[2] : k \in Renamed'}
    BY <2>2 DEF OneServer, Keys
  <2>4. vol'[v] = vol[v]
    BY <1>1, <1>3, <2>3, OutOfReach
  <2>5. LiveVol(v) /\ vol[v].key \notin Renamed
    BY <1>1, <2>1, <2>4 DEF LiveVol
  <2>6. CASE <<vol[v].key, vol[v].dev>> \in store
    <3>1. <<vol[v].key, vol[v].dev>> \in Keys \X Devs
      BY <1>1, <2>6 DEF SInv, IInv, TypeOK
    <3>2. QED
      BY <1>1, <1>3, <2>1, <2>4, <2>6, <3>1, OutOfReach
  <2>7. ASSUME NEW p \in Procs, v = req[p].vid,
               req[p].pc \in {"volCreate", "volUnrecord", "delRec"}
        PROVE  Unmade(v)'
    <3>1. CASE p # q
      BY <1>1, <2>7, <3>1 DEF Unmade
    <3>2. CASE p = q
      <4>1. Reach(q) \subseteq Renamed' /\ req[q].key \in Renamed'
        BY <1>3, <2>7, <3>2 DEF Stands, Strays, Reach
      <4>2. vol[v].key[2] \in CalledBy(req[q])
        BY <1>1, <2>7, <3>2, Actor, NoneIsNothing
           DEF SInv, Placed, WithVolume, Remembers, KnownVolume
      <4>3. CalledBy(req[q]) \subseteq {k[2] : k \in Renamed'}
        BY <1>1, <4>1, OwnReach DEF CalledBy, Called
      <4>4. QED
        BY <2>3, <2>4, <4>2, <4>3
    <3>3. QED
      BY <3>1, <3>2
  <2>8. QED
    BY <2>4, <2>5, <2>6, <2>7 DEF AllExist, Unmade
<1>4. QED
  BY <1>1, <1>2, <1>3, Kinds

\* A volume that an instance is said to have, of a name that no rename has
\* touched, is in the store between requests, whatever calls fail: on one server,
\* with any number of requests no two of which concern the same instance,
\* without a crash of the server process, which would leave a record whose
\* volume was never made.
THEOREM VolumesExist ==
    ASSUME OneServer, MaxCrashes = 0
    PROVE  Spec /\ []Apart => []JoinedVolumesExist
<1> DEFINE Inv == VolsInv /\ AllExist
<1>1. Init => Inv
  <2>1. SUFFICES ASSUME Init PROVE Inv
    OBVIOUS
  <2>2. VolsInv /\ \A v \in VolIds : ~LiveVol(v)
    BY <2>1, InitRowsInv DEF Init, LiveVol
  <2>3. QED
    BY <2>2 DEF AllExist
<1>2. Inv /\ Apart /\ [Next]_vars => Inv'
  <2>1. SUFFICES ASSUME Inv, Apart, [Next]_vars PROVE AllExist'
    BY NextVolsInv
  <2>2. CASE \E q \in Procs : Begin(q) \/ Step(q)
    BY <2>1, <2>2, NextExist
  <2>3. CASE Crash
    BY <2>1, <2>3 DEF Crash, VolsInv, RowsInv, SInv, IInv, TypeOK
  <2>4. CASE UNCHANGED vars
    <3>1. Renamed' = Renamed
      BY <2>4 DEF vars, Renamed
    <3>2. QED
      BY <2>1, <2>4, <3>1 DEF vars, AllExist, Unmade, LiveVol
  <2>5. QED
    BY <2>1, <2>2, <2>3, <2>4 DEF Next
<1>3. Inv => JoinedVolumesExist
  <2>1. SUFFICES ASSUME Inv, Quiet, NEW j \in joins, vol[j.vol].key \notin Renamed
                 PROVE  <<vol[j.vol].key, vol[j.vol].dev>> \in store
    BY DEF JoinedVolumesExist
  <2>2. j.vol \in VolIds /\ LiveVol(j.vol)
    BY <2>1 DEF VolsInv, RowsInv, SInv, IInv, TypeOK, DbInv, JoinIntegrity, Join
  <2>3. QED
    BY <2>1, <2>2 DEF AllExist, Unmade, Quiet, At
<1>4. QED
  BY <1>1, <1>2, <1>3, PTL DEF Spec


-----------------------------------------------------------------------------
(* Creations under way.                                                    *)

\* Whether the request is the creation that will decide row i.
Decides(r, i) == r.op = "CreateAsync" /\ r.pc # "insert" /\ r.id = i

CreatingIsUnderway ==
    \A i \in Ids : inst[i].status = "creating" => \E p \in Procs : Decides(req[p], i)

\* What the end of a creation writes.
LEMMA EndsBy ==
    ASSUME TypeOK, NEW p \in Procs, InPlace(req[p]), Step(p), req[p].op = "CreateAsync",
           req[p].pc # "insert", Ends(p)
    PROVE  \E s \in {"running", "error"} : SetStatus(req[p].id, s)
<1> USE DEF At
<1>1. /\ \A l \in Labels \ {"idle"} : ~(Ends(p) /\ Goto(p, l))
      /\ \A l \in Labels \ {"idle"} : \A D : ~(Ends(p) /\ Loop(p, l, D))
      /\ \A l \in Labels \ {"idle"} : \A d : ~(Ends(p) /\ NextDir(p, l, d))
  BY ControlMoves, IdleIs DEF Goes, Turns, Ends
<1>2. req[p].pc \in {"container", "volumes", "volCreate", "volAttach", "volUndo",
                      "volUnrecord", "joins", "joinInsert", "fail"}
  BY DEF InPlace, Places
<1>3. {"volumes", "fail", "volAttach", "volUndo", "volUnrecord", "joins", "joinInsert",
       "reattach", "insert", "ready"} \subseteq Labels \ {"idle"}
  BY DEF Labels
<1>4. CASE FinalizeRunning(p) \/ FinalizeError(p)
  BY <1>4 DEF FinalizeRunning, FinalizeError
<1>5. CASE CreateContainer(p) \/ StartContainer(p)
  BY <1>1, <1>3, <1>5 DEF CreateContainer, StartContainer, Creating
<1>6. CASE CreateVolume(p) \/ RemoveNewVolume(p) \/ AttachNewVolume(p) \/ UnrecordVolume(p)
           \/ JoinFoundVolume(p)
  BY <1>1, <1>3, <1>6 DEF CreateVolume, RemoveNewVolume, AttachNewVolume, UnrecordVolume,
     JoinFoundVolume, Creating
<1>7. CASE \E d \in Devs : RecordVolume(p, d) \/ FindVolume(p, d)
  BY <1>7, RecordVolumeIs, FindVolumeIs, IdleIs DEF Turns, Takes, Ends
<1>8. QED
  BY <1>2, <1>4, <1>5, <1>6, <1>7 DEF Step, InsertRow, JoinNewVolume, StartRequested,
     StopRequested, StatusWritten, ListVolumes, ProbeContainer, StopIgnored, RemoveContainer,
     Reattach, DeleteRow, DeleteVolume, DeleteVolumeRecord, Return, DetachVolume, LookUpListed,
     CheckName, MoveContainer, RecordName, UndoMove

\* What a step writes into the table of instances.
LEMMA StepRows ==
    ASSUME SInv, NEW p \in Procs, Begin(p) \/ Step(p)
    PROVE  \/ UNCHANGED inst
           \/ \E i \in Ids, s \in {"creating", "running"} :
                /\ inst' = [inst EXCEPT ![i] = [status |-> s, key |-> req[p].key,
                                                volume |-> req[p].first,
                                                names |-> {req[p].key}]]
                /\ inst[i].status = "unused"
                /\ \A j \in Ids : Live(j) => inst[j].key # req[p].key
                /\ s = "creating" => Decides(req'[p], i)
           \/ \E s \in {"running", "stopped", "error"} :
                /\ SetStatus(req[p].id, s)
                /\ HasRow(req[p]) \/ req[p].op \in Moves
           \/ DeleteRow(p) /\ HasRow(req[p])
           \/ /\ req[p].op \in Moves
              /\ \A i \in Ids : /\ inst'[i].status = inst[i].status
                                /\ ~Live(i) => inst'[i].key = inst[i].key
<1>0. TypeOK /\ InPlace(req[p])
  BY DEF SInv, IInv, OnCourse
<1>1. CASE InsertRow(p)
  BY <1>0, <1>1, InsertRowIs DEF Decides
<1>2. CASE FinalizeRunning(p) \/ FinalizeError(p) \/ StatusWritten(p) \/ DeleteRow(p)
  <2>1. /\ req[p].pc \in {"joins", "ready", "fail", "started", "stopped", "delRow"}
        /\ req[p].pc = "joins" => req[p].op = "CreateAsync"
    BY <1>2 DEF FinalizeRunning, FinalizeError, StatusWritten, DeleteRow, At
  <2>2. HasRow(req[p]) \/ (req[p].op \in Moves /\ ~DeleteRow(p))
    BY <1>0, <2>1 DEF HasRow, InPlace, Places, TypeOK, Request, AllOps, Moves, MoveLabels,
       DeleteRow, At
  <2>3. QED
    BY <1>2, <2>2 DEF FinalizeRunning, FinalizeError, StatusWritten
<1>3. CASE ~(InsertRow(p) \/ FinalizeRunning(p) \/ FinalizeError(p) \/ StatusWritten(p)
             \/ DeleteRow(p) \/ CheckName(p) \/ RecordName(p))
  BY <1>3 DEF Begin, Step, BeginCreate, BeginOn, BeginMove, MoveContainer, UndoMove, CreateContainer, StartContainer,
     CreateVolume, AttachNewVolume, RemoveNewVolume, UnrecordVolume, JoinNewVolume,
     JoinFoundVolume, StartRequested, StopRequested, ListVolumes, ProbeContainer,
     StopIgnored, RemoveContainer, Reattach, DeleteVolume, DeleteVolumeRecord, Return,
     RecordVolume, FindVolume, DetachVolume, LookUpListed, db
<1>4. CASE CheckName(p) \/ RecordName(p)
  <2>1. req[p].op \in Moves /\ req[p].id \in Ids
    BY <1>4, Mover, Actor DEF CheckName, RecordName, At, Placed, SInv
  <2>2. PICK i \in Ids : i = req[p].id
    BY <2>1
  <2>3. CASE UNCHANGED inst
    BY <2>3
  <2>4. ASSUME NEW N \in SUBSET Keys, inst' = [inst EXCEPT ![i].names = N]
        PROVE  \A j \in Ids : inst'[j].status = inst[j].status /\ inst'[j].key = inst[j].key
    BY <1>0, <2>4 DEF TypeOK, Row
  <2>5. ASSUME NEW l \in Keys \cup {None},
               inst' = [inst EXCEPT ![i].key = IF Live(i) THEN l ELSE @]
        PROVE  \A j \in Ids : /\ inst'[j].status = inst[j].status
                              /\ ~Live(j) => inst'[j].key = inst[j].key
    BY <1>0, <2>5 DEF TypeOK, Row
  <2>6. req[p].to \in Keys
    BY <2>1, Mover DEF SInv
  <2>7. CASE CheckName(p)
    <3>1. UNCHANGED inst \/ inst' = [inst EXCEPT ![i].names = @ \cup {req[p].to}]
      BY <2>2, <2>7 DEF CheckName
    <3>2. inst[i].names \cup {req[p].to} \in SUBSET Keys
      BY <1>0, <2>6 DEF TypeOK, Row
    <3>3. inst' = [inst EXCEPT ![i].names = @ \cup {req[p].to}]
            => inst' = [inst EXCEPT ![i].names = inst[i].names \cup {req[p].to}]
      OBVIOUS
    <3>4. QED
      BY <2>1, <2>3, <2>4, <3>1, <3>2, <3>3
  <2>8. CASE RecordName(p)
    BY <2>1, <2>2, <2>3, <2>5, <2>6, <2>8 DEF RecordName
  <2>9. QED
    BY <1>4, <2>7, <2>8
<1>5. QED
  BY <1>1, <1>2, <1>3, <1>4

LEMMA NextUnderway ==
    ASSUME SInv, CreatingIsUnderway, NEW q \in Procs, Begin(q) \/ Step(q)
    PROVE  CreatingIsUnderway'
<1>1. /\ TypeOK /\ InPlace(req[q]) /\ req[q].op \in AllOps \cup {"none"}
      /\ \A p \in Procs : p # q => req'[p] = req[p]
  BY StepElsewhere DEF SInv, IInv, OnCourse, TypeOK, Request, Elsewhere, OthersAsTheyWere
<1>2. SUFFICES ASSUME NEW i \in Ids, inst'[i].status = "creating"
               PROVE  \E p \in Procs : Decides(req'[p], i)
  BY DEF CreatingIsUnderway
<1>3. CASE inst[i].status = "creating"
  <2>1. PICK p \in Procs : Decides(req[p], i)
    BY <1>3 DEF CreatingIsUnderway
  <2>2. CASE p # q
    BY <1>1, <2>1, <2>2
  <2>3. CASE p = q /\ Begin(q)
    <3>1. req[q].pc = "idle"
      BY <2>3 DEF Begin, BeginCreate, BeginOn, BeginMove, At
    <3>2. QED
      BY <1>1, <2>1, <2>3, <3>1 DEF Decides, InPlace, Places
  <2>4. CASE p = q /\ Step(q)
    <3>1. CASE GoesOn(q)
      BY <2>1, <2>4, <3>1 DEF GoesOn, Decides
    <3>2. CASE Ends(q)
      <4>1. PICK s \in {"running", "error"} : SetStatus(i, s)
        BY <1>1, <2>1, <2>4, <3>2, EndsBy DEF Decides
      <4>2. inst'[i].status = s
        BY <1>1, <1>3, <4>1 DEF SetStatus, Live, Statuses, TypeOK, Row
      <4>3. QED
        BY <1>2, <4>2
    <3>3. QED
      BY <1>1, <2>4, <3>1, <3>2, StepGoesOn
  <2>5. QED
    BY <2>2, <2>3, <2>4
<1>4. CASE inst[i].status # "creating"
  <2>1. CASE UNCHANGED inst
    BY <1>2, <1>4, <2>1
  <2>2. CASE \E s \in {"running", "stopped", "error"} : SetStatus(req[q].id, s)
    BY <1>1, <1>2, <1>4, <2>2 DEF SetStatus, TypeOK, Row
  <2>3. CASE DeleteRow(q)
    BY <1>1, <1>2, <1>4, <2>3 DEF DeleteRow, TypeOK, Row
  <2>4. ASSUME NEW j \in Ids, NEW s \in {"creating", "running"},
               inst' = [inst EXCEPT ![j] = [status |-> s, key |-> req[q].key,
                                            volume |-> req[q].first,
                                            names |-> {req[q].key}]],
               s = "creating" => Decides(req'[q], j)
        PROVE  \E p \in Procs : Decides(req'[p], i)
    <3>1. i = j /\ s = "creating"
      BY <1>1, <1>2, <1>4, <2>4 DEF TypeOK
    <3>2. QED
      BY <2>4, <3>1
  <2>5. CASE \A j \in Ids : inst'[j].status = inst[j].status
    BY <1>2, <1>4, <2>5
  <2>6. QED
    BY <1>1, <2>1, <2>2, <2>3, <2>4, <2>5, StepRows
<1>5. QED
  BY <1>3, <1>4

LEMMA InitUnderway == Init => CreatingIsUnderway
BY DEF Init, CreatingIsUnderway

\* While the server runs, what is "creating" is being created: some goroutine
\* holds the row and will decide it.  Of CreationSettles this is the half that
\* does not need fairness; a crash loses the goroutine and keeps the row.
THEOREM CreationsAreUnderway ==
    ASSUME MaxCrashes = 0
    PROVE  Spec => []CreatingIsUnderway
<1> DEFINE Inv == SInv /\ CreatingIsUnderway
<1>1. Inv /\ [Next]_vars => Inv'
  <2>1. SUFFICES ASSUME Inv, [Next]_vars PROVE Inv'
    OBVIOUS
  <2>2. CASE \E q \in Procs : Begin(q) \/ Step(q)
    BY <2>1, <2>2, StepSInv, NextUnderway
  <2>3. CASE Crash
    BY <2>1, <2>3 DEF Crash, SInv, IInv, TypeOK
  <2>4. CASE UNCHANGED vars
    BY <2>1, <2>4, StutterSInv DEF vars, CreatingIsUnderway
  <2>5. QED
    BY <2>1, <2>2, <2>3, <2>4 DEF Next
<1>2. QED
  BY <1>1, InitSInv, InitUnderway, PTL DEF Spec

-----------------------------------------------------------------------------
(* The refinement of InstanceBook.                                         *)

Homes == {x \in store : x[1] \notin Renamed /\ \E j \in joins : x = <<vol[j.vol].key, j.dev>>}
Held  == {req[p].key : p \in {o \in Procs : ~At(o, "idle")}} \ Renamed

\* A row that was never used has no key, and so is on the book.
FreshKeys == \A i \in Ids : inst[i].status = "unused" => inst[i].key = None

LEMMA NextFresh ==
    ASSUME SInv, FreshKeys, NEW p \in Procs, Begin(p) \/ Step(p)
    PROVE  FreshKeys'
<1>1. TypeOK
  BY DEF SInv, IInv
<1>2. CASE UNCHANGED inst
  BY <1>2 DEF FreshKeys
<1>3. ASSUME NEW i \in Ids, NEW s \in {"creating", "running"},
             inst' = [inst EXCEPT ![i] = [status |-> s, key |-> req[p].key,
                                          volume |-> req[p].first, names |-> {req[p].key}]]
      PROVE  FreshKeys'
  BY <1>1, <1>3 DEF FreshKeys, TypeOK
<1>4. ASSUME NEW s \in {"running", "stopped", "error"}, SetStatus(req[p].id, s)
      PROVE  FreshKeys'
  BY <1>1, <1>4 DEF FreshKeys, SetStatus, TypeOK, Row
<1>5. CASE DeleteRow(p)
  BY <1>1, <1>5 DEF FreshKeys, DeleteRow, TypeOK, Row
<1>6. CASE \A i \in Ids : /\ inst'[i].status = inst[i].status
                          /\ ~Live(i) => inst'[i].key = inst[i].key
  BY <1>6 DEF FreshKeys, Live, Statuses
<1>7. QED
  BY <1>2, <1>3, <1>4, <1>5, <1>6, StepRows

\* The rows of a key, in the terms of the book.
LEMMA BookTerms ==
    ASSUME TypeOK
    PROVE  /\ \A i \in Ids : Book!Alive(i) <=> Live(i) /\ ~Off(i)
           /\ \A k \in Keys \ Renamed : Book!Exists(k) <=> \E i \in Ids : Live(i) /\ inst[i].key = k
<1>1. \A i \in Ids : Book!Alive(i) <=> Live(i) /\ ~Off(i)
  BY DEF Book!Alive, Live, Statuses, Row, TypeOK
<1>2. \A k \in Keys, i \in Ids : (IF Off(i) THEN None ELSE inst[i].key) = k
                                 <=> ~Off(i) /\ inst[i].key = k
  BY NoneIsNothing
<1>3. QED
  BY <1>1, <1>2 DEF Book!Exists, Off

LEMMA BookTermsNext ==
    ASSUME TypeOK'
    PROVE  \A k \in Keys \ Renamed' : Book!Exists(k)' <=> \E i \in Ids : Live(i)' /\ inst'[i].key = k
<1>1. \A i \in Ids : Book!Alive(i)' <=> Live(i)' /\ ~Off(i)'
  BY DEF Book!Alive, Live, Statuses, Row, TypeOK
<1>2. \A k \in Keys, i \in Ids : (IF Off(i)' THEN None ELSE inst'[i].key) = k
                                 <=> ~Off(i)' /\ inst'[i].key = k
  BY NoneIsNothing
<1>3. QED
  BY <1>1, <1>2 DEF Book!Exists, Off

LEMMA BookInit == Init => Book!Init /\ FreshKeys
<1>1. SUFFICES ASSUME Init PROVE Book!Init /\ FreshKeys
  OBVIOUS
<1>2. \A p \in Procs : At(p, "idle")
  BY <1>1, IdleIs DEF Init, At
<1>3. /\ \A i \in Ids : inst[i].status = "unused" /\ inst[i].key = None /\ inst[i].names = {}
      /\ store = {} /\ cont = [k \in Keys |-> "absent"]
  BY <1>1 DEF Init
<1>4. Renamed = {}
  BY <1>3 DEF Renamed
<1>5. QED
  BY <1>2, <1>3, <1>4 DEF Book!Init, FreshKeys, Off

\* A request that begins takes a key that nobody holds, if no rename has
\* touched it.
LEMMA BookTake ==
    ASSUME SInv, Apart', NEW q \in Procs, Begin(q), Renamed' = Renamed
    PROVE  /\ UNCHANGED <<db, incus>>
           /\ \/ \E k \in Keys : Book!Take(k)
              \/ Held' = Held
<1>1. /\ SInv' /\ Elsewhere(q)
      /\ req[q].pc = "idle" /\ UNCHANGED <<db, incus, crashes>>
  BY StepSInv, StepElsewhere, IdleSteps DEF Begin, BeginCreate, BeginOn, BeginMove, At
<1>2. req'[q].pc # "idle"
  BY BeginAdvances DEF SInv, IInv
<1>3. PICK k \in Keys : k = req'[q].key /\ k # None
  BY <1>1, <1>2, NoneIsNothing DEF SInv, IInv, TypeOK, Request, MemoryHolds, Knows, Placed
<1>4. \A p \in Procs : p # q => req'[p] = req[p] /\ req[p].key # k
  BY <1>1, <1>3 DEF Apart, Elsewhere, OthersAsTheyWere
<1>5. k \notin Held
  BY <1>1, <1>4 DEF Held, At
<1>6. Held' = Held \cup ({k} \ Renamed)
  BY <1>1, <1>2, <1>3, <1>4 DEF Held, At
<1>7. CASE k \in Renamed
  BY <1>1, <1>6, <1>7
<1>8. CASE k \notin Renamed
  <2>1. Book!Take(k)
    BY <1>1, <1>5, <1>6, <1>8 DEF Book!Take, Held, Off, db, incus
  <2>2. QED
    BY <1>1, <2>1
<1>9. QED
  BY <1>7, <1>8

\* A request under way holds its key, and lets go of it at its end.
LEMMA BookHeld ==
    ASSUME SInv, Apart, NEW q \in Procs, Step(q), Renamed' = Renamed, req[q].pc # "record"
    PROVE  /\ req[q].key \in Keys
           /\ req[q].key \notin Renamed => req[q].key \in Held
           /\ \/ Held' = Held
              \/ Ends(q) /\ Held' = Held \ {req[q].key}
<1>1. /\ TypeOK /\ InPlace(req[q]) /\ Elsewhere(q)
      /\ \A p \in Procs : req[p].pc # "idle" => req[p].key # None
      /\ \A p \in Procs : req[p].key \in Keys \cup {None}
  BY StepElsewhere DEF SInv, IInv, OnCourse, TypeOK, Request, MemoryHolds, Knows, Placed
<1>2. req[q].pc # "idle" /\ (Ends(q) \/ GoesOn(q))
  BY <1>1, StepGoesOn
<1>3. \A p \in Procs : p # q => req'[p] = req[p]
  BY <1>1 DEF Elsewhere, OthersAsTheyWere
<1>4. CASE GoesOn(q)
  <2>1. \A p \in Procs : req'[p].key = req[p].key /\ (req'[p].pc # "idle" <=> req[p].pc # "idle")
    BY <1>2, <1>3, <1>4 DEF GoesOn
  <2>2. QED
    BY <1>1, <1>2, <2>1 DEF Held, At
<1>5. CASE Ends(q)
  <2>1. req'[q].pc = "idle"
    BY <1>5, IdleIs DEF Ends
  <2>2. \A p \in Procs : p # q /\ req[p].pc # "idle" => req[p].key # req[q].key
    BY <1>1 DEF Apart
  <2>3. Held' = Held \ {req[q].key}
    BY <1>2, <1>3, <2>1, <2>2 DEF Held, At
  <2>4. QED
    BY <1>1, <1>2, <1>5, <2>3 DEF Held, At
<1>6. QED
  BY <1>2, <1>4, <1>5

\* A step enters, settles or strikes a row of the request's key, or none.
LEMMA BookLive ==
    ASSUME NEW q \in Procs, AInv(q), FreshKeys, Serves(q), Renamed' = Renamed,
           req[q].pc # "idle"
    PROVE  Book!Live(req[q].key)
<1> DEFINE r == req[q]
<1>1. TypeOK /\ r.op \notin Moves /\ r.key \in Keys \ Renamed
  BY ServedIs, PlainRow DEF AInv, SInv, IInv, Served, Moves
<1>2. Begin(q) \/ Step(q)
  BY ServedIs DEF AInv
<1>3. HasRow(r) => r.id \in Ids /\ Live(r.id) /\ inst[r.id].key = r.key
  BY PlainRow, NoneIsNothing DEF AInv, RowInv
<1>4. ASSUME NEW i \in Ids, \A j \in Ids : j # i => inst'[j] = inst[j]
      PROVE  Book!Others(i)
  BY <1>4 DEF Book!Others, Off
<1>5. CASE UNCHANGED inst
  BY <1>5 DEF Book!Live, Off
<1>6. ASSUME NEW i \in Ids, NEW s \in {"creating", "running"},
             inst' = [inst EXCEPT ![i] = [status |-> s, key |-> r.key, volume |-> r.first,
                                          names |-> {r.key}]],
             inst[i].status = "unused", \A j \in Ids : Live(j) => inst[j].key # r.key
      PROVE  Book!Live(r.key)
  <2>1. /\ inst'[i].status = s /\ inst'[i].key = r.key
        /\ \A j \in Ids : j # i => inst'[j] = inst[j]
    BY <1>1, <1>6 DEF TypeOK
  <2>2. ~Off(i) /\ ~Off(i)'
    <3>1. inst[i].key = None
      BY <1>6 DEF FreshKeys
    <3>2. QED
      BY <1>1, <2>1, <3>1, NoneIsNothing DEF Off, Renamed
  <2>3. ~Book!Exists(r.key)
    BY <1>1, <1>6, BookTerms
  <2>4. Book!Enter(r.key, i)
    BY <1>4, <1>6, <2>1, <2>2, <2>3 DEF Book!Enter
  <2>5. QED
    BY <2>4 DEF Book!Live
<1>7. ASSUME NEW s \in {"running", "stopped", "error"}, SetStatus(r.id, s), HasRow(r)
      PROVE  Book!Live(r.key)
  <2>0. PICK i \in Ids : i = r.id
    BY <1>3, <1>7
  <2>1. /\ inst'[i].status = s /\ inst'[i].key = r.key
        /\ \A j \in Ids : j # i => inst'[j] = inst[j]
    BY <1>1, <1>3, <1>7, <2>0 DEF SetStatus, TypeOK, Row
  <2>2. ~Off(i) /\ ~Off(i)' /\ inst[i].key = r.key
    BY <1>1, <1>3, <1>7, <2>0, <2>1 DEF Off
  <2>3. Book!Alive(i)
    BY <1>1, <1>3, <1>7, <2>0, <2>2, BookTerms
  <2>4. Book!Settle(r.key, i)
    BY <1>4, <2>1, <2>2, <2>3 DEF Book!Settle
  <2>5. QED
    BY <2>4 DEF Book!Live
<1>8. CASE DeleteRow(q) /\ HasRow(r)
  <2>0. PICK i \in Ids : i = r.id
    BY <1>3, <1>8
  <2>1. /\ inst'[i].status = "deleted" /\ inst'[i].key = r.key
        /\ \A j \in Ids : j # i => inst'[j] = inst[j]
    BY <1>1, <1>3, <1>8, <2>0 DEF DeleteRow, TypeOK, Row
  <2>2. ~Off(i) /\ ~Off(i)' /\ inst[i].key = r.key
    BY <1>1, <1>3, <1>8, <2>0, <2>1 DEF Off
  <2>3. Book!Alive(i)
    BY <1>1, <1>3, <1>8, <2>0, <2>2, BookTerms
  <2>4. Book!Strike(r.key, i)
    BY <1>4, <2>1, <2>2, <2>3 DEF Book!Strike
  <2>5. QED
    BY <2>4 DEF Book!Live
<1>9. QED
  BY <1>1, <1>2, <1>5, <1>6, <1>7, <1>8, StepRows DEF AInv

\* With one server an attachment to a volume whose name no rename has touched
\* is that of the instance of the name.
LEMMA JoinKeys ==
    ASSUME SInv, OneServer, NEW j \in joins, vol[j.vol].key \notin Renamed
    PROVE  /\ j \in Join /\ Live(j.inst) /\ LiveVol(j.vol) /\ vol[j.vol].dev = j.dev
           /\ vol[j.vol].key \in Keys /\ inst[j.inst].key = vol[j.vol].key
<1>1. /\ j \in Join /\ Live(j.inst) /\ LiveVol(j.vol) /\ vol[j.vol].dev = j.dev
      /\ vol[j.vol].key[2] \in Called(j.inst)
  BY DEF SInv, IInv, TypeOK, DbInv, JoinIntegrity
<1>2. vol[j.vol].key \in Keys
  BY <1>1 DEF SInv, IInv, DbInv, VolumesNamed, LiveVol, Join
<1>3. vol[j.vol].key \in inst[j.inst].names
  <2>1. PICK k \in inst[j.inst].names : vol[j.vol].key[2] = k[2]
    BY <1>1 DEF Called
  <2>2. k \in Keys
    BY <1>1, <2>1 DEF SInv, IInv, TypeOK, Row, Join
  <2>3. QED
    BY <1>2, <2>1, <2>2 DEF OneServer, Keys
<1>4. inst[j.inst].names = {vol[j.vol].key}
  BY <1>1, <1>3 DEF Renamed, Join, SInv, IInv, TypeOK, Row
<1>5. inst[j.inst].key = vol[j.vol].key
  BY <1>1, <1>4 DEF SInv, IInv, DbInv, UniqueKeys, Join
<1>6. QED
  BY <1>1, <1>2, <1>5

\* No step removes such an attachment but the Delete of its instance.
LEMMA JoinsKept ==
    ASSUME NEW q \in Procs, BInv(q), OneServer, Serves(q), NEW j \in joins,
           vol[j.vol].key \notin Renamed, j \notin joins'
    PROVE  DeleteRow(q) /\ j.inst = req[q].id
<1> DEFINE r == req[q]
<1>0. j \in Join /\ Live(j.inst) /\ inst[j.inst].key = vol[j.vol].key
  BY JoinKeys DEF BInv, AInv
<1>1. CASE UnrecordVolume(q)
  <2>1. r.pc = "volUnrecord" /\ j.vol = r.vid
    BY <1>1 DEF UnrecordVolume, At, DeleteVolumeRow
  <2>2. QED
    BY <2>1 DEF BInv, VolumeInv, NewVolume
<1>2. CASE DeleteVolumeRecord(q)
  <2>1. r.pc = "delRec" /\ j.vol = r.vid
    BY <1>2 DEF DeleteVolumeRecord, At, DeleteVolumeRow
  <2>2. vol[j.vol].key = r.key /\ r.key \in Keys /\ r.op = "Delete"
    BY <2>1, OwnVolume, Underway DEF InPlace, Places, AllOps, OldVolume, Moves, MoveLabels
  <2>3. inst[j.inst].key # r.key
    BY <1>0, <2>1, <2>2 DEF BInv, AInv, RowInv, RowGone, Join
  <2>4. QED
    BY <1>0, <2>2, <2>3
<1>3. CASE DeleteRow(q)
  BY <1>3 DEF DeleteRow
<1>4. CASE ~(UnrecordVolume(q) \/ DeleteVolumeRecord(q) \/ DeleteRow(q))
  BY <1>4 DEF Serves, BeginCreate, BeginOn, InsertRow, CreateContainer, StartContainer,
     CreateVolume, AttachNewVolume, RemoveNewVolume, JoinNewVolume, JoinFoundVolume,
     FinalizeRunning, FinalizeError, StartRequested, StopRequested, StatusWritten,
     ListVolumes, ProbeContainer, StopIgnored, RemoveContainer, Reattach, DeleteVolume,
     Return, RecordVolume, FindVolume, DetachVolume, LookUpListed, db, InsertJoin
<1>5. QED
  BY <1>1, <1>2, <1>3, <1>4

LEMMA BookHomes ==
    ASSUME NEW q \in Procs, BInv(q), OneServer, Serves(q), Renamed' = Renamed,
           req[q].pc # "idle", NEW k, k = req[q].key
    PROVE  Book!KeepHomes(k)
<1> DEFINE r == req[q]
<1>0. Begin(q) \/ Step(q)
  BY ServedIs DEF BInv, AInv
<1>1. SInv /\ SInv' /\ Elsewhere(q) /\ IdsKept
  BY <1>0, StepSInv, StepElsewhere, StepDb DEF BInv, AInv, SInv
<1>2. /\ k \in Keys \ Renamed /\ Reach(q) = {k}
      /\ r.id # None => r.id \in Ids /\ (Live(r.id) => inst[r.id].key = k)
  BY <1>1, PlainRow DEF BInv, AInv, Reach
<1>3. ASSUME NEW x \in Homes \ Homes' PROVE x[1] = k /\ ~Book!Exists(k)'
  <2>1. PICK j \in joins : x = <<vol[j.vol].key, j.dev>> /\ x \in store /\ x[1] \notin Renamed
    BY <1>3 DEF Homes
  <2>2. vol[j.vol].key \notin Renamed
    BY <2>1
  <2>3. x \in store'
    BY <2>1, <2>2, StepSurvive
  <2>4. /\ j \in Join /\ Live(j.inst) /\ vol[j.vol].key = inst[j.inst].key
        /\ vol'[j.vol].key = vol[j.vol].key
    BY <1>1, <2>1, <2>2, JoinKeys DEF IdsKept, Join, LiveVol
  <2>5. j \notin joins'
    BY <1>3, <2>1, <2>3, <2>4 DEF Homes
  <2>6. DeleteRow(q) /\ j.inst = r.id
    BY <2>1, <2>2, <2>5, JoinsKept
  <2>7. x[1] = k
    BY <1>2, <2>1, <2>4, <2>6, NoneIsNothing DEF Join
  <2>8. r.op = "Delete" /\ Goes(q, "delContainer")
    <3>1. TypeOK /\ r.pc = "delRow" /\ Goto(q, "delContainer")
      BY <1>1, <2>6 DEF DeleteRow, At, SInv, IInv
    <3>2. QED
      BY <3>1, ControlMoves, Underway DEF InPlace, Places, AllOps, Moves, MoveLabels
  <2>9. \A i \in Ids : Live(i)' => inst'[i].key # k
    BY <2>8, StepRow DEF BInv, RowInv, RowGone, Goes, Same
  <2>10. TypeOK'
    BY <1>1 DEF SInv, IInv
  <2>11. QED
    BY <1>2, <2>7, <2>9, <2>10, BookTermsNext
<1>4. ASSUME NEW x \in Homes' \ Homes PROVE x[1] = k
  <2>1. PICK j \in joins' : x = <<vol'[j.vol].key, j.dev>> /\ x \in store' /\ x[1] \notin Renamed
    BY <1>4 DEF Homes
  <2>2. /\ j \in Join /\ LiveVol(j.vol)' /\ vol'[j.vol].key[2] \in Called(j.inst)'
        /\ vol'[j.vol].key \in Keys /\ x \in Keys \X Devs
    BY <1>1, <2>1 DEF SInv, IInv, TypeOK, DbInv, JoinIntegrity, VolumesNamed, Join, LiveVol
  <2>3. CASE j \in joins
    <3>1. vol'[j.vol].key = vol[j.vol].key
      BY <1>1, <2>2, <2>3 DEF IdsKept, SInv, IInv, DbInv, JoinIntegrity, Join, LiveVol
    <3>2. x \notin store
      BY <1>4, <2>1, <2>3, <3>1 DEF Homes
    <3>3. QED
      BY <1>1, <1>2, <2>1, <2>2, <3>2 DEF Elsewhere, IncusElsewhere
  <2>4. CASE j \notin joins
    <3>1. j.inst = r.id
      BY <1>1, <2>1, <2>4 DEF Elsewhere, JoinsElsewhere
    <3>2. inst'[j.inst].names \subseteq {k}
      BY <1>0, <1>1, <1>2, <2>2, <3>1, OwnReach, NoneIsNothing DEF Join
    <3>3. vol'[j.vol].key[2] = k[2]
      BY <2>2, <3>2 DEF Called
    <3>4. QED
      BY <1>2, <2>1, <2>2, <3>3 DEF OneServer, Keys
  <2>5. QED
    BY <2>3, <2>4
<1>5. QED
  BY <1>3, <1>4 DEF Book!KeepHomes, Homes

\* At the end of a request nothing is in doubt about its rows any more.
LEMMA BookTruth ==
    ASSUME SInv, Apart, NEW q \in Procs, Step(q), Ends(q), AllTruth', CreatingIsUnderway',
           NEW k \in Keys \ Renamed', k = req[q].key
    PROVE  Book!Truthful(k)'
<1>1. SInv' /\ Elsewhere(q) /\ req'[q] = Idle /\ k # None
  BY StepSInv, StepElsewhere, NoneIsNothing DEF Ends
<1>2. \A p \in Procs : p # q => req'[p].key # k
  BY <1>1 DEF Apart, Elsewhere, OthersAsTheyWere
<1>3. ASSUME NEW i \in Ids, inst'[i].key = k
      PROVE  /\ inst'[i].status # "creating"
             /\ inst'[i].status = "running" => cont'[k] = "running"
             /\ inst'[i].status = "stopped" => cont'[k] = "stopped"
  <2>1. ASSUME inst'[i].status = "creating" PROVE FALSE
    <3>1. PICK p \in Procs : Decides(req'[p], i)
      BY <2>1 DEF CreatingIsUnderway
    <3>2. p # q
      BY <1>1, <3>1, IdleIs DEF Decides
    <3>3. req'[p].key \in inst'[i].names
      BY <1>1, <3>1, NoneIsNothing DEF Decides, SInv, IInv, MemoryHolds, Knows, Remembers
    <3>4. k \in inst'[i].names
      BY <1>1, <1>3, <2>1 DEF SInv, IInv, DbInv, UniqueKeys, Live, Statuses
    <3>5. req'[p].key = k
      BY <3>3, <3>4 DEF Renamed
    <3>6. QED
      BY <1>2, <3>2, <3>5
  <2>2. ~Doubted(inst[i].key)'
    BY <1>1, <1>2, <1>3, IdleIs DEF Doubted, InDoubt
  <2>3. TruthAt(Renamed, i)'
    BY <2>2 DEF AllTruth
  <2>4. QED
    BY <1>3, <2>1, <2>3 DEF TruthAt
<1>4. QED
  BY <1>1, <1>3 DEF Book!Truthful, Off

\* What a request gives up when it touches a name for the first time, and what
\* one on a touched name does: all of it is off the book.
LEMMA BookRows ==
    ASSUME SInv, FreshKeys, NEW q \in Procs, Begin(q) \/ Step(q), Strays(q), NEW i \in Ids
    PROVE  \/ inst'[i].status = inst[i].status /\ inst'[i].key = inst[i].key
           \/ Live(i) /\ inst[i].key \in Renamed' /\ inst'[i].key \in Renamed'
           \/ inst[i].status = "unused" /\ inst'[i].key \in Renamed'
<1>0. TypeOK
  BY DEF SInv, IInv
<1>1. /\ Live(i)' /\ inst'[i].key \notin Renamed' => inst'[i] = inst[i]
      /\ Live(i) /\ inst[i].key \notin Renamed' => inst'[i] = inst[i]
  BY OutOfReach
<1>2. CASE UNCHANGED inst
  BY <1>2
<1>3. ASSUME NEW l \in Ids, NEW s \in {"creating", "running"},
             inst' = [inst EXCEPT ![l] = [status |-> s, key |-> req[q].key,
                                          volume |-> req[q].first, names |-> {req[q].key}]],
             inst[l].status = "unused"
      PROVE  \/ inst'[i].status = inst[i].status /\ inst'[i].key = inst[i].key
             \/ inst[i].status = "unused" /\ inst'[i].key \in Renamed'
  BY <1>0, <1>3 DEF TypeOK, Strays
<1>4. ASSUME NEW s \in {"running", "stopped", "error"}, SetStatus(req[q].id, s)
      PROVE  inst'[i].key = inst[i].key /\ (Live(i) \/ inst'[i] = inst[i])
  BY <1>0, <1>4 DEF SetStatus, Live, TypeOK, Row
<1>5. CASE DeleteRow(q)
  <2>1. inst'[i].key = inst[i].key /\ (Live(i) \/ inst'[i].status = inst[i].status)
    BY <1>0, <1>5 DEF DeleteRow, Live, TypeOK, Row
  <2>2. QED
    BY <1>1, <2>1
<1>6. CASE \A l \in Ids : /\ inst'[l].status = inst[l].status
                          /\ ~Live(l) => inst'[l].key = inst[l].key
  <2>1. Live(i)' <=> Live(i)
    BY <1>6 DEF Live, Statuses
  <2>2. QED
    BY <1>1, <1>6, <2>1
<1>7. QED
  BY <1>1, <1>2, <1>3, <1>4, <1>5, <1>6, StepRows

\* The attachments of the other names stay.
LEMMA BookJoins ==
    ASSUME SInv, OneServer, NEW q \in Procs, Begin(q) \/ Step(q), Strays(q),
           NEW j \in joins, vol[j.vol].key \notin Renamed'
    PROVE  j \in joins'
<1> DEFINE r == req[q]
<1>1. SUFFICES ASSUME j \notin joins' PROVE FALSE
  OBVIOUS
<1>2. Renamed \subseteq Renamed' /\ Renamed' \subseteq Keys /\ Reach(q) \subseteq Renamed'
  BY StepRenamed DEF SInv, Strays, Reach, Renamed
<1>3. /\ j \in Join /\ Live(j.inst) /\ LiveVol(j.vol)
      /\ vol[j.vol].key \in Keys /\ inst[j.inst].key = vol[j.vol].key
  BY <1>2, JoinKeys
<1>4. \A k \in Renamed' : k[2] # vol[j.vol].key[2]
  BY <1>2, <1>3 DEF OneServer, Keys
<1>5. /\ r.key \in Renamed'
      /\ r.id # None => r.id \in Ids /\ inst[r.id].names \subseteq Renamed'
  BY <1>2, OwnReach DEF Strays
<1>6. \A n \in CalledBy(r) : n # vol[j.vol].key[2]
  BY <1>4, <1>5 DEF CalledBy, Called
<1>7. r.vid # None => r.vid # j.vol
  BY <1>6, Actor DEF SInv, Remembers, KnownVolume
<1>8. CASE UnrecordVolume(q) \/ DeleteVolumeRecord(q)
  <2>1. r.pc \in {"volUnrecord", "delRec"} /\ j.vol = r.vid
    BY <1>1, <1>8 DEF UnrecordVolume, DeleteVolumeRecord, At, DeleteVolumeRow
  <2>2. r.vid # None
    BY <2>1, Actor, NoneIsNothing DEF SInv, Placed, WithVolume
  <2>3. QED
    BY <1>7, <2>1, <2>2
<1>9. CASE DeleteRow(q)
  <2>1. j.inst = r.id
    BY <1>1, <1>9 DEF DeleteRow
  <2>2. inst[j.inst].key \in inst[j.inst].names
    BY <1>3 DEF SInv, IInv, DbInv, UniqueKeys, Join
  <2>3. QED
    BY <1>3, <1>5, <2>1, <2>2, NoneIsNothing DEF Join
<1>10. CASE ~(UnrecordVolume(q) \/ DeleteVolumeRecord(q) \/ DeleteRow(q))
  BY <1>1, <1>10 DEF Begin, Step, BeginCreate, BeginOn, BeginMove, InsertRow, CreateContainer,
     StartContainer, CreateVolume, AttachNewVolume, RemoveNewVolume, JoinNewVolume,
     JoinFoundVolume, FinalizeRunning, FinalizeError, StartRequested, StopRequested,
     StatusWritten, ListVolumes, ProbeContainer, StopIgnored, RemoveContainer, Reattach,
     DeleteVolume, Return, RecordVolume, FindVolume, DetachVolume, LookUpListed, CheckName,
     MoveContainer, RecordName, UndoMove, db, InsertJoin
<1>11. QED
  BY <1>8, <1>9, <1>10

LEMMA BookGiveUp ==
    ASSUME SInv, OneServer, FreshKeys, NEW q \in Procs, Step(q), Strays(q)
    PROVE  \E ks \in SUBSET Keys : Book!GiveUp(ks)
<1> DEFINE r == req[q]
<1>1. /\ SInv' /\ Elsewhere(q) /\ IdsKept /\ TypeOK
      /\ Renamed \subseteq Renamed' /\ Renamed' \subseteq Keys /\ Renamed \subseteq Keys
  BY StepSInv, StepElsewhere, StepDb, StepRenamed DEF SInv, IInv, Renamed
<1>2. ASSUME NEW i \in Ids
      PROVE  \/ /\ (IF Off(i) THEN None ELSE inst[i].key) \in Renamed' \ Renamed
                   \/ (IF Off(i) THEN "off" ELSE inst[i].status) = "unused"
                /\ Off(i)'
             \/ /\ (IF Off(i) THEN None ELSE inst[i].key) \notin Renamed' \ Renamed
                /\ Off(i)' <=> Off(i)
                /\ ~Off(i) => inst'[i].status = inst[i].status /\ inst'[i].key = inst[i].key
  <2>1. None \notin Renamed'
    BY <1>1, NoneIsNothing
  <2>2. CASE inst'[i].status = inst[i].status /\ inst'[i].key = inst[i].key
    BY <1>1, <2>1, <2>2 DEF Off
  <2>3. CASE Live(i) /\ inst[i].key \in Renamed' /\ inst'[i].key \in Renamed'
    BY <1>1, <2>1, <2>3 DEF Off
  <2>4. CASE inst[i].status = "unused" /\ inst'[i].key \in Renamed'
    <3>1. ~Off(i)
      BY <1>1, <2>1, <2>4 DEF Off, FreshKeys
    <3>2. QED
      BY <2>4, <3>1 DEF Off
  <2>5. QED
    BY <2>2, <2>3, <2>4, BookRows
<1>3. \A k \in Keys \ Renamed' : cont'[k] = cont[k]
  BY OutOfReach
<1>4. Homes' = {x \in Homes : x[1] \notin Renamed' \ Renamed}
  <2>1. store \subseteq Keys \X Devs /\ store' \subseteq Keys \X Devs
    BY <1>1 DEF SInv, IInv, TypeOK
  <2>2. ASSUME NEW x \in Homes' PROVE x \in Homes /\ x[1] \notin Renamed'
    <3>1. PICK j \in joins' : x = <<vol'[j.vol].key, j.dev>> /\ x \in store' /\ x[1] \notin Renamed'
      BY <2>2 DEF Homes
    <3>2. x \in store
      BY <2>1, <3>1, OutOfReach
    <3>3. vol'[j.vol].key \in Keys /\ vol'[j.vol].key \notin Renamed'
      BY <2>1, <3>1
    <3>4. vol'[j.vol].key[2] \notin {k[2] : k \in Renamed'}
      BY <1>1, <3>3 DEF OneServer, Keys
    <3>5. j \in joins
      BY <3>1, <3>4, OutOfReach
    <3>6. vol'[j.vol].key = vol[j.vol].key
      BY <1>1, <3>5 DEF IdsKept, SInv, IInv, TypeOK, DbInv, JoinIntegrity, Join, LiveVol
    <3>7. QED
      BY <1>1, <3>1, <3>2, <3>5, <3>6 DEF Homes
  <2>3. ASSUME NEW x \in Homes, x[1] \notin Renamed' PROVE x \in Homes'
    <3>1. PICK j \in joins : x = <<vol[j.vol].key, j.dev>> /\ x \in store
      BY <2>3 DEF Homes
    <3>2. x \in store'
      BY <2>1, <2>3, <3>1, OutOfReach
    <3>3. j \in joins'
      BY <2>3, <3>1, BookJoins
    <3>4. vol'[j.vol].key = vol[j.vol].key
      BY <1>1, <3>1 DEF IdsKept, SInv, IInv, TypeOK, DbInv, JoinIntegrity, Join, LiveVol
    <3>5. QED
      BY <2>3, <3>1, <3>2, <3>3, <3>4 DEF Homes
  <2>4. \A x \in Homes : x[1] \notin Renamed
    BY DEF Homes
  <2>5. QED
    BY <2>2, <2>3, <2>4
<1>5. Held' = Held \ (Renamed' \ Renamed)
  <2>1. \A p \in Procs : p # q => req'[p] = req[p]
    BY <1>1 DEF Elsewhere, OthersAsTheyWere
  <2>2. r.key \in Renamed'
    BY DEF Strays
  <2>3. req'[q].pc = "idle" \/ req'[q].key \in Renamed'
    <3>1. CASE Ends(q)
      BY <3>1, IdleIs DEF Ends
    <3>2. CASE GoesOn(q)
      <4>1. r.pc = "record" => r.to \in Renamed
        BY Actor, MoversRenamed DEF SInv, Placed
      <4>2. QED
        BY <1>1, <2>2, <3>2, <4>1 DEF GoesOn
    <3>3. QED
      BY <3>1, <3>2, StepGoesOn
  <2>4. Held' \subseteq Held \ (Renamed' \ Renamed)
    BY <1>1, <2>1, <2>3 DEF Held, At
  <2>5. Held \ (Renamed' \ Renamed) \subseteq Held'
    BY <1>1, <2>1, <2>2 DEF Held, At
  <2>6. QED
    BY <2>4, <2>5
<1>6. PICK ks \in SUBSET Keys : ks = Renamed' \ Renamed
  BY <1>1
<1>7. Book!GiveUp(ks)
  BY <1>1, <1>2, <1>3, <1>4, <1>5, <1>6 DEF Book!GiveUp, Homes, Held
<1>8. QED
  BY <1>7

\* Requests that keep apart keep the book: whatever calls of Incus fail, each
\* of them takes an instance, touches nothing else, and leaves it with a
\* status that is true, decided, and with its homes unless it is gone; and a
\* rename or a transfer, to any name, takes no more off the book than the names
\* it turns from and to, and no later request on these names anything else.  On
\* one server, which does not crash, and with containers that can be deleted
\* once they are stopped.
THEOREM TheBookIsKept ==
    ASSUME OneServer, MaxCrashes = 0, "DeleteInstance" \notin Faults
    PROVE  Spec /\ []Apart => KeepsBook
<1> DEFINE Inv == VolsInv /\ AllTruth /\ CreatingIsUnderway /\ FreshKeys
<1>1. Init => Inv
  BY InitRowsInv, InitTruth, InitUnderway, BookInit
<1>2. Inv /\ Apart /\ [Next]_vars => Inv'
  <2>1. SUFFICES ASSUME Inv, Apart, [Next]_vars PROVE Inv'
    OBVIOUS
  <2>2. VolsInv'
    BY <2>1, NextVolsInv
  <2>3. CASE \E q \in Procs : Begin(q) \/ Step(q)
    BY <2>1, <2>2, <2>3, NextTruth, NextUnderway, NextFresh DEF VolsInv, RowsInv
  <2>4. CASE Crash
    BY <2>1, <2>4 DEF Crash, VolsInv, RowsInv, SInv, IInv, TypeOK
  <2>5. CASE UNCHANGED vars
    <3>1. \A p \in Procs : Plain(req[p])' <=> Plain(req[p])
      BY <2>5 DEF vars, Plain, Renamed
    <3>2. \A i \in Ids : TruthAt(Renamed, i) => TruthAt(Renamed, i)'
      BY <2>5 DEF vars, TruthAt, Renamed
    <3>3. AllTruth'
      BY <2>1, <2>5, <3>1, <3>2 DEF vars, AllTruth, TruthOwn, Doubted, InDoubt, Started
    <3>4. CreatingIsUnderway' /\ FreshKeys'
      BY <2>1, <2>5 DEF vars, CreatingIsUnderway, FreshKeys
    <3>5. QED
      BY <2>2, <3>3, <3>4
  <2>6. QED
    BY <2>1, <2>3, <2>4, <2>5 DEF Next
<1>3. Inv /\ Inv' /\ Apart /\ Apart' /\ [Next]_vars => [Book!Next]_(Book!vars)
  <2>1. SUFFICES ASSUME Inv, Inv', Apart, Apart', [Next]_vars PROVE [Book!Next]_(Book!vars)
    OBVIOUS
  <2>2. SInv
    BY <2>1 DEF VolsInv, RowsInv
  <2>3. ASSUME UNCHANGED <<db, incus>>, Renamed' = Renamed, Held' = Held
        PROVE  UNCHANGED Book!vars
    BY <2>3 DEF Book!vars, Held, Off, db, incus
  <2>4. ASSUME NEW q \in Procs, Begin(q) PROVE [Book!Next]_(Book!vars)
    <3>1. UNCHANGED <<db, incus>>
      BY <2>4, IdleSteps DEF Begin, BeginCreate, BeginOn, BeginMove, At
    <3>2. Renamed' = Renamed
      BY <3>1 DEF Renamed, db
    <3>3. (\E k \in Keys : Book!Take(k)) \/ Held' = Held
      BY <2>1, <2>2, <2>4, <3>2, BookTake
    <3>4. QED
      BY <2>3, <3>1, <3>2, <3>3 DEF Book!Next
  <2>5. ASSUME NEW q \in Procs, Step(q), Serves(q), Plain(req[q]), Renamed' = Renamed
        PROVE  Book!Next
    <3>1. SInv /\ AInv(q) /\ BInv(q) /\ req[q].pc # "idle" /\ req[q].pc # "record"
      <4>1. AInv(q) /\ BInv(q) /\ req[q].pc # "idle"
        BY <2>1, <2>5, StepGoesOn DEF VolsInv, RowsInv, AInv, BInv
      <4>2. req[q].op \notin Moves
        BY <2>2, <2>5, ServedIs DEF Served, Moves
      <4>3. QED
        BY <2>2, <4>1, <4>2, Actor DEF Placed, SInv
    <3>2. PICK k \in Keys \ Renamed : k = req[q].key
      BY <3>1, PlainRow DEF AInv
    <3>3. Book!Live(k)
      BY <2>1, <2>5, <3>1, <3>2, BookLive
    <3>4. \A j \in Keys \ {k} : cont'[j] = cont[j]
      <4>1. Reach(q) = {k}
        BY <2>5, <3>2 DEF Reach
      <4>2. QED
        BY <2>5, <3>1, <4>1, StepElsewhere DEF Elsewhere, IncusElsewhere
    <3>5. Book!KeepHomes(k)
      BY <2>5, <3>1, <3>2, BookHomes
    <3>6. /\ k \in Held
          /\ Held' = Held \/ (Ends(q) /\ Held' = Held \ {k})
      BY <2>1, <2>5, <3>1, <3>2, BookHeld
    <3>7. Ends(q) => Book!Truthful(k)'
      BY <2>1, <2>5, <3>1, <3>2, BookTruth
    <3>8. Book!Work(k)
      BY <2>5, <3>3, <3>4, <3>5, <3>6, <3>7 DEF Book!Work, Held
    <3>9. QED
      BY <3>8 DEF Book!Next
  <2>6. ASSUME NEW q \in Procs, Step(q), Stands(q) PROVE [Book!Next]_(Book!vars)
    <3>1. UNCHANGED <<db, incus>> /\ Renamed' = Renamed /\ req[q].pc = "check"
      BY <2>2, <2>6, StepGoesOn DEF Stands
    <3>2. /\ req[q].key \in Keys
          /\ req[q].key \notin Renamed => req[q].key \in Held
          /\ Held' = Held \/ (Ends(q) /\ Held' = Held \ {req[q].key})
      BY <2>1, <2>2, <2>6, <3>1, BookHeld
    <3>3. CASE Held' = Held
      BY <2>3, <3>1, <3>3
    <3>4. CASE req[q].key \in Renamed /\ Held' = Held \ {req[q].key}
      <4>1. Held' = Held
        BY <3>4 DEF Held
      <4>2. QED
        BY <2>3, <3>1, <4>1
    <3>5. CASE req[q].key \notin Renamed /\ Ends(q) /\ Held' = Held \ {req[q].key}
      <4>1. PICK k \in Keys \ Renamed : k = req[q].key
        BY <3>2, <3>5
      <4>2. Book!Truthful(k)'
        BY <2>1, <2>2, <2>6, <3>1, <3>5, <4>1, BookTruth
      <4>3. Book!Live(k)
        BY <3>1 DEF Book!Live, Off, db
      <4>4. Book!KeepHomes(k)
        BY <3>1 DEF Book!KeepHomes, db, incus
      <4>5. \A j \in Keys : cont'[j] = cont[j]
        BY <3>1 DEF incus
      <4>6. Book!Work(k)
        BY <3>1, <3>2, <3>5, <4>1, <4>2, <4>3, <4>4, <4>5 DEF Book!Work, Held
      <4>7. QED
        BY <4>6 DEF Book!Next
    <3>6. QED
      BY <3>2, <3>3, <3>4, <3>5
  <2>7. ASSUME NEW q \in Procs, Step(q), Strays(q) PROVE Book!Next
    BY <2>1, <2>2, <2>7, BookGiveUp DEF Book!Next
  <2>8. CASE \E q \in Procs : Begin(q) \/ Step(q)
    BY <2>2, <2>4, <2>5, <2>6, <2>7, <2>8, Kinds
  <2>9. CASE Crash
    BY <2>1, <2>9 DEF Crash, VolsInv, RowsInv, SInv, IInv, TypeOK
  <2>10. CASE UNCHANGED vars
    BY <2>10 DEF vars, Book!vars, At, Off, Renamed
  <2>11. QED
    BY <2>1, <2>8, <2>9, <2>10 DEF Next
<1>4. QED
  BY <1>1, <1>2, <1>3, BookInit, PTL DEF Spec, Book!Spec, KeepsBook
=============================================================================
