---------------------------- MODULE KeyRingProofs ----------------------------
(***************************************************************************)
(* Theorems about KeyRing, for any users, keys, requests in flight, kinds  *)
(* of request and faults.                                                  *)
(***************************************************************************)
EXTENDS KeyRing, TLAPS

\* Rows have the users that their tables give them, and a user with an
\* instance is never deleted.
RowsProper ==
    /\ \A k \in Keys : ring[k].state = "unused" => ring[k].user = None
    /\ \A k \in UserKeys : ring[k].user \in Holders \cup {None}
    /\ \A k \in PubKeys \cup UserKeys : ring[k].state # "unused" => ring[k].user # None
    /\ \A m \in Managed : ring[m].user = None
    /\ Owners \subseteq users
TablesTyped ==
    /\ users \subseteq Users
    /\ ring \in [Keys -> Row]
    /\ assigned \subseteq Managed \X Users
    /\ \A a \in assigned : ring[a[1]].state = "live" /\ a[2] \in users
    /\ \A k \in Keys : ring[k].state = "live" => ring[k].user \in users \cup {None}
ReqTyped == req \in [Procs -> Request]
RestTyped ==
    /\ disk \in [Dirs -> Keys \cup {None}]
    /\ authorized \in [Owners -> SUBSET Keys]
    /\ idrsa \in [Owners -> Keys \cup {None}]
    /\ made \in 0..MaxRequests
    /\ intended \in [Managed -> SUBSET Users]
    /\ opened \subseteq Managed \X Owners
    /\ invited \subseteq Owners \X PubKeys
    /\ late \subseteq Holders

LEMMA TypeParts == TypeOK <=> TablesTyped /\ ReqTyped /\ RestTyped
BY DEF TypeOK, TablesTyped, ReqTyped, RestTyped
LEMMA TypePartsNext == ASSUME TablesTyped', ReqTyped', RestTyped' PROVE TypeOK'
BY DEF TypeOK, TablesTyped, ReqTyped, RestTyped

\* What an owner may have in the container: privately, a pair of theirs or a
\* managed key once meant for them; publicly, that, their own or an
\* administrator's.
Private(o, k) ==
    \/ k \in UserKeys /\ ring[k].user = o
    \/ k \in Managed /\ <<k, o>> \in opened
Granted(o, k) == Private(o, k) \/ (k \in PubKeys /\ ring[k].user \in Admins \cup {o})

\* What a request carries, by what it is to do.
Proper(r) ==
    /\ r.op = "GenerateUserKey" => r.user \in Holders /\ r.key \in UserKeys /\ ring[r.key].user = r.user
    /\ r.op = "DeleteUserKey" => r.user \in Holders
    /\ r.op \in {"Generate", "Delete", "SetUsers"} => r.key \in Managed
    /\ r.op \in {"ReapplySetup", "Rebuild"} =>
         /\ r.user \in Owners
         /\ \A k \in r.pub : Granted(r.user, k)
         /\ \A k \in r.todo \cup r.priv : Private(r.user, k)
         /\ r.pc = "readPairs" => r.todo \subseteq UserKeys
         /\ r.pc = "readManaged" => r.todo \subseteq Managed
    /\ r.op = "AddAuthorizedKey" =>
         /\ r.user \in Owners /\ r.key \in PubKeys
         /\ r.set \subseteq Admins \/ ring[r.key].user \in Admins \cup {r.user}
RequestsProper == \A p \in Procs : Proper(req[p])

\* The assignments are those intended, among the users there are.
AsIntended ==
    \A m \in Managed :
      /\ Live(m) => \A u \in users : <<m, u>> \in assigned <=> u \in intended[m]
      /\ ring[m].state = "unused" => intended[m] = {}
\* Whose keys the directories hold, registered or not.
DiskOwn ==
    /\ \A u \in Holders : disk[u] = None \/ (disk[u] \in UserKeys /\ ring[disk[u]].user = u)
    /\ \A m \in Managed : disk[m] \in {None, m}
MeantOpened == Meant(users, LiveManaged, intended) \subseteq opened

Core == TypeOK /\ RowsProper /\ RequestsProper /\ AsIntended /\ DiskOwn /\ MeantOpened

LEMMA Sets ==
    /\ Admins \subseteq Users /\ Owners \subseteq Users /\ Assignees \subseteq Users /\ Holders \subseteq Users
    /\ PubKeys \cap UserKeys = {} /\ PubKeys \cap Managed = {} /\ UserKeys \cap Managed = {}
    /\ Users \cap Managed = {} /\ None \notin Keys /\ None \notin Users /\ MaxRequests \in Nat
    /\ PubKeys \subseteq Keys /\ UserKeys \subseteq Keys /\ Managed \subseteq Keys
BY KeysAssumption, OpsAssumption DEF Keys

-----------------------------------------------------------------------------
(* The tables.                                                             *)

LEMMA InsertTables ==
    ASSUME TablesTyped, RowsProper, NEW k \in Keys, NEW u \in users \cup {None}, Insert(k, u),
           UNCHANGED <<users, assigned>>,
           k \in UserKeys => u \in Holders, k \in Managed <=> u = None
    PROVE  TablesTyped' /\ RowsProper'
<1>1. [state |-> "live", user |-> u] \in Row
  BY DEF TablesTyped, Row
<1>2. ring' \in [Keys -> Row]
  BY <1>1 DEF TablesTyped, Insert
<1>3. \A x \in Keys : ring'[x] = IF x = k THEN [state |-> "live", user |-> u] ELSE ring[x]
  BY DEF TablesTyped, Insert
<1>4. \A a \in assigned : a[1] # k /\ a[1] \in Keys
  BY Sets DEF TablesTyped, Insert
<1>5. TablesTyped'
  BY <1>2, <1>3, <1>4 DEF TablesTyped
<1>6. RowsProper'
  BY <1>3, Sets DEF RowsProper
<1>7. QED
  BY <1>5, <1>6

\* Rows that are deleted keep their user, and no assignment is left to them.
LEMMA DeleteTables ==
    ASSUME TablesTyped, RowsProper, ring' \in [Keys -> Row],
           \A k \in Keys : ring'[k].user = ring[k].user
                           /\ (ring'[k].state = ring[k].state \/ (Live(k) /\ ring'[k].state = "deleted")),
           users' \subseteq users, assigned' \subseteq assigned, Owners \subseteq users',
           \A k \in Keys : ring'[k].state = "live" => ring[k].user \in users' \cup {None},
           \A a \in assigned' : ring'[a[1]].state = "live" /\ a[2] \in users'
    PROVE  TablesTyped' /\ RowsProper'
<1>1. TablesTyped'
  BY DEF TablesTyped
<1>2. RowsProper'
  BY Sets DEF RowsProper, Live
<1>3. QED
  BY <1>1, <1>2

LEMMA DeletedRow ==
    ASSUME TablesTyped, NEW k \in Keys, ring' = ring \/ ring' = [ring EXCEPT ![k].state = "deleted"]
    PROVE  /\ ring' \in [Keys -> Row]
           /\ \A l \in Keys : /\ ring'[l].user = ring[l].user
                              /\ l # k => ring'[l] = ring[l]
                              /\ ring'[l].state \in {ring[l].state, "deleted"}
BY DEF TablesTyped, Row

LEMMA OwnedTables ==
    ASSUME TablesTyped, RowsProper, NEW k \in PubKeys \cup UserKeys, NEW u, DeleteOwned(k, u),
           UNCHANGED <<users, assigned>>
    PROVE  TablesTyped' /\ RowsProper'
<1>1. k \in Keys /\ k \notin Managed
  BY Sets
<1>2. ring' = ring \/ (Live(k) /\ ring' = [ring EXCEPT ![k].state = "deleted"])
  BY DEF DeleteOwned
<1>3. \A a \in assigned : a[1] \in Managed
  BY DEF TablesTyped
<1>4. /\ ring' \in [Keys -> Row]
      /\ \A l \in Keys : /\ ring'[l].user = ring[l].user
                         /\ l # k => ring'[l] = ring[l]
                         /\ ring'[l].state \in {ring[l].state, "deleted"}
  BY <1>1, <1>2, DeletedRow
<1>5. \A l \in Keys : ring'[l].state = ring[l].state \/ (Live(l) /\ ring'[l].state = "deleted")
  BY <1>2, <1>4
<1>6. \A a \in assigned : ring'[a[1]].state = "live" /\ a[2] \in users
  BY <1>1, <1>3, <1>4, Sets DEF TablesTyped
<1>7. \A l \in Keys : ring'[l].state = "live" => ring[l].user \in users \cup {None}
  BY <1>4, <1>5 DEF TablesTyped, Live
<1>8. Owners \subseteq users
  BY DEF RowsProper
<1>9. QED
  BY <1>4, <1>5, <1>6, <1>7, <1>8, DeleteTables

LEMMA ManagedTables ==
    ASSUME TablesTyped, RowsProper, NEW m \in Managed, DeleteManagedRow(m), UNCHANGED users
    PROVE  TablesTyped' /\ RowsProper'
<1>1. m \in Keys
  BY Sets
<1>2. /\ ring' = ring \/ ring' = [ring EXCEPT ![m].state = "deleted"]
      /\ assigned' \subseteq assigned /\ \A a \in assigned' : a[1] # m
      /\ ring' # ring => Live(m)
  BY DEF DeleteManagedRow
<1>3. /\ ring' \in [Keys -> Row]
      /\ \A l \in Keys : /\ ring'[l].user = ring[l].user
                         /\ l # m => ring'[l] = ring[l]
                         /\ ring'[l].state \in {ring[l].state, "deleted"}
  BY <1>1, <1>2, DeletedRow
<1>4. \A l \in Keys : ring'[l].state = ring[l].state \/ (Live(l) /\ ring'[l].state = "deleted")
  BY <1>2, <1>3
<1>5. \A a \in assigned' : a[1] \in Keys /\ ring'[a[1]].state = "live" /\ a[2] \in users
  BY <1>2, <1>3, Sets DEF TablesTyped
<1>6. \A l \in Keys : ring'[l].state = "live" => ring[l].user \in users \cup {None}
  BY <1>3, <1>4 DEF TablesTyped, Live
<1>7. Owners \subseteq users
  BY DEF RowsProper
<1>8. QED
  BY <1>2, <1>3, <1>4, <1>5, <1>6, <1>7, DeleteTables

LEMMA UserTables ==
    ASSUME TablesTyped, RowsProper, NEW u \in Users, DeleteUser(u)
    PROVE  TablesTyped' /\ RowsProper'
<1>1. /\ users' = users \ {u} /\ u \notin Owners
      /\ assigned' = {a \in assigned : a[2] # u}
  BY DEF DeleteUser
<1>2. ASSUME NEW k \in Keys
      PROVE  /\ ring'[k].user = ring[k].user /\ ring'[k] \in Row
             /\ ring'[k].state = IF Live(k) /\ ring[k].user = u THEN "deleted" ELSE ring[k].state
  <2>1. ring[k] \in Row
    BY DEF TablesTyped
  <2>2. ring'[k] = IF Live(k) /\ ring[k].user = u THEN [ring[k] EXCEPT !.state = "deleted"] ELSE ring[k]
    BY DEF DeleteUser
  <2>3. QED
    BY <2>1, <2>2 DEF Row
<1>3. ring' \in [Keys -> Row]
  BY <1>2 DEF DeleteUser
<1>4. \A k \in Keys : ring'[k].state = "live" => ring[k].user \in users' \cup {None}
  BY <1>1, <1>2 DEF TablesTyped, Live
<1>5. \A a \in assigned' : ring'[a[1]].state = "live" /\ a[2] \in users'
  <2>1. SUFFICES ASSUME NEW a \in assigned, a[2] # u PROVE ring'[a[1]].state = "live" /\ a[2] \in users \ {u}
    BY <1>1
  <2>2. a[1] \in Managed /\ a[1] \in Keys /\ ring[a[1]].state = "live" /\ a[2] \in users
    BY Sets DEF TablesTyped
  <2>3. ring[a[1]].user # u
    BY <2>2, Sets DEF RowsProper
  <2>4. QED
    BY <1>2, <2>1, <2>2, <2>3
<1>6. QED
  BY <1>1, <1>2, <1>3, <1>4, <1>5, DeleteTables DEF RowsProper

LEMMA AssignTables ==
    ASSUME TablesTyped, RowsProper, NEW m \in Managed, NEW S \in SUBSET Users,
           S = {} \/ (Live(m) /\ S \subseteq users), UNCHANGED <<users, ring>>,
           assigned' = {a \in assigned : a[1] # m} \cup {<<m, u>> : u \in S}
    PROVE  TablesTyped' /\ RowsProper'
<1>1. \A a \in assigned' : a \in Managed \X Users /\ ring[a[1]].state = "live" /\ a[2] \in users
  BY DEF TablesTyped, Live
<1>2. TablesTyped'
  BY <1>1 DEF TablesTyped
<1>3. QED
  BY <1>2 DEF RowsProper

-----------------------------------------------------------------------------
(* What every step keeps.                                                  *)

Kept ==
    /\ \A k \in Keys : ring[k].user # None => ring'[k].user = ring[k].user
    /\ opened \subseteq opened' /\ invited \subseteq invited'

LEMMA RequestOf ==
    ASSUME TypeOK, RequestsProper, NEW p \in Procs
    PROVE  req[p] \in Request /\ Proper(req[p])
BY DEF TypeOK, RequestsProper

\* The actions that change no table.
Quietly(p) ==
    \/ WriteUserFile(p) \/ RemoveUserDir(p) \/ WriteManagedFile(p) \/ RemoveManagedDir(p)
    \/ CollectPublic(p) \/ CollectPairs(p) \/ ReadPairs(p)
    \/ CollectManaged(p) \/ ReadManaged(p) \/ WriteKeys(p) \/ AppendKey(p)
    \/ \E m \in Managed, S \in SUBSET Assignees : SetManagedKeyUsers(p, m, S)
    \/ \E o \in Owners : ReapplySetup(p, o) \/ Rebuild(p, o)
    \/ \E o \in Owners, a \in Users, k \in PubKeys : AddAuthorizedKey(p, a, o, k)
LEMMA QuietTables ==
    ASSUME NEW p, Quietly(p)
    PROVE  UNCHANGED <<users, ring, assigned, opened, intended>> /\ invited \subseteq invited'
BY DEF Quietly, WriteUserFile, RemoveUserDir, WriteManagedFile, RemoveManagedDir, CollectPublic, CollectPairs,
       ReadPairs, CollectManaged, ReadManaged, WriteKeys, AppendKey, SetManagedKeyUsers, ReapplySetup, Rebuild,
       BeginCollect, AddAuthorizedKey, Collect, Read, tables, history

LEMMA Actions ==
    ASSUME Next
    PROVE  \/ \E u \in Users : CreateSSHKey(u) \/ DeleteUser(u)
           \/ \E u \in Users, k \in PubKeys : DeleteSSHKey(k, u)
           \/ \E p \in Procs :
                \/ Quietly(p) \/ ReplaceUsers(p) \/ GenerateManagedKey(p)
                \/ \E u \in Holders : GenerateUserKey(p, u)
                \/ \E u \in Holders, k \in UserKeys : DeleteUserKey(p, k, u)
                \/ \E m \in Managed : DeleteManagedKey(p, m)
           \/ UNCHANGED vars
BY DEF Next, Begin, Step, Quietly, Quiet

LEMMA SameTables ==
    ASSUME TablesTyped, RowsProper, UNCHANGED <<users, ring, assigned>> PROVE TablesTyped' /\ RowsProper'
BY DEF TablesTyped, RowsProper

LEMMA TablesNext ==
    ASSUME TypeOK, RowsProper, RequestsProper, [Next]_vars
    PROVE  TablesTyped' /\ RowsProper' /\ Kept
<1>1. TablesTyped /\ RowsProper
  BY TypeParts
<1>2. ASSUME NEW k \in Keys, NEW u \in users \cup {None}, Insert(k, u),
             UNCHANGED <<users, assigned, invited>>, opened \subseteq opened',
             k \in UserKeys => u \in Holders, k \in Managed <=> u = None
      PROVE  TablesTyped' /\ RowsProper' /\ Kept
  <2>1. TablesTyped' /\ RowsProper'
    BY <1>1, <1>2, InsertTables
  <2>2. ring[k].user = None /\ \A l \in Keys \ {k} : ring'[l] = ring[l]
    BY <1>1, <1>2 DEF Insert, RowsProper
  <2>3. QED
    BY <1>2, <2>1, <2>2 DEF Kept
<1>3. ASSUME NEW k \in PubKeys \cup UserKeys, NEW u, DeleteOwned(k, u), UNCHANGED <<users, assigned, opened, invited>>
      PROVE  TablesTyped' /\ RowsProper' /\ Kept
  <2>1. TablesTyped' /\ RowsProper'
    BY <1>1, <1>3, OwnedTables
  <2>2. \A l \in Keys : ring'[l].user = ring[l].user
    BY <1>1, <1>3, DeletedRow, Sets DEF DeleteOwned
  <2>3. QED
    BY <1>3, <2>1, <2>2 DEF Kept
<1>4. ASSUME UNCHANGED <<users, ring, assigned>>, opened \subseteq opened', invited \subseteq invited'
      PROVE  TablesTyped' /\ RowsProper' /\ Kept
  BY <1>1, <1>4, SameTables DEF Kept
<1>5. ASSUME NEW u \in Users, CreateSSHKey(u) \/ DeleteUser(u) PROVE TablesTyped' /\ RowsProper' /\ Kept
  <2>1. CASE CreateSSHKey(u)
    <3>1. PICK k \in PubKeys : Insert(k, u)
      BY <2>1 DEF CreateSSHKey
    <3>2. k \in Keys /\ k \notin UserKeys /\ k \notin Managed /\ u # None /\ u \in users
      BY <2>1, Sets DEF CreateSSHKey
    <3>3. UNCHANGED <<users, assigned, invited>> /\ opened \subseteq opened'
      BY <2>1 DEF CreateSSHKey, history
    <3>4. QED
      BY <1>2, <3>1, <3>2, <3>3
  <2>2. CASE DeleteUser(u)
    <3>1. \A k \in Keys : ring'[k].user = ring[k].user
      BY <1>1, <2>2 DEF DeleteUser, TablesTyped, Row
    <3>2. QED
      BY <1>1, <2>2, <3>1, UserTables DEF Kept, DeleteUser
  <2>3. QED
    BY <1>5, <2>1, <2>2
<1>6. ASSUME NEW u \in Users, NEW k \in PubKeys, DeleteSSHKey(k, u) PROVE TablesTyped' /\ RowsProper' /\ Kept
  BY <1>3, <1>6 DEF DeleteSSHKey, history
<1>7. ASSUME NEW p \in Procs, Quietly(p) PROVE TablesTyped' /\ RowsProper' /\ Kept
  BY <1>4, <1>7, QuietTables
<1>8. ASSUME NEW p \in Procs, ReplaceUsers(p) PROVE TablesTyped' /\ RowsProper' /\ Kept
  <2>1. req[p].key \in Managed /\ req[p].set \subseteq Users
    BY <1>8, RequestOf DEF ReplaceUsers, At, Proper, Request
  <2>2. UNCHANGED <<users, ring, invited>> /\ opened \subseteq opened'
    BY <1>8 DEF ReplaceUsers
  <2>3. \/ UNCHANGED assigned
        \/ /\ req[p].set = {} \/ (Live(req[p].key) /\ req[p].set \subseteq users)
           /\ assigned' = {a \in assigned : a[1] # req[p].key} \cup {<<req[p].key, u>> : u \in req[p].set}
    BY <1>8 DEF ReplaceUsers
  <2>4. TablesTyped' /\ RowsProper'
    BY <1>1, <2>1, <2>2, <2>3, SameTables, AssignTables
  <2>5. QED
    BY <2>2, <2>4 DEF Kept
<1>9. ASSUME NEW p \in Procs, GenerateManagedKey(p) PROVE TablesTyped' /\ RowsProper' /\ Kept
  <2>1. PICK m \in Managed : Insert(m, None) /\ opened \subseteq opened'
    BY <1>9 DEF GenerateManagedKey
  <2>2. m \in Keys /\ m \notin UserKeys
    BY Sets
  <2>3. UNCHANGED <<users, assigned, invited>>
    BY <1>9 DEF GenerateManagedKey
  <2>4. QED
    BY <1>2, <2>1, <2>2, <2>3
<1>10. ASSUME NEW p \in Procs, NEW u \in Holders, GenerateUserKey(p, u) PROVE TablesTyped' /\ RowsProper' /\ Kept
  <2>1. PICK k \in UserKeys : Insert(k, u)
    BY <1>10 DEF GenerateUserKey
  <2>2. k \in Keys /\ k \notin Managed /\ u # None /\ u \in users
    BY <1>10, Sets DEF GenerateUserKey
  <2>3. UNCHANGED <<users, assigned, invited>> /\ opened \subseteq opened'
    BY <1>10 DEF GenerateUserKey, history
  <2>4. QED
    BY <1>2, <2>1, <2>2, <2>3
<1>11. ASSUME NEW p \in Procs, NEW u \in Holders, NEW k \in UserKeys, DeleteUserKey(p, k, u)
       PROVE  TablesTyped' /\ RowsProper' /\ Kept
  BY <1>3, <1>11 DEF DeleteUserKey, history
<1>12. ASSUME NEW p \in Procs, NEW m \in Managed, DeleteManagedKey(p, m) PROVE TablesTyped' /\ RowsProper' /\ Kept
  <2>1. DeleteManagedRow(m) /\ UNCHANGED <<users, opened, invited>>
    BY <1>12 DEF DeleteManagedKey, history
  <2>2. \A l \in Keys : ring'[l].user = ring[l].user
    BY <1>1, <2>1, DeletedRow, Sets DEF DeleteManagedRow
  <2>3. QED
    BY <1>1, <2>1, <2>2, ManagedTables DEF Kept
<1>13. CASE UNCHANGED vars
  BY <1>4, <1>13 DEF vars
<1>14. QED
  BY <1>5, <1>6, <1>7, <1>8, <1>9, <1>10, <1>11, <1>12, <1>13, Actions

LEMMA GrantsStay ==
    ASSUME TypeOK, RowsProper, Kept, NEW o \in Users, NEW k
    PROVE  (Private(o, k) => Private(o, k)') /\ (Granted(o, k) => Granted(o, k)')
<1>1. Private(o, k) => Private(o, k)'
  BY Sets DEF Kept, Private
<1>2. k \in PubKeys /\ ring[k].user \in Admins \cup {o} => ring'[k].user = ring[k].user
  BY Sets DEF Kept
<1>3. QED
  BY <1>1, <1>2 DEF Granted

LEMMA ProperStays ==
    ASSUME TypeOK, RowsProper, Kept, NEW r \in Request, Proper(r) PROVE Proper(r)'
<1>1. r.op = "GenerateUserKey" => ring'[r.key].user = ring[r.key].user
  BY Sets DEF Kept, Proper
<1>2. r.op = "AddAuthorizedKey" =>
        r.set \subseteq Admins \/ ring'[r.key].user = ring[r.key].user
  BY Sets DEF Kept, Proper
<1>3. r.op \in {"ReapplySetup", "Rebuild"} =>
         /\ \A k \in r.pub : Granted(r.user, k)'
         /\ \A k \in r.todo \cup r.priv : Private(r.user, k)'
  BY GrantsStay, Sets DEF Proper
<1>4. QED
  BY <1>1, <1>2, <1>3 DEF Proper

-----------------------------------------------------------------------------
(* Requests.                                                               *)

LEMMA IntentionHolds == ASSUME TypeOK, AsIntended PROVE AvailabilityIsIntended
<1>1. SUFFICES ASSUME NEW m \in Managed, NEW u \in users, Available(m, u) PROVE MeantFor(m, u)
  BY DEF AvailabilityIsIntended
<1>2. Live(m) /\ users \subseteq Users
  BY <1>1 DEF Available, TypeOK
<1>3. QED
  BY <1>1, <1>2 DEF AsIntended, Available, MeantFor

LEMMA AvailableOpened ==
    ASSUME TypeOK, RowsProper, AsIntended, MeantOpened, NEW o \in Owners, NEW m \in Managed, Available(m, o)
    PROVE  <<m, o>> \in opened
<1>1. o \in users /\ Live(m)
  BY DEF RowsProper, Available
<1>2. MeantFor(m, o)
  BY <1>1, IntentionHolds DEF AvailabilityIsIntended
<1>3. <<m, o>> \in Meant(users, LiveManaged, intended)
  BY <1>1, <1>2 DEF MeantFor, Meant, LiveManaged
<1>4. QED
  BY <1>3 DEF MeantOpened

LEMMA NewRequest ==
    ASSUME TypeOK, RowsProper, RequestsProper, Kept, NEW p \in Procs,
           NEW r \in Request, Proper(r)', Becomes(p, r)
    PROVE  ReqTyped' /\ RequestsProper'
<1>1. req \in [Procs -> Request] /\ req' = [req EXCEPT ![p] = r]
  BY DEF TypeOK, Becomes
<1>2. \A q \in Procs \ {p} : req'[q] = req[q] /\ Proper(req[q])'
  BY <1>1, ProperStays DEF RequestsProper
<1>3. QED
  BY <1>1, <1>2 DEF ReqTyped, RequestsProper, Proper, Granted, Private
LEMMA NoRequest ==
    ASSUME TypeOK, RowsProper, RequestsProper, Kept, UNCHANGED req PROVE ReqTyped' /\ RequestsProper'
<1>1. \A q \in Procs : Proper(req[q])'
  BY ProperStays DEF RequestsProper, TypeOK
<1>2. QED
  BY <1>1 DEF ReqTyped, RequestsProper, Proper, Granted, Private, TypeOK

LEMMA IdleRequest == Idle \in Request
BY Sets DEF Idle, Request, Modes, Labels
LEMMA Ends ==
    ASSUME TypeOK, RowsProper, RequestsProper, Kept, NEW p \in Procs, Done(p)
    PROVE  ReqTyped' /\ RequestsProper'
<1>1. Proper(Idle)'
  BY DEF Proper, Idle
<1>2. QED
  BY <1>1, IdleRequest, NewRequest DEF Done

\* The stages in which the keys for a container are collected.
LEMMA Collected ==
    ASSUME Core, Kept, NEW p \in Procs,
           CollectPublic(p) \/ CollectPairs(p) \/ ReadPairs(p) \/ CollectManaged(p) \/ ReadManaged(p)
    PROVE  ReqTyped' /\ RequestsProper'
<1>3. PICK r \in Request : r = req[p]
  BY DEF Core, TypeOK
<1> DEFINE o == r.user
<1>1. /\ TypeOK /\ RowsProper /\ RequestsProper /\ AsIntended /\ DiskOwn /\ MeantOpened
      /\ r \in Request /\ Proper(r)
  BY <1>3, RequestOf DEF Core
<1>2. /\ r.op \in {"ReapplySetup", "Rebuild"} /\ o \in Owners /\ o \in Users
      /\ \A k \in r.pub : Granted(o, k)
      /\ \A k \in r.todo \cup r.priv : Private(o, k)
  BY <1>1, <1>3, Sets DEF Proper, CollectPublic, CollectPairs, ReadPairs, CollectManaged, ReadManaged, Collecting
<1>4. \A k : (Private(o, k) => Private(o, k)') /\ (Granted(o, k) => Granted(o, k)')
  BY <1>1, <1>2, GrantsStay
<1>5. ASSUME NEW l \in Labels, NEW K \in SUBSET Keys, NEW t \in SUBSET Keys, Collect(p, l, K, t),
             \A k \in K : Granted(o, k), \A k \in t : Private(o, k),
             l = "readPairs" => t \subseteq UserKeys, l = "readManaged" => t \subseteq Managed
      PROVE  ReqTyped' /\ RequestsProper'
  <2> DEFINE g == [r EXCEPT !.pc = l, !.pub = @ \cup K, !.todo = t]
  <2>1. /\ g \in Request /\ g.op = r.op /\ g.pc = l /\ g.user = o /\ g.pub = r.pub \cup K /\ g.todo = t /\ g.priv = r.priv
    BY <1>1 DEF Request
  <2>2. Becomes(p, g)
    BY <1>3, <1>5 DEF Collect
  <2> HIDE DEF g
  <2>3. Proper(g)'
    BY <1>2, <1>4, <1>5, <2>1 DEF Proper
  <2>4. QED
    BY <1>1, <2>1, <2>2, <2>3, NewRequest
<1>6. ASSUME NEW l \in Labels, NEW K \in SUBSET Keys, Read(p, l, K), \A k \in K : Private(o, k)
      PROVE  ReqTyped' /\ RequestsProper'
  <2> DEFINE g == [r EXCEPT !.pc = l, !.todo = {}, !.priv = @ \cup K]
  <2>1. /\ g \in Request /\ g.op = r.op /\ g.pc = l /\ g.user = o /\ g.pub = r.pub /\ g.todo = {} /\ g.priv = r.priv \cup K
    BY <1>1 DEF Request
  <2>2. Becomes(p, g)
    BY <1>3, <1>6 DEF Read
  <2> HIDE DEF g
  <2>3. Proper(g)'
    BY <1>2, <1>4, <1>6, <2>1 DEF Proper
  <2>4. QED
    BY <1>1, <2>1, <2>2, <2>3, NewRequest
<1>7. CASE CollectPublic(p)
  <2>1. Collect(p, "pairs", KeysOf(PubKeys, o), {})
    BY <1>3, <1>7 DEF CollectPublic
  <2>2. KeysOf(PubKeys, o) \subseteq Keys /\ \A k \in KeysOf(PubKeys, o) : Granted(o, k)
    BY Sets DEF KeysOf, Granted
  <2>3. QED
    BY <1>5, <2>1, <2>2 DEF Labels
<1>8. CASE CollectPairs(p)
  <2> DEFINE K == KeysOf(UserKeys, o)
             t == IF r.mode = "personal" THEN K ELSE {}
  <2>1. Collect(p, "readPairs", K, t)
    BY <1>3, <1>8 DEF CollectPairs
  <2>2. /\ K \in SUBSET Keys /\ t \in SUBSET Keys
        /\ \A k \in K : Private(o, k) /\ Granted(o, k)
    BY Sets DEF KeysOf, Granted, Private
  <2>3. t \subseteq UserKeys /\ \A k \in t : Private(o, k)
    BY <2>2 DEF KeysOf
  <2> HIDE DEF K, t
  <2>4. QED
    BY <1>5, <2>1, <2>2, <2>3 DEF Labels
<1>9. CASE ReadPairs(p)
  <2> DEFINE K == {InFile(o, k) : k \in r.todo}
  <2>1. ASSUME NEW k \in r.todo PROVE InFile(o, k) \in Keys /\ Private(o, InFile(o, k))
    <3>1. k \in UserKeys /\ Private(o, k)
      BY <1>1, <1>2, <1>3, <1>9 DEF ReadPairs, Collecting, Proper
    <3>2. ring[k].user = o /\ o \in Holders
      BY <1>1, <1>2, <3>1, Sets DEF Private, RowsProper
    <3>3. QED
      BY <1>1, <3>1, <3>2, Sets DEF InFile, DiskOwn, Private
  <2>2. Read(p, "managed", K)
    BY <1>3, <1>9 DEF ReadPairs
  <2>3. K \in SUBSET Keys /\ \A k \in K : Private(o, k)
    BY <2>1
  <2> HIDE DEF K
  <2>4. QED
    BY <1>6, <2>2, <2>3 DEF Labels
<1>10. CASE CollectManaged(p)
  <2> DEFINE K == {m \in Managed : Available(m, o)}
             t == IF r.mode = "plati" THEN K ELSE {}
  <2>1. Collect(p, "readManaged", K, t)
    BY <1>3, <1>10 DEF CollectManaged
  <2>2. K \in SUBSET Keys /\ \A k \in K : Private(o, k) /\ Granted(o, k)
    BY <1>1, <1>2, AvailableOpened, Sets DEF Private, Granted
  <2>3. t \in SUBSET Keys /\ t \subseteq Managed /\ \A k \in t : Private(o, k)
    BY <2>2
  <2> HIDE DEF K, t
  <2>4. QED
    BY <1>5, <2>1, <2>2, <2>3 DEF Labels
<1>11. CASE ReadManaged(p)
  <2> DEFINE K == {InFile(k, k) : k \in r.todo}
  <2>1. ASSUME NEW k \in r.todo PROVE InFile(k, k) = k /\ k \in Keys /\ Private(o, k)
    <3>1. k \in Managed /\ Private(o, k)
      BY <1>1, <1>2, <1>3, <1>11 DEF ReadManaged, Collecting, Proper
    <3>2. QED
      BY <1>1, <3>1, Sets DEF InFile, DiskOwn
  <2>2. Read(p, "write", K)
    BY <1>3, <1>11 DEF ReadManaged
  <2>3. K \in SUBSET Keys /\ \A k \in K : Private(o, k)
    BY <2>1
  <2> HIDE DEF K
  <2>4. QED
    BY <1>6, <2>2, <2>3 DEF Labels
<1>12. QED
  BY <1>7, <1>8, <1>9, <1>10, <1>11

LEMMA RequestsNext == ASSUME Core, Kept, [Next]_vars PROVE ReqTyped' /\ RequestsProper'
<1>1. /\ TypeOK /\ RowsProper /\ RequestsProper /\ Idle \in Request
      /\ Idle.pub = {} /\ Idle.priv = {} /\ Idle.todo = {}
  BY IdleRequest DEF Core, Idle
<1>2. ASSUME UNCHANGED req PROVE ReqTyped' /\ RequestsProper'
  BY <1>1, <1>2, NoRequest
<1>3. ASSUME NEW p \in Procs, Done(p) PROVE ReqTyped' /\ RequestsProper'
  BY <1>1, <1>3, Ends
<1>4. ASSUME NEW p \in Procs, Quietly(p) PROVE ReqTyped' /\ RequestsProper'
  <2>1. CASE \/ WriteUserFile(p) \/ RemoveUserDir(p) \/ WriteManagedFile(p) \/ RemoveManagedDir(p)
             \/ WriteKeys(p) \/ AppendKey(p)
    BY <1>3, <2>1 DEF WriteUserFile, RemoveUserDir, WriteManagedFile, RemoveManagedDir, WriteKeys, AppendKey
  <2>2. CASE CollectPublic(p) \/ CollectPairs(p) \/ ReadPairs(p) \/ CollectManaged(p) \/ ReadManaged(p)
    BY <2>2, Collected
  <2>3. ASSUME NEW m \in Managed, NEW S \in SUBSET Assignees, SetManagedKeyUsers(p, m, S)
        PROVE  ReqTyped' /\ RequestsProper'
    <3> DEFINE g == [Idle EXCEPT !.op = "SetUsers", !.pc = "tx", !.key = m, !.set = S]
    <3>1. g \in Request /\ g.op = "SetUsers" /\ g.key = m
      BY <1>1, Sets DEF Request, AllOps, Labels
    <3>2. Becomes(p, g)
      BY <2>3 DEF SetManagedKeyUsers
    <3> HIDE DEF g
    <3>3. Proper(g)'
      BY <3>1 DEF Proper
    <3>4. QED
      BY <1>1, <3>1, <3>2, <3>3, NewRequest
  <2>4. ASSUME NEW o \in Owners, ReapplySetup(p, o) \/ Rebuild(p, o) PROVE ReqTyped' /\ RequestsProper'
    <3>1. PICK op \in {"ReapplySetup", "Rebuild"}, m \in Modes : BeginCollect(p, op, o, m)
      BY <2>4 DEF ReapplySetup, Rebuild, Modes
    <3> DEFINE g == [Idle EXCEPT !.op = op, !.pc = "public", !.user = o, !.mode = m]
    <3>2. /\ g \in Request /\ g.op = op /\ g.pc = "public" /\ g.user = o
          /\ g.pub = {} /\ g.priv = {} /\ g.todo = {}
      BY <1>1, Sets DEF Request, AllOps, Labels
    <3>3. Becomes(p, g)
      BY <3>1 DEF BeginCollect
    <3> HIDE DEF g
    <3>4. Proper(g)'
      BY <3>2 DEF Proper
    <3>5. QED
      BY <1>1, <3>2, <3>3, <3>4, NewRequest
  <2>5. ASSUME NEW o \in Owners, NEW a \in Users, NEW k \in PubKeys, AddAuthorizedKey(p, a, o, k)
        PROVE  ReqTyped' /\ RequestsProper'
    <3> DEFINE g == [Idle EXCEPT !.op = "AddAuthorizedKey", !.pc = "append", !.user = o, !.key = k, !.set = {a}]
    <3>1. g \in Request /\ g.op = "AddAuthorizedKey" /\ g.user = o /\ g.key = k /\ g.set = {a}
      BY <1>1, Sets DEF Request, AllOps, Labels
    <3>2. Becomes(p, g) /\ k \in Installable(a, o) /\ ring' = ring
      BY <2>5 DEF AddAuthorizedKey, tables
    <3> HIDE DEF g
    <3>3. Proper(g)'
      BY <3>1, <3>2 DEF Proper, Installable
    <3>4. QED
      BY <1>1, <3>1, <3>2, <3>3, NewRequest
  <2>6. QED
    BY <1>4, <2>1, <2>2, <2>3, <2>4, <2>5 DEF Quietly
<1>5. ASSUME NEW p \in Procs, ReplaceUsers(p) PROVE ReqTyped' /\ RequestsProper'
  BY <1>3, <1>5 DEF ReplaceUsers
<1>6. ASSUME NEW p \in Procs, GenerateManagedKey(p) PROVE ReqTyped' /\ RequestsProper'
  <2>1. PICK m \in Managed : Becomes(p, [Idle EXCEPT !.op = "Generate", !.pc = "file", !.key = m])
    BY <1>6 DEF GenerateManagedKey
  <2> DEFINE g == [Idle EXCEPT !.op = "Generate", !.pc = "file", !.key = m]
  <2>2. g \in Request /\ g.op = "Generate" /\ g.key = m
    BY <1>1, Sets DEF Request, AllOps, Labels
  <2> HIDE DEF g
  <2>3. Proper(g)'
    BY <2>2 DEF Proper
  <2>4. QED
    BY <1>1, <2>1, <2>2, <2>3, NewRequest DEF g
<1>7. ASSUME NEW p \in Procs, NEW u \in Holders, GenerateUserKey(p, u) PROVE ReqTyped' /\ RequestsProper'
  <2>1. PICK k \in UserKeys :
          Insert(k, u) /\ Becomes(p, [Idle EXCEPT !.op = "GenerateUserKey", !.pc = "file", !.user = u, !.key = k])
    BY <1>7 DEF GenerateUserKey
  <2> DEFINE g == [Idle EXCEPT !.op = "GenerateUserKey", !.pc = "file", !.user = u, !.key = k]
  <2>2. g \in Request /\ g.op = "GenerateUserKey" /\ g.user = u /\ g.key = k
    BY <1>1, Sets DEF Request, AllOps, Labels
  <2>3. ring'[k].user = u
    BY <1>1, <2>1, Sets DEF Insert, TypeOK
  <2> HIDE DEF g
  <2>4. Proper(g)'
    BY <2>2, <2>3 DEF Proper
  <2>5. QED
    BY <1>1, <2>1, <2>2, <2>4, NewRequest DEF g
<1>8. ASSUME NEW p \in Procs, NEW u \in Holders, NEW k \in UserKeys, DeleteUserKey(p, k, u)
      PROVE  ReqTyped' /\ RequestsProper'
  <2> DEFINE g == [Idle EXCEPT !.op = "DeleteUserKey", !.pc = "dir", !.user = u]
  <2>1. g \in Request /\ g.op = "DeleteUserKey" /\ g.user = u
    BY <1>1, Sets DEF Request, AllOps, Labels
  <2>2. Becomes(p, g)
    BY <1>8 DEF DeleteUserKey
  <2> HIDE DEF g
  <2>3. Proper(g)'
    BY <2>1 DEF Proper
  <2>4. QED
    BY <1>1, <2>1, <2>2, <2>3, NewRequest
<1>9. ASSUME NEW p \in Procs, NEW m \in Managed, DeleteManagedKey(p, m) PROVE ReqTyped' /\ RequestsProper'
  <2> DEFINE g == [Idle EXCEPT !.op = "Delete", !.pc = "dir", !.key = m]
  <2>1. g \in Request /\ g.op = "Delete" /\ g.key = m
    BY <1>1, Sets DEF Request, AllOps, Labels
  <2>2. Becomes(p, g)
    BY <1>9 DEF DeleteManagedKey
  <2> HIDE DEF g
  <2>3. Proper(g)'
    BY <2>1 DEF Proper
  <2>4. QED
    BY <1>1, <2>1, <2>2, <2>3, NewRequest
<1>10. ASSUME NEW u \in Users, \/ CreateSSHKey(u) \/ DeleteUser(u) \/ \E k \in PubKeys : DeleteSSHKey(k, u)
       PROVE  ReqTyped' /\ RequestsProper'
  BY <1>2, <1>10 DEF CreateSSHKey, DeleteUser, DeleteSSHKey
<1>11. CASE UNCHANGED vars
  BY <1>2, <1>11 DEF vars
<1>12. QED
  BY <1>4, <1>5, <1>6, <1>7, <1>8, <1>9, <1>10, <1>11, Actions

-----------------------------------------------------------------------------
(* The rest of the types, directories and containers.                      *)

LEMMA RestNext == ASSUME Core, [Next]_vars PROVE RestTyped'
<1>1. RestTyped /\ TablesTyped
  BY TypeParts DEF Core
<1>2. made' \in 0..MaxRequests
  <2>1. made' = made \/ (made < MaxRequests /\ made' = made + 1)
    BY DEF Next, Begin, Quiet, CreateSSHKey, DeleteUser, DeleteSSHKey, GenerateUserKey, DeleteUserKey,
       GenerateManagedKey, DeleteManagedKey, SetManagedKeyUsers, ReapplySetup, Rebuild, BeginCollect,
       AddAuthorizedKey, Asked, vars
  <2>2. QED
    BY <1>1, <2>1, Sets DEF RestTyped
<1>3. ASSUME UNCHANGED <<disk, authorized, idrsa, intended, invited, late>>,
             opened' = opened \/ \E us, i : \E l \in SUBSET Managed : opened' = opened \cup Meant(us, l, i)
      PROVE  RestTyped'
  BY <1>1, <1>2, <1>3 DEF RestTyped, Meant
<1>4. ASSUME NEW p \in Procs, Quietly(p) PROVE RestTyped'
  <2> DEFINE r == req[p]
  <2>1. r \in Request /\ Proper(r) /\ UNCHANGED <<opened, intended>>
    BY <1>4, RequestOf, QuietTables DEF Core
  <2>2. CASE WriteUserFile(p)
    BY <1>1, <1>2, <2>1, <2>2, Sets DEF WriteUserFile, RestTyped, Proper, At, Dirs, remote
  <2>3. CASE RemoveUserDir(p)
    BY <1>1, <1>2, <2>1, <2>3, Sets DEF RemoveUserDir, RestTyped, Proper, At, Dirs, remote
  <2>4. CASE WriteManagedFile(p) \/ RemoveManagedDir(p)
    BY <1>1, <1>2, <2>1, <2>4, Sets DEF WriteManagedFile, RemoveManagedDir, RestTyped, Proper, At, Dirs, remote, history
  <2>5. CASE WriteKeys(p)
    <3>1. authorized' = authorized \/ authorized' = [authorized EXCEPT ![r.user] = r.pub]
      BY <2>5 DEF WriteKeys
    <3>2. idrsa' = idrsa \/ \E k \in r.priv : idrsa' = [idrsa EXCEPT ![r.user] = k]
      BY <2>5 DEF WriteKeys
    <3>3. r.pub \subseteq Keys /\ r.priv \subseteq Keys
      BY <2>1 DEF Request
    <3>4. authorized' \in [Owners -> SUBSET Keys] /\ idrsa' \in [Owners -> Keys \cup {None}]
      BY <1>1, <3>1, <3>2, <3>3 DEF RestTyped
    <3>5. QED
      BY <1>1, <1>2, <2>5, <3>4 DEF WriteKeys, RestTyped, history
  <2>6. CASE AppendKey(p)
    <3>1. r.user \in Owners /\ r.key \in PubKeys
      BY <2>1, <2>6 DEF AppendKey, At, Proper
    <3>2. authorized' = [authorized EXCEPT ![r.user] = authorized[r.user] \cup {r.key}]
      BY <2>6 DEF AppendKey
    <3>3. authorized' \in [Owners -> SUBSET Keys]
      BY <1>1, <3>1, <3>2, Sets DEF RestTyped
    <3>4. QED
      BY <1>1, <1>2, <2>1, <2>6, <3>1, <3>3 DEF AppendKey, RestTyped
  <2>7. CASE \/ CollectPublic(p) \/ CollectPairs(p) \/ ReadPairs(p) \/ CollectManaged(p) \/ ReadManaged(p)
             \/ \E m \in Managed, S \in SUBSET Assignees : SetManagedKeyUsers(p, m, S)
             \/ \E o \in Owners : ReapplySetup(p, o) \/ Rebuild(p, o)
             \/ \E o \in Owners, a \in Users, k \in PubKeys : AddAuthorizedKey(p, a, o, k)
    BY <1>3, <2>7 DEF CollectPublic, CollectPairs, ReadPairs, CollectManaged, ReadManaged, Collect, Read,
       SetManagedKeyUsers, ReapplySetup, Rebuild, BeginCollect, AddAuthorizedKey, remote, history
  <2>8. QED
    BY <1>4, <2>2, <2>3, <2>4, <2>5, <2>6, <2>7 DEF Quietly
<1>5. ASSUME NEW p \in Procs, ReplaceUsers(p) PROVE RestTyped'
  <2>1. req[p].key \in Managed /\ req[p].set \subseteq Users
    BY <1>5, RequestOf DEF Core, ReplaceUsers, At, Proper, Request
  <2>2. \/ intended' = intended /\ opened' = opened
        \/ /\ intended' = [intended EXCEPT ![req[p].key] = req[p].set]
           /\ opened' = opened \cup Meant(users, LiveManaged, [intended EXCEPT ![req[p].key] = req[p].set])
    BY <1>5 DEF ReplaceUsers
  <2>3. UNCHANGED <<disk, authorized, idrsa, invited, late>>
    BY <1>5 DEF ReplaceUsers, remote
  <2>4. opened' \subseteq Managed \X Owners
    BY <1>1, <2>2 DEF RestTyped, Meant, LiveManaged
  <2>5. intended' \in [Managed -> SUBSET Users]
    BY <1>1, <2>1, <2>2 DEF RestTyped
  <2>6. QED
    BY <1>1, <1>2, <2>3, <2>4, <2>5 DEF RestTyped
<1>6. ASSUME NEW p \in Procs, GenerateManagedKey(p) PROVE RestTyped'
  <2>1. PICK m \in Managed : opened' = opened \cup Meant(users, LiveManaged \cup {m}, intended)
    BY <1>6 DEF GenerateManagedKey
  <2>2. LiveManaged \cup {m} \in SUBSET Managed
    BY DEF LiveManaged
  <2>3. UNCHANGED <<disk, authorized, idrsa, intended, invited, late>>
    BY <1>6 DEF GenerateManagedKey, remote
  <2>4. QED
    BY <1>3, <2>1, <2>2, <2>3
<1>7. ASSUME NEW u \in Users, DeleteUser(u) PROVE RestTyped'
  <2>1. LiveManaged \in SUBSET Managed
    BY DEF LiveManaged
  <2>2. QED
    BY <1>3, <1>7, <2>1 DEF DeleteUser, remote
<1>8. ASSUME NEW u \in Users,
             \/ CreateSSHKey(u) \/ \E k \in PubKeys : DeleteSSHKey(k, u)
             \/ \E p \in Procs : GenerateUserKey(p, u) \/ (\E k \in UserKeys : DeleteUserKey(p, k, u))
      PROVE  RestTyped'
  BY <1>3, <1>8 DEF CreateSSHKey, DeleteSSHKey, GenerateUserKey, DeleteUserKey, remote, history
<1>9. ASSUME NEW p \in Procs, NEW m \in Managed, DeleteManagedKey(p, m) PROVE RestTyped'
  BY <1>3, <1>9 DEF DeleteManagedKey, remote, history
<1>10. CASE UNCHANGED vars
  BY <1>3, <1>10 DEF vars
<1>11. QED
  BY <1>4, <1>5, <1>6, <1>7, <1>8, <1>9, <1>10, Actions, Sets

LEMMA DiskNext == ASSUME Core, Kept, [Next]_vars PROVE DiskOwn'
<1>1. ASSUME UNCHANGED disk PROVE DiskOwn'
  BY <1>1, Sets DEF Core, DiskOwn, Kept
<1>2. ASSUME NEW p \in Procs, WriteUserFile(p) \/ RemoveUserDir(p) \/ WriteManagedFile(p) \/ RemoveManagedDir(p)
      PROVE  DiskOwn'
  <2> DEFINE r == req[p]
  <2>1. /\ r \in Request /\ Proper(r) /\ DiskOwn /\ disk \in [Dirs -> Keys \cup {None}]
        /\ UNCHANGED ring
    BY <1>2, RequestOf, QuietTables DEF Core, TypeOK, Quietly
  <2>2. CASE WriteUserFile(p) \/ RemoveUserDir(p)
    <3>1. /\ r.user \in Holders
          /\ \/ disk' = disk
             \/ disk' = [disk EXCEPT ![r.user] = None]
             \/ disk' = [disk EXCEPT ![r.user] = r.key] /\ r.key \in UserKeys /\ ring[r.key].user = r.user
      BY <2>1, <2>2 DEF WriteUserFile, RemoveUserDir, At, Proper
    <3>2. Holders \cap Managed = {} /\ \A d \in Dirs : d # r.user => disk'[d] = disk[d]
      BY <2>1, <3>1, Sets
    <3>3. disk'[r.user] = None \/ (disk'[r.user] \in UserKeys /\ ring[disk'[r.user]].user = r.user)
      BY <2>1, <3>1 DEF DiskOwn, Dirs
    <3>4. QED
      BY <2>1, <3>1, <3>2, <3>3 DEF DiskOwn, Dirs
  <2>3. CASE WriteManagedFile(p) \/ RemoveManagedDir(p)
    <3>1. /\ r.key \in Managed
          /\ \/ disk' = disk
             \/ disk' = [disk EXCEPT ![r.key] = None]
             \/ disk' = [disk EXCEPT ![r.key] = r.key]
      BY <2>1, <2>3 DEF WriteManagedFile, RemoveManagedDir, At, Proper
    <3>2. Holders \cap Managed = {}
      BY Sets
    <3>3. QED
      BY <2>1, <3>1, <3>2 DEF DiskOwn, Dirs
  <2>4. QED
    BY <1>2, <2>2, <2>3
<1>3. ASSUME NEW p \in Procs, Quietly(p) PROVE DiskOwn'
  BY <1>1, <1>2, <1>3 DEF Quietly, CollectPublic, CollectPairs, ReadPairs, CollectManaged, ReadManaged, Collect, Read,
       WriteKeys, AppendKey, SetManagedKeyUsers, ReapplySetup, Rebuild, BeginCollect, AddAuthorizedKey
<1>4. QED
  BY <1>1, <1>3, Actions DEF CreateSSHKey, DeleteSSHKey, DeleteUser, GenerateUserKey, DeleteUserKey, GenerateManagedKey,
       DeleteManagedKey, ReplaceUsers, vars

\* What an administrator has meant is all recorded, and assigned.
LEMMA IntentNext == ASSUME Core, Kept, [Next]_vars PROVE AsIntended' /\ MeantOpened'
<1>1. /\ TablesTyped /\ RestTyped /\ AsIntended /\ MeantOpened /\ RowsProper
      /\ \A a \in assigned : a[1] \in Managed /\ a[2] \in Users /\ Live(a[1])
  BY TypeParts DEF Core, TablesTyped, Live
<1>2. ASSUME UNCHANGED <<users, assigned, intended>>, opened \subseteq opened', \A m \in Managed : ring'[m] = ring[m]
      PROVE  AsIntended' /\ MeantOpened'
  BY <1>1, <1>2 DEF AsIntended, MeantOpened, Meant, LiveManaged, Live
<1>3. ASSUME NEW k \in PubKeys \cup UserKeys, NEW u, Insert(k, u) \/ DeleteOwned(k, u) PROVE \A m \in Managed : ring'[m] = ring[m]
  <2>1. k \notin Managed /\ k \in Keys
    BY Sets
  <2>2. QED
    BY <1>1, <1>3, <2>1, Sets DEF Insert, DeleteOwned, TablesTyped
<1>4. ASSUME NEW u \in Users, CreateSSHKey(u) PROVE AsIntended' /\ MeantOpened'
  BY <1>2, <1>3, <1>4 DEF CreateSSHKey, history
<1>5. ASSUME NEW u \in Users, NEW k \in PubKeys, DeleteSSHKey(k, u) PROVE AsIntended' /\ MeantOpened'
  BY <1>2, <1>3, <1>5 DEF DeleteSSHKey, history
<1>6. ASSUME NEW p \in Procs, NEW u \in Holders, GenerateUserKey(p, u) PROVE AsIntended' /\ MeantOpened'
  BY <1>2, <1>3, <1>6 DEF GenerateUserKey, history
<1>7. ASSUME NEW p \in Procs, NEW u \in Holders, NEW k \in UserKeys, DeleteUserKey(p, k, u)
      PROVE  AsIntended' /\ MeantOpened'
  BY <1>2, <1>3, <1>7 DEF DeleteUserKey, history
<1>8. ASSUME NEW p \in Procs, Quietly(p) PROVE AsIntended' /\ MeantOpened'
  BY <1>2, <1>8, QuietTables
<1>9. ASSUME NEW u \in Users, DeleteUser(u) PROVE AsIntended' /\ MeantOpened'
  <2>1. \A m \in Managed : ring'[m] = ring[m]
    <3>1. \A m \in Managed : m \in Keys /\ ring[m].user = None
      BY <1>1, Sets DEF RowsProper
    <3>2. QED
      BY <1>9, <3>1, Sets DEF DeleteUser
  <2>2. /\ users' = users \ {u} /\ intended' = intended
        /\ assigned' = {a \in assigned : a[2] # u}
        /\ opened' = opened \cup Meant(users \ {u}, LiveManaged, intended)
    BY <1>9 DEF DeleteUser
  <2>3. AsIntended'
    BY <1>1, <2>1, <2>2 DEF AsIntended, Live
  <2>4. LiveManaged' = LiveManaged
    BY <2>1 DEF LiveManaged, Live
  <2>5. QED
    BY <2>2, <2>3, <2>4 DEF MeantOpened
<1>10. ASSUME NEW p \in Procs, GenerateManagedKey(p) PROVE AsIntended' /\ MeantOpened'
  <2>1. PICK m \in Managed : Insert(m, None) /\ opened' = opened \cup Meant(users, LiveManaged \cup {m}, intended)
    BY <1>10 DEF GenerateManagedKey
  <2>2. UNCHANGED <<users, assigned, intended>>
    BY <1>10 DEF GenerateManagedKey
  <2>3. /\ ring[m].state = "unused" /\ ring'[m].state = "live"
        /\ \A l \in Managed \ {m} : ring'[l] = ring[l]
    BY <1>1, <2>1, Sets DEF Insert, TablesTyped
  <2>4. intended[m] = {} /\ \A a \in assigned : a[1] # m
    BY <1>1, <2>3 DEF AsIntended, Live
  <2>5. AsIntended'
    BY <1>1, <2>2, <2>3, <2>4 DEF AsIntended, Live
  <2>6. LiveManaged' = LiveManaged \cup {m}
    BY <2>3 DEF LiveManaged, Live
  <2>7. QED
    BY <2>1, <2>2, <2>5, <2>6 DEF MeantOpened
<1>11. ASSUME NEW p \in Procs, NEW m \in Managed, DeleteManagedKey(p, m) PROVE AsIntended' /\ MeantOpened'
  <2>1. UNCHANGED <<users, intended, opened>> /\ Live(m)
        /\ ring' = [ring EXCEPT ![m].state = "deleted"] /\ assigned' = {a \in assigned : a[1] # m}
    BY <1>11 DEF DeleteManagedKey, DeleteManagedRow, history
  <2>2. ring'[m].state = "deleted" /\ \A l \in Managed \ {m} : ring'[l] = ring[l]
    BY <1>1, <2>1, Sets DEF TablesTyped, Row
  <2>3. AsIntended'
    BY <1>1, <2>1, <2>2 DEF AsIntended, Live
  <2>4. LiveManaged' \subseteq LiveManaged
    BY <2>2 DEF LiveManaged, Live
  <2>5. QED
    BY <1>1, <2>1, <2>3, <2>4 DEF MeantOpened, Meant
<1>12. ASSUME NEW p \in Procs, ReplaceUsers(p) PROVE AsIntended' /\ MeantOpened'
  <2> DEFINE m == req[p].key
             S == req[p].set
  <2>1. m \in Managed /\ S \subseteq Users
    BY <1>12, RequestOf DEF Core, ReplaceUsers, At, Proper, Request
  <2>2. UNCHANGED <<users, ring>>
    BY <1>12 DEF ReplaceUsers
  <2>3. CASE S = {} \/ (Live(m) /\ S \subseteq users)
    <3>1. /\ assigned' = {a \in assigned : a[1] # m} \cup {<<m, u>> : u \in S}
          /\ intended' = [intended EXCEPT ![m] = S]
          /\ opened' = opened \cup Meant(users, LiveManaged, [intended EXCEPT ![m] = S])
      BY <1>12, <2>3 DEF ReplaceUsers
    <3>2. ring[m].state = "unused" => S = {}
      BY <2>3 DEF Live
    <3>3. \A l \in Managed : intended'[l] = IF l = m THEN S ELSE intended[l]
      BY <1>1, <3>1 DEF RestTyped
    <3> HIDE DEF m, S
    <3>4. \A l \in Managed, u \in users : <<l, u>> \in assigned' <=> IF l = m THEN u \in S ELSE <<l, u>> \in assigned
      BY <3>1
    <3>5. AsIntended'
      BY <1>1, <2>2, <3>2, <3>3, <3>4 DEF AsIntended, Live
    <3>6. LiveManaged' = LiveManaged
      BY <2>2 DEF LiveManaged, Live
    <3>7. QED
      BY <2>2, <3>1, <3>5, <3>6 DEF MeantOpened
  <2>4. CASE ~(S = {} \/ (Live(m) /\ S \subseteq users))
    BY <1>2, <1>12, <2>2, <2>4 DEF ReplaceUsers
  <2>5. QED
    BY <2>3, <2>4
<1>13. CASE UNCHANGED vars
  BY <1>2, <1>13 DEF vars
<1>14. QED
  BY <1>4, <1>5, <1>6, <1>7, <1>8, <1>9, <1>10, <1>11, <1>12, <1>13, Actions

LEMMA CoreInit == Init => Core
<1> SUFFICES ASSUME Init PROVE Core
  OBVIOUS
<1>1. TablesTyped /\ RestTyped
  BY Sets DEF Init, TablesTyped, RestTyped, Row, Dirs
<1>2. ReqTyped
  BY IdleRequest DEF Init, ReqTyped
<1>3. RowsProper /\ DiskOwn
  BY Sets DEF Init, RowsProper, DiskOwn, Dirs
<1>4. AsIntended /\ MeantOpened
  BY Sets DEF Init, AsIntended, MeantOpened, Meant, LiveManaged, Live
<1>5. RequestsProper
  BY DEF Init, RequestsProper, Proper, Idle
<1>6. QED
  BY <1>1, <1>2, <1>3, <1>4, <1>5, TypeParts DEF Core
LEMMA CoreNext == ASSUME Core, [Next]_vars PROVE Core' /\ Kept
<1>1. TablesTyped' /\ RowsProper' /\ Kept
  BY TablesNext DEF Core
<1>2. ReqTyped' /\ RequestsProper' /\ DiskOwn' /\ AsIntended' /\ MeantOpened'
  BY <1>1, RequestsNext, DiskNext, IntentNext
<1>3. QED
  BY <1>1, <1>2, RestNext, TypePartsNext DEF Core
LEMMA CoreAlways == Spec => []Core
<1>1. QED
  BY CoreInit, CoreNext, PTL DEF Spec

\* Every reachable state is well typed, and no assignment and no key outlives
\* its user or its managed key.
THEOREM TypeCorrect == Spec => []TypeOK
<1>1. Core => TypeOK
  BY DEF Core
<1>2. QED
  BY <1>1, CoreAlways, PTL

\* A managed key is available to a user only if an administrator chose that
\* user, or nobody who is still there.
THEOREM AvailableAsIntended == Spec => []AvailabilityIsIntended
<1>1. Core => AvailabilityIsIntended
  BY IntentionHolds DEF Core
<1>2. QED
  BY <1>1, CoreAlways, PTL

-----------------------------------------------------------------------------
(* What containers have, and what lies on disk.                            *)

Admitted(o, k) == Granted(o, k) \/ (k \in PubKeys /\ <<o, k>> \in invited)
LEMMA AccessParts ==
    AccessIsGranted <=>
      \A o \in Owners : /\ \A k \in authorized[o] : Admitted(o, k)
                        /\ idrsa[o] = None \/ Private(o, idrsa[o])
BY DEF AccessIsGranted, Admitted, Granted, Private
LEMMA AccessPartsNext ==
    ASSUME \A o \in Owners : /\ \A k \in authorized'[o] : Admitted(o, k)'
                             /\ \E k : k = idrsa'[o] /\ (k = None \/ Private(o, k)')
    PROVE  AccessIsGranted'
BY DEF AccessIsGranted, Admitted, Granted, Private

LEMMA AccessNext == ASSUME Core, Kept, AccessIsGranted, [Next]_vars PROVE AccessIsGranted'
<1>1. /\ TypeOK /\ RowsProper
      /\ authorized \in [Owners -> SUBSET Keys] /\ idrsa \in [Owners -> Keys \cup {None}]
  BY DEF Core, TypeOK
<1>2. \A o \in Owners : \A k : /\ Private(o, k) => Private(o, k)'
                               /\ Admitted(o, k) => Admitted(o, k)'
  BY <1>1, GrantsStay, Sets DEF Admitted, Kept
<1>3. ASSUME UNCHANGED remote PROVE AccessIsGranted'
  BY <1>2, <1>3, AccessParts, AccessPartsNext DEF remote
<1>4. ASSUME NEW p \in Procs, WriteKeys(p) PROVE AccessIsGranted'
  <2>1. PICK r \in Request : r = req[p] /\ Proper(r)
    BY RequestOf DEF Core
  <2>2. /\ r.user \in Owners
        /\ \A k \in r.pub : Granted(r.user, k)
        /\ \A k \in r.priv : Private(r.user, k)
    BY <1>4, <2>1 DEF WriteKeys, Collecting, Proper
  <2>3. /\ authorized' = authorized \/ authorized' = [authorized EXCEPT ![r.user] = r.pub]
        /\ idrsa' = idrsa \/ \E k \in r.priv : idrsa' = [idrsa EXCEPT ![r.user] = k]
    BY <1>4, <2>1 DEF WriteKeys
  <2>4. ASSUME NEW o \in Owners, NEW k \in authorized'[o] PROVE Admitted(o, k)'
    <3>1. k \in authorized[o] \/ (o = r.user /\ k \in r.pub)
      BY <1>1, <2>3
    <3>2. Admitted(o, k)
      BY <2>2, <3>1, AccessParts DEF Admitted
    <3>3. QED
      BY <1>2, <3>2
  <2>5. ASSUME NEW o \in Owners PROVE \E k : k = idrsa'[o] /\ (k = None \/ Private(o, k)')
    <3>1. PICK k : k = idrsa'[o]
      OBVIOUS
    <3>2. k = idrsa[o] \/ (o = r.user /\ k \in r.priv)
      BY <1>1, <2>3, <3>1
    <3>3. k = None \/ Private(o, k)
      BY <2>2, <3>2, AccessParts
    <3>4. k = None \/ Private(o, k)'
      BY <1>2, <3>3
    <3>5. QED
      BY <3>1, <3>4
  <2>6. QED
    BY <2>4, <2>5, AccessPartsNext
<1>5. ASSUME NEW p \in Procs, AppendKey(p) PROVE AccessIsGranted'
  <2>1. PICK r \in Request : r = req[p] /\ Proper(r)
    BY RequestOf DEF Core
  <2>2. /\ r.user \in Owners /\ r.key \in PubKeys
        /\ r.set \subseteq Admins \/ ring[r.key].user \in Admins \cup {r.user}
    BY <1>5, <2>1 DEF AppendKey, At, Proper
  <2>3. /\ authorized' = [authorized EXCEPT ![r.user] = authorized[r.user] \cup {r.key}] /\ idrsa' = idrsa
        /\ r.set \subseteq Admins => <<r.user, r.key>> \in invited'
        /\ ring' = ring
    BY <1>5, <2>1 DEF AppendKey, tables
  <2>4. Admitted(r.user, r.key)'
    BY <2>2, <2>3 DEF Admitted, Granted
  <2>5. ASSUME NEW o \in Owners, NEW k \in authorized'[o] PROVE Admitted(o, k)'
    <3>1. k \in authorized[o] \/ (o = r.user /\ k = r.key)
      BY <1>1, <2>3
    <3>2. QED
      BY <1>2, <2>4, <3>1, AccessParts
  <2>6. QED
    BY <1>2, <2>3, <2>5, AccessParts, AccessPartsNext
<1>6. ASSUME NEW p \in Procs, Quietly(p) PROVE AccessIsGranted'
  BY <1>3, <1>4, <1>5, <1>6 DEF Quietly, WriteUserFile, RemoveUserDir, WriteManagedFile, RemoveManagedDir,
       CollectPublic, CollectPairs, ReadPairs, CollectManaged, ReadManaged, Collect, Read,
       SetManagedKeyUsers, ReapplySetup, Rebuild, BeginCollect, AddAuthorizedKey
<1>7. QED
  BY <1>3, <1>6, Actions DEF CreateSSHKey, DeleteSSHKey, DeleteUser, GenerateUserKey, DeleteUserKey, GenerateManagedKey,
       DeleteManagedKey, ReplaceUsers, vars, remote

\* Whoever can enter an instance, or acts from it, was once entitled to it:
\* whatever is registered, assigned, deleted and collected at once.
THEOREM AccessGranted == Spec => []AccessIsGranted
<1>1. Init => AccessIsGranted
  BY DEF Init, AccessIsGranted
<1>2. QED
  BY <1>1, CoreInit, CoreNext, AccessNext, PTL DEF Spec

\* The removal of a user's directory is still to come.
Removing(u) == \E p \in Procs : At(p, "DeleteUserKey", "dir") /\ req[p].user = u
FileFits(u) == disk[u] \in {None} \cup KeysOf(UserKeys, u) \/ Removing(u)
FilesFit == \A u \in (users \cap Holders) \ late : FileFits(u)

LEMMA FilesNext == ASSUME Core, Core', Kept, FilesFit, [Next]_vars PROVE FilesFit'
<1>1. /\ req \in [Procs -> Request] /\ ring \in [Keys -> Row] /\ disk \in [Dirs -> Keys \cup {None}]
  BY DEF Core, TypeOK
<1>2. ASSUME users' \subseteq users, UNCHANGED <<disk, late>>,
             \A k \in UserKeys : Live(k) /\ ring[k].user \in users' => ring'[k] = ring[k],
             \A q \in Procs : At(q, "DeleteUserKey", "dir") => req'[q] = req[q]
      PROVE  FilesFit'
  <2>1. ASSUME NEW u \in (users' \cap Holders) \ late PROVE FileFits(u)'
    <3>1. FileFits(u)
      BY <1>2, <2>1 DEF FilesFit
    <3>2. CASE disk[u] \in {None} \cup KeysOf(UserKeys, u)
      BY <1>2, <2>1, <3>2 DEF FileFits, KeysOf, Live
    <3>3. CASE Removing(u)
      BY <1>2, <3>3 DEF FileFits, Removing, At
    <3>4. QED
      BY <3>1, <3>2, <3>3 DEF FileFits
  <2>2. QED
    BY <1>2, <2>1 DEF FilesFit
\* A request that begins, or that ends without being a removal.
<1>3. ASSUME NEW p \in Procs, NEW r, Becomes(p, r), ~At(p, "DeleteUserKey", "dir")
      PROVE  \A q \in Procs : At(q, "DeleteUserKey", "dir") => req'[q] = req[q]
  BY <1>1, <1>3 DEF Becomes
<1>4. \A p \in Procs : Idling(p) => ~At(p, "DeleteUserKey", "dir")
  BY DEF Idling, At
<1>5. ASSUME NEW p \in Procs, Quietly(p) PROVE FilesFit'
  <2>1. UNCHANGED <<users, ring>>
    BY <1>5, QuietTables
  <2>2. ASSUME UNCHANGED <<disk, late>>, NEW r, Becomes(p, r), ~At(p, "DeleteUserKey", "dir") PROVE FilesFit'
    BY <1>2, <1>3, <2>1, <2>2
  <2>3. ASSUME NEW u \in Holders, disk' = [disk EXCEPT ![u] = disk'[u]], late \ {u} \subseteq late',
               disk'[u] \in {None} \cup KeysOf(UserKeys, u) \/ u \in late' \/ u \notin users,
               Done(p), \A v : Removing(v) /\ v # u => Removing(v)'
        PROVE  FilesFit'
    <3>1. ASSUME NEW v \in (users \cap Holders) \ late' PROVE FileFits(v)'
      <4>1. CASE v = u
        BY <2>1, <2>3, <3>1, <4>1 DEF FileFits, KeysOf, Live
      <4>2. CASE v # u
        <5>1. FileFits(v) /\ disk'[v] = disk[v]
          BY <1>1, <2>3, <3>1, <4>2 DEF FilesFit, Dirs
        <5>2. QED
          BY <2>1, <2>3, <4>2, <5>1 DEF FileFits, KeysOf, Live
      <4>3. QED
        BY <4>1, <4>2
    <3>2. QED
      BY <2>1, <3>1 DEF FilesFit
  <2>4. CASE WriteUserFile(p)
    <3> DEFINE u == req[p].user
    <3>1. u \in Holders /\ req[p].key \in UserKeys /\ ring[req[p].key].user = u /\ At(p, "GenerateUserKey", "file")
      BY <2>4, RequestOf DEF Core, WriteUserFile, At, Proper
    <3>2. ~At(p, "DeleteUserKey", "dir") /\ Done(p)
      BY <2>4, <3>1 DEF At, WriteUserFile
    <3>3. \A v : Removing(v) => Removing(v)'
      BY <1>3, <3>2 DEF Removing, Done, At
    <3>4. CASE UNCHANGED <<disk, late>>
      BY <2>2, <3>2, <3>4 DEF Done
    <3>5. CASE disk' = [disk EXCEPT ![u] = req[p].key]
               /\ late' = IF Live(req[p].key) THEN late \ {u} ELSE late \cup {u}
      <4>1. disk'[u] = req[p].key /\ disk' = [disk EXCEPT ![u] = disk'[u]]
        BY <1>1, <3>1, <3>5, Sets DEF Dirs
      <4>2. disk'[u] \in KeysOf(UserKeys, u) \/ u \in late'
        BY <3>1, <3>5, <4>1 DEF KeysOf
      <4>3. late \ {u} \subseteq late'
        BY <3>5
      <4> HIDE DEF u
      <4>4. PICK w : w = u
        OBVIOUS
      <4>5. QED
        BY <2>3, <3>1, <3>2, <3>3, <4>1, <4>2, <4>3, <4>4
    <3>6. QED
      BY <2>4, <3>4, <3>5 DEF WriteUserFile
  <2>5. CASE RemoveUserDir(p)
    <3>1. PICK u : u = req[p].user
      OBVIOUS
    <3>2. u \in Holders /\ At(p, "DeleteUserKey", "dir") /\ Done(p)
      BY <2>5, <3>1, RequestOf DEF Core, RemoveUserDir, At, Proper
    <3>3. \A v : Removing(v) /\ v # u => Removing(v)'
      BY <1>1, <3>1, <3>2 DEF Removing, Done, Becomes, At
    <3>4. /\ \/ disk' = [disk EXCEPT ![u] = None] /\ late' = late \ {u}
             \/ disk' = disk /\ late' = late \cup {u}
      BY <2>5, <3>1 DEF RemoveUserDir
    <3>5. disk' = [disk EXCEPT ![u] = disk'[u]] /\ (disk'[u] = None \/ u \in late') /\ late \ {u} \subseteq late'
      BY <1>1, <3>2, <3>4, Sets DEF Dirs
    <3>6. QED
      BY <2>3, <3>2, <3>3, <3>5
  <2>6. CASE WriteManagedFile(p) \/ RemoveManagedDir(p)
    <3>1. req[p].key \in Managed /\ Done(p) /\ ~At(p, "DeleteUserKey", "dir") /\ late' = late
      BY <2>6, RequestOf DEF Core, WriteManagedFile, RemoveManagedDir, At, Proper, history
    <3>2. \A u \in Holders : disk'[u] = disk[u]
      BY <1>1, <2>6, <3>1, Sets DEF WriteManagedFile, RemoveManagedDir, Dirs
    <3>3. \A v : Removing(v) => Removing(v)'
      BY <1>3, <3>1 DEF Removing, Done, At
    <3>4. QED
      BY <2>1, <3>1, <3>2, <3>3 DEF FilesFit, FileFits, KeysOf, Live
  <2>7. CASE \/ CollectPublic(p) \/ CollectPairs(p) \/ ReadPairs(p) \/ CollectManaged(p) \/ ReadManaged(p)
             \/ WriteKeys(p) \/ AppendKey(p)
    <3>1. UNCHANGED <<disk, late>> /\ (\E r : Becomes(p, r)) /\ ~At(p, "DeleteUserKey", "dir")
      BY <2>7 DEF CollectPublic, CollectPairs, ReadPairs, CollectManaged, ReadManaged, Collect, Read, WriteKeys,
         AppendKey, Collecting, At, Done, history
    <3>2. QED
      BY <2>2, <3>1
  <2>8. CASE \/ \E m \in Managed, S \in SUBSET Assignees : SetManagedKeyUsers(p, m, S)
             \/ \E o \in Owners : ReapplySetup(p, o) \/ Rebuild(p, o)
             \/ \E o \in Owners, a \in Users, k \in PubKeys : AddAuthorizedKey(p, a, o, k)
    <3>1. UNCHANGED <<disk, late>> /\ (\E r : Becomes(p, r)) /\ Idling(p)
      BY <2>8 DEF SetManagedKeyUsers, ReapplySetup, Rebuild, BeginCollect, AddAuthorizedKey, history
    <3>2. QED
      BY <1>4, <2>2, <3>1
  <2>9. QED
    BY <1>5, <2>4, <2>5, <2>6, <2>7, <2>8 DEF Quietly
\* Rows of other keys, and those that are not live.
<1>6. ASSUME NEW k \in Keys, NEW c, ring' = ring \/ ring' = [ring EXCEPT ![k] = c], k \notin UserKeys \/ ~Live(k)
      PROVE  \A l \in UserKeys : Live(l) => ring'[l] = ring[l]
  BY <1>1, <1>6, Sets
<1>7. ASSUME NEW u \in Users, CreateSSHKey(u) PROVE FilesFit'
  <2>1. \A l \in UserKeys : Live(l) => ring'[l] = ring[l]
    BY <1>6, <1>7, Sets DEF CreateSSHKey, Insert, Live
  <2>2. QED
    BY <1>2, <1>7, <2>1 DEF CreateSSHKey, history
<1>8. ASSUME NEW u \in Users, NEW k \in PubKeys, DeleteSSHKey(k, u) PROVE FilesFit'
  <2>1. \A l \in UserKeys : ring'[l] = ring[l]
    BY <1>1, <1>8, Sets DEF DeleteSSHKey, DeleteOwned
  <2>2. QED
    BY <1>2, <1>8, <2>1 DEF DeleteSSHKey, history
<1>9. ASSUME NEW u \in Users, DeleteUser(u) PROVE FilesFit'
  <2>1. \A l \in UserKeys : Live(l) /\ ring[l].user # u => ring'[l] = ring[l]
    BY <1>1, <1>9, Sets DEF DeleteUser
  <2>2. QED
    BY <1>2, <1>9, <2>1 DEF DeleteUser
<1>10. ASSUME NEW p \in Procs, NEW u \in Holders, GenerateUserKey(p, u) PROVE FilesFit'
  <2>1. \A l \in UserKeys : Live(l) => ring'[l] = ring[l]
    BY <1>6, <1>10, Sets DEF GenerateUserKey, Insert, Live
  <2>2. \A q \in Procs : At(q, "DeleteUserKey", "dir") => req'[q] = req[q]
    BY <1>3, <1>4, <1>10 DEF GenerateUserKey
  <2>3. QED
    BY <1>2, <1>10, <2>1, <2>2 DEF GenerateUserKey, history
<1>11. ASSUME NEW p \in Procs, GenerateManagedKey(p) PROVE FilesFit'
  <2>1. \A l \in UserKeys : Live(l) => ring'[l] = ring[l]
    BY <1>6, <1>11, Sets DEF GenerateManagedKey, Insert, Live
  <2>2. \A q \in Procs : At(q, "DeleteUserKey", "dir") => req'[q] = req[q]
    BY <1>3, <1>4, <1>11 DEF GenerateManagedKey
  <2>3. QED
    BY <1>2, <1>11, <2>1, <2>2 DEF GenerateManagedKey
<1>12. ASSUME NEW p \in Procs, NEW m \in Managed, DeleteManagedKey(p, m) PROVE FilesFit'
  <2>1. \A l \in UserKeys : ring'[l] = ring[l]
    BY <1>1, <1>12, Sets DEF DeleteManagedKey, DeleteManagedRow
  <2>2. \A q \in Procs : At(q, "DeleteUserKey", "dir") => req'[q] = req[q]
    BY <1>3, <1>4, <1>12 DEF DeleteManagedKey
  <2>3. QED
    BY <1>2, <1>12, <2>1, <2>2 DEF DeleteManagedKey, history
<1>13. ASSUME NEW p \in Procs, ReplaceUsers(p) PROVE FilesFit'
  <2>1. Done(p) /\ ~At(p, "DeleteUserKey", "dir") /\ UNCHANGED <<users, ring, disk, late>>
    BY <1>13 DEF ReplaceUsers, At
  <2>2. \A q \in Procs : At(q, "DeleteUserKey", "dir") => req'[q] = req[q]
    BY <1>3, <2>1 DEF Done
  <2>3. QED
    BY <1>2, <2>1, <2>2
<1>14. ASSUME NEW p \in Procs, NEW u \in Holders, NEW k \in UserKeys, DeleteUserKey(p, k, u) PROVE FilesFit'
  <2> DEFINE r == [Idle EXCEPT !.op = "DeleteUserKey", !.pc = "dir", !.user = u]
  <2>1. Becomes(p, r) /\ Idling(p) /\ UNCHANGED <<users, disk, late>>
    BY <1>14 DEF DeleteUserKey, history
  <2>2. r.op = "DeleteUserKey" /\ r.pc = "dir" /\ r.user = u
    BY DEF Idle
  <2> HIDE DEF r
  <2>3. Removing(u)'
    BY <1>1, <2>1, <2>2 DEF Becomes, Removing, At
  <2>4. \A v : Removing(v) => Removing(v)'
    BY <1>3, <1>4, <2>1 DEF Removing, At
  <2>5. \A l \in UserKeys : Live(l) /\ ring[l].user # u => ring'[l] = ring[l]
    BY <1>1, <1>14, Sets DEF DeleteUserKey, DeleteOwned
  <2>6. ASSUME NEW v \in (users \cap Holders) \ late, v # u PROVE FileFits(v)'
    BY <2>1, <2>4, <2>5, <2>6 DEF FilesFit, FileFits, KeysOf, Live
  <2>7. FileFits(u)'
    BY <2>3 DEF FileFits
  <2>8. QED
    BY <2>1, <2>6, <2>7 DEF FilesFit
<1>15. CASE UNCHANGED vars
  BY <1>2, <1>15 DEF vars
<1>16. QED
  BY <1>5, <1>7, <1>8, <1>9, <1>10, <1>11, <1>12, <1>13, <1>14, <1>15, Actions

\* The private key on disk is one of the user's registered keys, unless its
\* removal is still to come or the file was written after the key's deletion;
\* a managed key's directory holds that key.
THEOREM DisksMatch == Spec => []DiskMatchesRows
<1>1. Init => FilesFit
  BY Sets DEF Init, FilesFit, FileFits, Dirs
<1>2. Core /\ FilesFit => DiskMatchesRows
  BY DEF Core, DiskOwn, FilesFit, FileFits, Removing, DiskMatchesRows
<1>3. QED
  BY <1>1, <1>2, CoreInit, CoreNext, FilesNext, PTL DEF Spec
=============================================================================
