------------------------------- MODULE KeyRing -------------------------------
(***************************************************************************)
(* The SSH keys of Plati: public keys a user registers (table ssh_keys),   *)
(* keypairs generated for a user (user_ssh_keys, with a copy of the        *)
(* private half in ssh_keys/user_<id>/id_rsa on disk), keypairs managed by *)
(* the administrators (managed_ssh_keys, managed_key_assignments and       *)
(* ssh_keys/managed_<id>), and what of them a container is given: its      *)
(* authorized_keys and its id_rsa.                                         *)
(*                                                                         *)
(* A request is a process of several steps: a row and the file that goes   *)
(* with it are written one after the other, and the keys for a container   *)
(* are collected table by table and file by file, with other requests in   *)
(* between.  A key stands for its pair; its private half is found in a     *)
(* file or, by decryption, in its row.                                     *)
(***************************************************************************)
EXTENDS Naturals, FiniteSets

CONSTANTS
    Users,     \* ids of users, AUTOINCREMENT, all registered at first
    Admins,    \* those with the role admin
    Owners,    \* users with an instance, which is named by its owner
    Holders,   \* users for whom keypairs are generated
    Assignees, \* users that administrators choose for managed keys
    PubKeys,   \* ids of ssh_keys
    UserKeys,  \* ids of user_ssh_keys
    Managed,   \* ids of managed_ssh_keys
    Procs,     \* requests in flight at once
    Ops,       \* the requests that are made
    MaxRequests, \* a bound on their number
    Faults,    \* file operations that may fail
    None

AllOps == {"CreateSSHKey", "DeleteSSHKey", "GenerateUserKey", "DeleteUserKey",
           "Generate", "Delete", "SetUsers", "DeleteUser",
           "ReapplySetup", "Rebuild", "AddAuthorizedKey"}

Keys == PubKeys \cup UserKeys \cup Managed

ASSUME KeysAssumption ==
    /\ Admins \subseteq Users /\ Owners \subseteq Users /\ Assignees \subseteq Users
    /\ Holders \subseteq Users
    /\ PubKeys \cap UserKeys = {} /\ PubKeys \cap Managed = {} /\ UserKeys \cap Managed = {}
    /\ Users \cap Managed = {}
    /\ None \notin Keys \cup Users
ASSUME OpsAssumption ==
    Ops \subseteq AllOps /\ MaxRequests \in Nat /\ Faults \subseteq {"WriteFile", "RemoveAll"}

VARIABLES
    users,      \* table users: the ids that have a row
    ring,       \* the rows of the three key tables
    assigned,   \* table managed_key_assignments
    disk,       \* whose private key lies in user_<id> and managed_<id>
    authorized, \* authorized_keys of an owner's instance
    idrsa,      \* id_rsa of an owner's instance
    req,        \* the requests
    made,       \* the number of requests so far
    intended,   \* history: the users an administrator last chose for a key
    opened,     \* history: the pairs of managed key and owner ever intended
    invited,    \* history: keys an administrator has put into an instance
    late        \* history: users whose file was written after its key's deletion,
                \* or could not be removed with it

tables  == <<users, ring, assigned>>
remote  == <<authorized, idrsa>>
history == <<intended, opened, invited, late>>
vars == <<users, ring, assigned, disk, authorized, idrsa, req, made,
          intended, opened, invited, late>>

\* A row of ssh_keys or user_ssh_keys has a user, one of managed_ssh_keys none.
Row == [state : {"unused", "live", "deleted"}, user : Users \cup {None}]
Dirs == Holders \cup Managed
Modes == {"plati", "personal"}
Labels == {"idle", "row", "file", "dir", "tx", "public", "pairs", "readPairs",
           "managed", "readManaged", "write", "append"}
Request == [op   : AllOps \cup {"none"},
            pc   : Labels,
            user : Users \cup {None},  \* the account, or the owner of the instance
            key  : Keys \cup {None},
            set  : SUBSET Users,       \* user_ids
            mode : Modes,
            todo : SUBSET Keys,        \* rows whose private half is still to be read
            pub  : SUBSET Keys,        \* publicKeys
            priv : SUBSET Keys]        \* privateKeys

Idle == [op |-> "none", pc |-> "idle", user |-> None, key |-> None, set |-> {},
         mode |-> "plati", todo |-> {}, pub |-> {}, priv |-> {}]

\* The state is well typed, and the foreign keys hold: an assignment has its
\* key and its user, a key its user.
TypeOK ==
    /\ users \subseteq Users
    /\ ring \in [Keys -> Row]
    /\ assigned \subseteq Managed \X Users
    /\ \A a \in assigned : ring[a[1]].state = "live" /\ a[2] \in users
    /\ \A k \in Keys : ring[k].state = "live" => ring[k].user \in users \cup {None}
    /\ disk \in [Dirs -> Keys \cup {None}]
    /\ authorized \in [Owners -> SUBSET Keys]
    /\ idrsa \in [Owners -> Keys \cup {None}]
    /\ req \in [Procs -> Request]
    /\ made \in 0..MaxRequests
    /\ intended \in [Managed -> SUBSET Users]
    /\ opened \subseteq Managed \X Owners
    /\ invited \subseteq Owners \X PubKeys
    /\ late \subseteq Holders

Init ==
    /\ users = Users
    /\ ring = [k \in Keys |-> [state |-> "unused", user |-> None]]
    /\ assigned = {}
    /\ disk = [d \in Dirs |-> None]
    /\ authorized = [o \in Owners |-> {}]
    /\ idrsa = [o \in Owners |-> None]
    /\ req = [p \in Procs |-> Idle]
    /\ made = 0
    /\ intended = [m \in Managed |-> {}]
    /\ opened = {} /\ invited = {} /\ late = {}

-----------------------------------------------------------------------------
(* The tables.                                                             *)

Live(k) == ring[k].state = "live"
KeysOf(K, u) == {k \in K : Live(k) /\ ring[k].user = u}

\* INSERT with a new id; the foreign key on the user must hold.
Insert(k, u) ==
    /\ ring[k].state = "unused"
    /\ ring' = [ring EXCEPT ![k] = [state |-> "live", user |-> u]]

\* DELETE ... WHERE id = ? AND user_id = ?: maybe no row, never an error.
DeleteOwned(k, u) ==
    ring' = IF Live(k) /\ ring[k].user = u THEN [ring EXCEPT ![k].state = "deleted"] ELSE ring

\* Mutant: the assignments of a deleted key stay.
DeleteManagedRowOnly(m) ==
    /\ ring' = IF Live(m) THEN [ring EXCEPT ![m].state = "deleted"] ELSE ring
    /\ UNCHANGED assigned

\* DELETE FROM managed_ssh_keys: the assignments go with the row.
DeleteManagedRow(m) ==
    /\ ring' = IF Live(m) THEN [ring EXCEPT ![m].state = "deleted"] ELSE ring
    /\ assigned' = {a \in assigned : a[1] # m}

\* GetManagedKeysForUser: assigned to the user, or to nobody at all.
Available(m, u) ==
    /\ Live(m)
    /\ <<m, u>> \in assigned \/ \A v \in Users : <<m, v>> \notin assigned

\* ListAllSSHKeysWithOwner for an administrator, the owner's keys and
\* ListAdminSSHKeys for anybody else.
Installable(actor, o) ==
    {k \in PubKeys : Live(k) /\ (actor \in Admins \/ ring[k].user \in Admins \cup {o})}

\* What an administrator has meant a key for: once every user that was chosen
\* is gone, the key is everybody's.
MeantFor(m, u) == u \in intended[m] \/ intended[m] \cap users = {}

-----------------------------------------------------------------------------
(* Control.                                                                *)

At(p, o, l) == req[p].op = o /\ req[p].pc = l
Idling(p) == req[p].pc = "idle"
Becomes(p, r) == req' = [req EXCEPT ![p] = r]
Goto(p, l) == Becomes(p, [req[p] EXCEPT !.pc = l])
Done(p) == Becomes(p, Idle)
Asked(o) == o \in Ops /\ made < MaxRequests /\ made' = made + 1

\* The pairs of live managed key and owner that are meant, in a state with
\* these users, keys and intentions.
Meant(us, live, int) ==
    {a \in live \X Owners : a[2] \in int[a[1]] \/ int[a[1]] \cap us = {}}
LiveManaged == {m \in Managed : Live(m)}

-----------------------------------------------------------------------------
(* Public keys.  The caller's account may have been        *)
(* deleted since its cookie was signed.                                    *)

CreateSSHKey(u) ==
    /\ Asked("CreateSSHKey") /\ u \in users
    /\ \E k \in PubKeys : Insert(k, u)
    /\ UNCHANGED <<users, assigned, disk, remote, req, history>>

DeleteSSHKey(k, u) ==
    /\ Asked("DeleteSSHKey") /\ Live(k)
    /\ DeleteOwned(k, u)
    /\ UNCHANGED <<users, assigned, disk, remote, req, history>>

\* Users with an instance are held by its foreign key; the keys, the
\* assignments and the preferences of the others go with them, their files stay.
DeleteUser(u) ==
    /\ Asked("DeleteUser") /\ u \in users \ Owners
    /\ users' = users \ {u}
    /\ ring' = [k \in Keys |-> IF Live(k) /\ ring[k].user = u
                               THEN [ring[k] EXCEPT !.state = "deleted"] ELSE ring[k]]
    /\ assigned' = {a \in assigned : a[2] # u}
    /\ opened' = opened \cup Meant(users \ {u}, LiveManaged, intended)
    /\ UNCHANGED <<disk, remote, req, intended, invited, late>>

-----------------------------------------------------------------------------
(* Keypairs of a user.                                                     *)

\* GenerateUserSSHKey: the row, then the files of the user's only directory,
\* over those of the key before.
GenerateUserKey(p, u) ==
    /\ Asked("GenerateUserKey") /\ Idling(p) /\ u \in users
    /\ \E k \in UserKeys :
         /\ Insert(k, u)
         /\ Becomes(p, [Idle EXCEPT !.op = "GenerateUserKey", !.pc = "file", !.user = u, !.key = k])
    /\ UNCHANGED <<users, assigned, disk, remote, history>>

WriteUserFile(p) ==
    /\ At(p, "GenerateUserKey", "file")
    /\ \/ /\ disk' = [disk EXCEPT ![req[p].user] = req[p].key]
          /\ late' = IF Live(req[p].key) THEN late \ {req[p].user} ELSE late \cup {req[p].user}
       \/ "WriteFile" \in Faults /\ UNCHANGED <<disk, late>>
    /\ Done(p)
    /\ UNCHANGED <<tables, remote, intended, opened, invited>>

\* DeleteUserSSHKey: the directory goes even when no row was deleted, and with
\* it the file of another key of the user.
DeleteUserKey(p, k, u) ==
    /\ Asked("DeleteUserKey") /\ Idling(p) /\ Live(k)
    /\ DeleteOwned(k, u)
    /\ Becomes(p, [Idle EXCEPT !.op = "DeleteUserKey", !.pc = "dir", !.user = u])
    /\ UNCHANGED <<users, assigned, disk, remote, history>>

\* Mutant: the directory is left.
RemoveUserDirNot(p) ==
    /\ At(p, "DeleteUserKey", "dir")
    /\ Done(p)
    /\ UNCHANGED <<tables, disk, remote, history>>

RemoveUserDir(p) ==
    /\ At(p, "DeleteUserKey", "dir")
    /\ \/ /\ disk' = [disk EXCEPT ![req[p].user] = None]
          /\ late' = late \ {req[p].user}
       \/ /\ "RemoveAll" \in Faults
          /\ late' = late \cup {req[p].user}
          /\ UNCHANGED disk
    /\ Done(p)
    /\ UNCHANGED <<tables, remote, intended, opened, invited>>

-----------------------------------------------------------------------------
(* Managed keypairs.                                                       *)

\* GenerateManagedKey: a new key is everybody's.
GenerateManagedKey(p) ==
    /\ Asked("Generate") /\ Idling(p)
    /\ \E m \in Managed :
         /\ Insert(m, None)
         /\ Becomes(p, [Idle EXCEPT !.op = "Generate", !.pc = "file", !.key = m])
         /\ opened' = opened \cup Meant(users, LiveManaged \cup {m}, intended)
    /\ UNCHANGED <<users, assigned, disk, remote, intended, invited, late>>

WriteManagedFile(p) ==
    /\ At(p, "Generate", "file")
    /\ \/ disk' = [disk EXCEPT ![req[p].key] = req[p].key]
       \/ "WriteFile" \in Faults /\ UNCHANGED disk
    /\ Done(p)
    /\ UNCHANGED <<tables, remote, history>>

DeleteManagedKey(p, m) ==
    /\ Asked("Delete") /\ Idling(p) /\ Live(m)
    /\ DeleteManagedRow(m)
    /\ Becomes(p, [Idle EXCEPT !.op = "Delete", !.pc = "dir", !.key = m])
    /\ UNCHANGED <<users, disk, remote, history>>

RemoveManagedDir(p) ==
    /\ At(p, "Delete", "dir")
    /\ \/ disk' = [disk EXCEPT ![req[p].key] = None]
       \/ "RemoveAll" \in Faults /\ UNCHANGED disk
    /\ Done(p)
    /\ UNCHANGED <<tables, remote, history>>

\* SetManagedKeyUsers checks that the key exists, outside the transaction.
SetManagedKeyUsers(p, m, S) ==
    /\ Asked("SetUsers") /\ Idling(p) /\ Live(m)
    /\ Becomes(p, [Idle EXCEPT !.op = "SetUsers", !.pc = "tx", !.key = m, !.set = S])
    /\ UNCHANGED <<tables, disk, remote, history>>

\* Mutant: without a transaction the old assignments are gone when a new one
\* is refused.
ReplaceUsersUnsafe(p) ==
    /\ At(p, "SetUsers", "tx")
    /\ LET m == req[p].key
           S == req[p].set
       IN IF Live(m) /\ S \subseteq users
            THEN /\ assigned' = {a \in assigned : a[1] # m} \cup {<<m, u>> : u \in S}
                 /\ intended' = [intended EXCEPT ![m] = S]
                 /\ opened' = opened \cup Meant(users, LiveManaged, [intended EXCEPT ![m] = S])
            ELSE assigned' = {a \in assigned : a[1] # m} /\ UNCHANGED <<intended, opened>>
    /\ Done(p)
    /\ UNCHANGED <<users, ring, disk, remote, invited, late>>

\* One transaction: a user or a key that is gone fails a foreign key, and
\* everything is rolled back.
ReplaceUsers(p) ==
    /\ At(p, "SetUsers", "tx")
    /\ LET m == req[p].key
           S == req[p].set
       IN IF S = {} \/ (Live(m) /\ S \subseteq users)
            THEN /\ assigned' = {a \in assigned : a[1] # m} \cup {<<m, u>> : u \in S}
                 /\ intended' = [intended EXCEPT ![m] = S]
                 /\ opened' = opened \cup Meant(users, LiveManaged, [intended EXCEPT ![m] = S])
            ELSE UNCHANGED <<assigned, intended, opened>>
    /\ Done(p)
    /\ UNCHANGED <<users, ring, disk, remote, invited, late>>

-----------------------------------------------------------------------------
(* What a container is given.                                              *)

\* ReapplySetup, always in plati mode, and Rebuild, in the mode that the owner
\* prefers just then.
BeginCollect(p, op, o, m) ==
    /\ Asked(op) /\ Idling(p)
    /\ Becomes(p, [Idle EXCEPT !.op = op, !.pc = "public", !.user = o, !.mode = m])
    /\ UNCHANGED <<tables, disk, remote, history>>

ReapplySetup(p, o) == BeginCollect(p, "ReapplySetup", o, "plati")
Rebuild(p, o) == \E m \in Modes : BeginCollect(p, "Rebuild", o, m)

Collecting(p, l) == req[p].op \in {"ReapplySetup", "Rebuild"} /\ req[p].pc = l
\* The next stage, with these public keys and with private halves to read.
Collect(p, l, K, todo) ==
    /\ Becomes(p, [req[p] EXCEPT !.pc = l, !.pub = @ \cup K, !.todo = todo])
    /\ UNCHANGED <<tables, disk, remote, history>>
\* Mutant: one directory for the keys of all users.
InFileShared(d, k) ==
    IF \E u \in Holders : disk[u] # None
      THEN CHOOSE x \in Keys : \E u \in Holders : disk[u] = x
      ELSE k
\* readPrivKey: what lies in the directory, or else the row's own key.
InFile(d, k) == IF disk[d] = None THEN k ELSE disk[d]
Read(p, l, K) ==
    /\ Becomes(p, [req[p] EXCEPT !.pc = l, !.todo = {}, !.priv = @ \cup K])
    /\ UNCHANGED <<tables, disk, remote, history>>

CollectPublic(p) ==
    /\ Collecting(p, "public")
    /\ Collect(p, "pairs", KeysOf(PubKeys, req[p].user), {})

CollectPairs(p) ==
    /\ Collecting(p, "pairs")
    /\ LET K == KeysOf(UserKeys, req[p].user) IN
       Collect(p, "readPairs", K, IF req[p].mode = "personal" THEN K ELSE {})

ReadPairs(p) ==
    /\ Collecting(p, "readPairs")
    /\ Read(p, "managed", {InFile(req[p].user, k) : k \in req[p].todo})

CollectManaged(p) ==
    /\ Collecting(p, "managed")
    /\ LET K == {m \in Managed : Available(m, req[p].user)} IN
       Collect(p, "readManaged", K, IF req[p].mode = "plati" THEN K ELSE {})

ReadManaged(p) ==
    /\ Collecting(p, "readManaged")
    /\ Read(p, "write", {InFile(m, m) : m \in req[p].todo})

\* buildSSHSetupSteps: authorized_keys is replaced, but only if there are keys;
\* every private key is written to the same id_rsa, and the last one stays.
WriteKeys(p) ==
    /\ Collecting(p, "write")
    /\ LET o == req[p].user IN
       /\ authorized' = IF req[p].pub = {} THEN authorized
                        ELSE [authorized EXCEPT ![o] = req[p].pub]
       /\ IF req[p].priv = {} THEN UNCHANGED idrsa
          ELSE \E k \in req[p].priv : idrsa' = [idrsa EXCEPT ![o] = k]
    /\ Done(p)
    /\ UNCHANGED <<tables, disk, history>>

\* AddAuthorizedKey: the instance must be the actor's, or the actor an
\* administrator, and the key on the actor's list.
AddAuthorizedKey(p, actor, o, k) ==
    /\ Asked("AddAuthorizedKey") /\ Idling(p)
    /\ actor \in users /\ actor \in Admins \cup {o} /\ k \in Installable(actor, o)
    /\ Becomes(p, [Idle EXCEPT !.op = "AddAuthorizedKey", !.pc = "append", !.user = o, !.key = k,
                  !.set = {actor}])
    /\ UNCHANGED <<tables, disk, remote, history>>

AppendKey(p) ==
    /\ At(p, "AddAuthorizedKey", "append")
    /\ authorized' = [authorized EXCEPT ![req[p].user] = @ \cup {req[p].key}]
    /\ invited' = IF req[p].set \subseteq Admins
                    THEN invited \cup {<<req[p].user, req[p].key>>} ELSE invited
    /\ Done(p)
    /\ UNCHANGED <<tables, disk, idrsa, intended, opened, late>>

-----------------------------------------------------------------------------
Step(p) ==
    \/ WriteUserFile(p) \/ RemoveUserDir(p) \/ WriteManagedFile(p) \/ RemoveManagedDir(p)
    \/ ReplaceUsers(p)
    \/ CollectPublic(p) \/ CollectPairs(p) \/ ReadPairs(p)
    \/ CollectManaged(p) \/ ReadManaged(p) \/ WriteKeys(p)
    \/ AppendKey(p)

Begin(p) ==
    \/ \E u \in Holders : GenerateUserKey(p, u)
    \/ \E u \in Holders, k \in UserKeys : DeleteUserKey(p, k, u)
    \/ GenerateManagedKey(p)
    \/ \E m \in Managed : DeleteManagedKey(p, m)
    \/ \E m \in Managed, S \in SUBSET Assignees : SetManagedKeyUsers(p, m, S)
    \/ \E o \in Owners : ReapplySetup(p, o) \/ Rebuild(p, o)
    \/ \E o \in Owners, a \in Users, k \in PubKeys : AddAuthorizedKey(p, a, o, k)

\* All requests that the bound admits are done.
Quiet ==
    /\ made = MaxRequests /\ \A p \in Procs : Idling(p)
    /\ UNCHANGED vars

Next ==
    \/ \E u \in Users : CreateSSHKey(u) \/ DeleteUser(u)
    \/ \E u \in Users, k \in PubKeys : DeleteSSHKey(k, u)
    \/ \E p \in Procs : Begin(p) \/ (Step(p) /\ UNCHANGED made)
    \/ Quiet

Spec == Init /\ [][Next]_vars

-----------------------------------------------------------------------------
\* A managed key is available to a user only if an administrator chose that
\* user, or nobody who is still there: whatever the order of assignments,
\* refused assignments and deletions of users and keys.
AvailabilityIsIntended ==
    \A m \in Managed, u \in users : Available(m, u) => MeantFor(m, u)

\* The private key on disk is one of the user's registered keys, unless the
\* removal of the directory is still to come or the file was written after
\* its key had been deleted; a managed key's directory holds that key.
DiskMatchesRows ==
    /\ \A u \in (users \cap Holders) \ late :
         \/ disk[u] \in {None} \cup KeysOf(UserKeys, u)
         \/ \E p \in Procs : At(p, "DeleteUserKey", "dir") /\ req[p].user = u
    /\ \A m \in Managed : disk[m] \in {None, m}

\* Whoever can enter an instance, or acts from it, was once entitled to: the
\* keys in it are its owner's, an administrator's, a managed key that was
\* meant for the owner, or one that an administrator has put there.
AccessIsGranted ==
    \A o \in Owners :
      /\ \A k \in authorized[o] :
           \/ k \in PubKeys /\ (ring[k].user \in Admins \cup {o} \/ <<o, k>> \in invited)
           \/ k \in UserKeys /\ ring[k].user = o
           \/ k \in Managed /\ <<k, o>> \in opened
      /\ \/ idrsa[o] = None
         \/ idrsa[o] \in UserKeys /\ ring[idrsa[o]].user = o
         \/ idrsa[o] \in Managed /\ <<idrsa[o], o>> \in opened

=============================================================================
