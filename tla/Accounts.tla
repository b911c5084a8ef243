------------------------------- MODULE Accounts -------------------------------
(***************************************************************************)
(* Accounts and what proves them: the users, their sessions and API keys,  *)
(* the secrets and preferences they keep, and the setup that gives the     *)
(* server its password and its keys.                                       *)
(*                                                                         *)
(* The configuration is a file that plati-config writes once, blank, and   *)
(* that the setup rewrites while the server works with the copy it loaded  *)
(* at its start.  A session carries the user and the role of its login and *)
(* the key it was signed with; a request of a session does not look the    *)
(* user up, so it may be that of a user who is gone.                       *)
(***************************************************************************)
EXTENDS Naturals, FiniteSets

CONSTANTS
    MaxUser,     \* ids of users, AUTOINCREMENT
    Emails,
    Root,        \* admin@plati.local, the user that the migrations create
    Subs,        \* accounts of Entra ID
    EmailOf,     \* the email of each
    MaxKey,      \* ids and secrets of API keys
    MaxSetup,    \* a bound on the setups begun
    Jobs,        \* requests of several steps at once, numbered
    MaxRequests, \* a bound on the requests and restarts
    Empty,       \* the content of a file cut off before its first byte
    None

ASSUME AccountBounds ==
    /\ MaxUser \in Nat \ {0} /\ MaxKey \in Nat /\ MaxSetup \in Nat
    /\ MaxRequests \in Nat /\ Jobs \subseteq Nat
ASSUME EmailsAssumption ==
    /\ Root \in Emails /\ EmailOf \in [Subs -> Emails] /\ None \notin Subs \cup Nat
ASSUME EmptyAssumption == Empty \notin Nat \cup {None}

VARIABLES
    user,    \* table users
    key,     \* table api_keys
    secret,  \* table secrets: for each user, the key that encrypts its secret
    prefs,   \* table user_preferences: whose
    done,    \* settings: setup_completed
    file,    \* the configuration: the setup whose keys and password it holds
    up,      \* the server runs
    mem,     \* its copy of the configuration
    own,     \* the database is not the one of the default database.path
    job,
    session, \* the sessions handed out
    issued,  \* the API keys handed out: secret, and account
    setups,  \* the number of setups begun
    tokens,  \* the number of secrets of API keys made
    made,    \* the number of requests and restarts so far
    twice,   \* history: two setups were under way at once
    early    \* history: users whose secret was stored before the server had
             \* started with the keys of its setup

tables == <<user, key, secret, prefs>>
config == <<done, file, up, mem, own>>
proofs == <<session, issued, tokens>>
vars == <<tables, config, proofs, job, setups, made, twice, early>>

Uids  == 1..MaxUser
KeyIds == 1..MaxKey
Roles == {"admin", "user"}
\* Keys and password of the n-th setup; 0: blank.
Gens  == 0..MaxSetup
Blank == 0
User == [state : {"unused", "live", "deleted"}, email : Emails, role : Roles,
         sub : Subs \cup {None}, pass : BOOLEAN]
Unused == [state |-> "unused", email |-> Root, role |-> "user", sub |-> None, pass |-> FALSE]
APIKey == [state : {"unused", "live", "deleted"}, user : Uids, secret : 0..MaxKey]
NoKey == [state |-> "unused", user |-> 1, secret |-> 0]
Session == [user : Uids, role : Roles, keys : Gens]
Job == [pc : {"idle", "truncate", "write", "memory", "setting", "password"},
        gen : Gens, user : Uids]
Idle == [pc |-> "idle", gen |-> 0, user |-> 1]

Live(u) == user[u].state = "live"
KeyLive(k) == key[k].state = "live"

\* The state is well typed; emails, Entra accounts and hashes of API keys are
\* unique, as the tables demand.
TypeOK ==
    /\ user \in [Uids -> User]
    /\ \A u, v \in Uids :
         /\ Live(u) /\ Live(v)
         /\ user[u].email = user[v].email \/ (user[u].sub = user[v].sub /\ user[u].sub # None)
         => u = v
    /\ key \in [KeyIds -> APIKey]
    /\ \A k, l \in KeyIds : KeyLive(k) /\ KeyLive(l) /\ key[k].secret = key[l].secret => k = l
    /\ \A k \in KeyIds : key[k].secret <= tokens
    /\ secret \in [Uids -> Gens \cup {None}] /\ prefs \subseteq Uids
    /\ done \in BOOLEAN /\ up \in BOOLEAN
    /\ own \in BOOLEAN
    /\ file \in Gens \cup {Empty, None} /\ mem \in [keys : Gens, hash : Gens]
    /\ job \in [Jobs -> Job]
    /\ session \subseteq Session /\ issued \subseteq [secret : 0..MaxKey, user : Uids]
    /\ setups \in Gens /\ tokens \in 0..MaxKey /\ made \in 0..MaxRequests
    /\ twice \in BOOLEAN /\ early \subseteq Uids

\* What Migrate makes of an empty database: the administrator.
Migrated == [u \in Uids |-> IF u = 1 THEN [Unused EXCEPT !.state = "live", !.role = "admin"]
                            ELSE Unused]

\* plati-config has not run yet.
Init ==
    /\ user = Migrated
    /\ key = [k \in KeyIds |-> NoKey]
    /\ secret = [u \in Uids |-> None] /\ prefs = {}
    /\ own \in BOOLEAN
    /\ done = FALSE /\ file = None /\ up = FALSE /\ mem = [keys |-> Blank, hash |-> Blank]
    /\ job = [p \in Jobs |-> Idle]
    /\ session = {} /\ issued = {} /\ setups = 0 /\ tokens = 0 /\ made = 0
    /\ twice = FALSE /\ early = {}

-----------------------------------------------------------------------------
(* Who asks, and the tables' constraints.                                  *)

Asked == made < MaxRequests /\ made' = made + 1
Busy == {p \in Jobs : job[p].pc # "idle"}
Free(p) == p \notin Busy /\ \A q \in Jobs : q < p => q \in Busy
SettingUp == {p \in Busy : job[p].pc # "password"}
Goto(p, l) == job' = [job EXCEPT ![p].pc = l]
Done(p) == job' = [job EXCEPT ![p] = Idle]

\* ValidateToken: signed with the key the server has loaded; the claims are
\* those of the login.
BySession(u, r) == \E s \in session : s = [user |-> u, role |-> r, keys |-> mem.keys]
\* Authenticate: the key by its hash, then its user, with the role of today.
ByKey(u, r) ==
    \E t \in issued, k \in KeyIds :
      KeyLive(k) /\ key[k].secret = t.secret /\ key[k].user = u /\ Live(u) /\ user[u].role = r
\* AuthMiddleware; AdminMiddleware wants the role.
Caller(u, r) == up /\ (BySession(u, r) \/ ByKey(u, r))
Someone(u) == \E r \in Roles : Caller(u, r)
Admin == \E u \in Uids : Caller(u, "admin")

\* Mutant: a database opened without foreign keys.
ReferencedUnchecked(u) == u \in Uids
\* REFERENCES users(id), with _foreign_keys=on.
Referenced(u) == Live(u)
FreshUser(u) == user[u].state = "unused" /\ \A v \in Uids : v < u => user[v].state # "unused"
FreshKey(k) == key[k].state = "unused" /\ \A l \in KeyIds : l < k => key[l].state # "unused"
\* Mutant: UNIQUE (email, entra_id).
EmailTakenTwice(e) == \E v \in Uids : Live(v) /\ user[v].email = e /\ user[v].sub # None
EmailTaken(e) == \E v \in Uids : Live(v) /\ user[v].email = e
BySub(s) == {v \in Uids : Live(v) /\ user[v].sub = s}

-----------------------------------------------------------------------------
(* The configuration and the setup.                                        *)

\* Mutant: plati-config writes its file over one that exists.
PlatiConfigAnew ==
    /\ Asked /\ ~up
    /\ file' = Blank
    /\ UNCHANGED <<tables, done, up, mem, own, proofs, job, setups, twice, early>>
\* plati-config: a file that exists is left as it is.
PlatiConfig ==
    /\ Asked /\ ~up /\ file = None
    /\ file' = Blank
    /\ UNCHANGED <<tables, done, up, mem, own, proofs, job, setups, twice, early>>

\* main: config.Load, and NewUserService with its key.  A file that a setup
\* has cut off and not written is blank,
Loaded == IF file = Empty THEN Blank ELSE file
Boot ==
    /\ Asked /\ ~up /\ file # None /\ (own => file # Empty)
    /\ up' = TRUE /\ mem' = [keys |-> Loaded, hash |-> Loaded]
    /\ UNCHANGED <<tables, done, file, own, proofs, job, setups, twice, early>>
\* and it has lost its database.path: the server makes the database of the
\* default path, and the one it had is not read again.
BootElsewhere ==
    /\ Asked /\ ~up /\ file = Empty /\ own
    /\ up' = TRUE /\ mem' = [keys |-> Blank, hash |-> Blank] /\ own' = FALSE
    /\ user' = Migrated /\ key' = [k \in KeyIds |-> NoKey]
    /\ secret' = [u \in Uids |-> None] /\ prefs' = {} /\ done' = FALSE /\ early' = {}
    /\ UNCHANGED <<file, proofs, job, setups, twice>>

\* The server stops, between the steps of a request or not.
Stop ==
    /\ Asked /\ up
    /\ up' = FALSE /\ job' = [p \in Jobs |-> Idle]
    /\ UNCHANGED <<tables, done, file, mem, own, proofs, setups, twice, early>>

\* Mutant: the setup may be done again.
BeginSetupAgain(p) ==
    /\ Asked /\ up /\ Free(p) /\ setups < MaxSetup
    /\ setups' = setups + 1
    /\ job' = [job EXCEPT ![p] = [Idle EXCEPT !.pc = "truncate", !.gen = setups + 1]]
    /\ twice' = (twice \/ SettingUp # {})
    /\ UNCHANGED <<tables, config, proofs, early>>
\* Complete: refused once the setup is completed; then a password, and keys
\* of its own.
BeginSetup(p) ==
    /\ Asked /\ up /\ Free(p) /\ setups < MaxSetup /\ ~done
    /\ setups' = setups + 1
    /\ job' = [job EXCEPT ![p] = [Idle EXCEPT !.pc = "truncate", !.gen = setups + 1]]
    /\ twice' = (twice \/ SettingUp # {})
    /\ UNCHANGED <<tables, config, proofs, early>>

\* os.WriteFile truncates the file and then writes it.
TruncateConfig(p) ==
    /\ job[p].pc = "truncate"
    /\ file' = Empty
    /\ Goto(p, "write")
    /\ UNCHANGED <<tables, done, up, mem, own, proofs, setups, made, twice, early>>
WriteConfig(p) ==
    /\ job[p].pc = "write"
    /\ file' = job[p].gen
    /\ Goto(p, "memory")
    /\ UNCHANGED <<tables, done, up, mem, own, proofs, setups, made, twice, early>>
\* The password counts at once; the keys do when the server starts again.
SetHash(p) ==
    /\ job[p].pc = "memory"
    /\ mem' = [mem EXCEPT !.hash = job[p].gen]
    /\ Goto(p, "setting")
    /\ UNCHANGED <<tables, done, file, up, own, proofs, setups, made, twice, early>>
MarkComplete(p) ==
    /\ job[p].pc = "setting"
    /\ done' = TRUE
    /\ Done(p)
    /\ UNCHANGED <<tables, file, up, mem, own, proofs, setups, made, twice, early>>

-----------------------------------------------------------------------------
(* Logins.                                                                 *)

\* setTokenCookie: signed with the key in memory.
Login(u) == session' = session \cup {[user |-> u, role |-> user[u].role, keys |-> mem.keys]}

\* The password of the setup, for the administrator of the migrations.
LoginAdmin(u) ==
    /\ Asked /\ up /\ mem.hash # Blank /\ Live(u) /\ user[u].email = Root
    /\ Login(u)
    /\ UNCHANGED <<tables, config, issued, tokens, job, setups, twice, early>>
LoginUser(u) ==
    /\ Asked /\ up /\ Live(u) /\ user[u].pass
    /\ Login(u)
    /\ UNCHANGED <<tables, config, issued, tokens, job, setups, twice, early>>

\* The code stands for an account of Entra ID: its sub and its email.
Exchange(s) == [sub |-> s, email |-> EmailOf[s]]

\* CallbackEntra: UpsertEntraUser inserts the user or finds it, by its sub; an
\* email that another account has is an error.
CallbackEntra(s) ==
    /\ Asked /\ up
    /\ \/ /\ BySub(s) # {}
          /\ \E u \in BySub(s) : Login(u)
          /\ UNCHANGED user
       \/ /\ BySub(s) = {} /\ ~EmailTaken(Exchange(s).email)
          /\ \E u \in Uids :
               /\ FreshUser(u)
               /\ user' = [user EXCEPT ![u] = [state |-> "live", email |-> Exchange(s).email,
                                               role |-> "user", sub |-> Exchange(s).sub,
                                               pass |-> FALSE]]
               /\ session' = session \cup {[user |-> u, role |-> "user", keys |-> mem.keys]}
    /\ UNCHANGED <<key, secret, prefs, config, issued, tokens, job, setups, twice, early>>

\* Logout drops the cookie, and a token ends with its lifetime.
EndSession(s) ==
    /\ Asked /\ s \in session
    /\ session' = session \ {s}
    /\ UNCHANGED <<tables, config, issued, tokens, job, setups, twice, early>>

-----------------------------------------------------------------------------
(* Requests of administrators.                                             *)

CreateUser(e, r) ==
    /\ Asked /\ Admin /\ ~EmailTaken(e)
    /\ \E u \in Uids :
         /\ FreshUser(u)
         /\ user' = [user EXCEPT ![u] = [state |-> "live", email |-> e, role |-> r,
                                         sub |-> None, pass |-> TRUE]]
    /\ UNCHANGED <<key, secret, prefs, config, proofs, job, setups, twice, early>>

\* UpdateUser, and SetPassword after it if there is a new password.
UpdateUser(p, u, r, pass) ==
    /\ Asked /\ Admin /\ Free(p) /\ user[u].state # "unused"
    /\ user' = IF Live(u) THEN [user EXCEPT ![u].role = r] ELSE user
    /\ job' = IF pass THEN [job EXCEPT ![p] = [Idle EXCEPT !.pc = "password", !.user = u]] ELSE job
    /\ UNCHANGED <<key, secret, prefs, config, proofs, setups, twice, early>>
SetPassword(p) ==
    /\ job[p].pc = "password"
    /\ user' = IF Live(job[p].user) THEN [user EXCEPT ![job[p].user].pass = TRUE] ELSE user
    /\ Done(p)
    /\ UNCHANGED <<key, secret, prefs, config, proofs, setups, made, twice, early>>

\* The rows that belong to the user go with it, by ON DELETE CASCADE.
DeleteUser(u) ==
    /\ Asked /\ Admin /\ Live(u)
    /\ user' = [user EXCEPT ![u].state = "deleted"]
    /\ key' = [k \in KeyIds |-> IF KeyLive(k) /\ key[k].user = u
                                THEN [key[k] EXCEPT !.state = "deleted"] ELSE key[k]]
    /\ secret' = [secret EXCEPT ![u] = None]
    /\ prefs' = prefs \ {u}
    /\ early' = early \ {u}
    /\ UNCHANGED <<config, proofs, job, setups, twice>>

AdminCreateKey(u) ==
    /\ Asked /\ Admin /\ Referenced(u)
    /\ tokens < MaxKey
    /\ \E k \in KeyIds :
         /\ FreshKey(k)
         /\ key' = [key EXCEPT ![k] = [state |-> "live", user |-> u, secret |-> tokens + 1]]
    /\ tokens' = tokens + 1
    /\ issued' = issued \cup {[secret |-> tokens + 1, user |-> u]}
    /\ UNCHANGED <<user, secret, prefs, config, session, job, setups, twice, early>>

\* Mutant: WHERE id = ?
RegenerateAnyones(k, u) ==
    /\ KeyLive(k) /\ tokens < MaxKey
    /\ key' = [key EXCEPT ![k].secret = tokens + 1]
    /\ tokens' = tokens + 1
    /\ issued' = issued \cup {[secret |-> tokens + 1, user |-> u]}
\* RegenerateAPIKey: WHERE id = ? AND user_id = ?
Regenerate(k, u) ==
    /\ KeyLive(k) /\ key[k].user = u /\ tokens < MaxKey
    /\ key' = [key EXCEPT ![k].secret = tokens + 1]
    /\ tokens' = tokens + 1
    /\ issued' = issued \cup {[secret |-> tokens + 1, user |-> u]}

AdminRegenerate(k, u) ==
    /\ Asked /\ Admin
    /\ Regenerate(k, u)
    /\ UNCHANGED <<user, secret, prefs, config, session, job, setups, twice, early>>

-----------------------------------------------------------------------------
(* Requests of users.                                                      *)

RegenerateMine(k, u) ==
    /\ Asked /\ Someone(u)
    /\ Regenerate(k, u)
    /\ UNCHANGED <<user, secret, prefs, config, session, job, setups, twice, early>>

\* Encrypt, with the key in memory.
Encrypt(u) ==
    /\ secret' = [secret EXCEPT ![u] = mem.keys]
    /\ early' = IF done /\ mem.keys = file THEN early \ {u} ELSE early \cup {u}
\* UNIQUE(user_id, name), of the one name.
CreateSecret(u) ==
    /\ Asked /\ Someone(u) /\ Referenced(u) /\ secret[u] = None
    /\ Encrypt(u)
    /\ UNCHANGED <<user, key, prefs, config, proofs, job, setups, twice>>
UpdateSecret(u) ==
    /\ Asked /\ Someone(u) /\ secret[u] # None
    /\ Encrypt(u)
    /\ UNCHANGED <<user, key, prefs, config, proofs, job, setups, twice>>
DeleteSecret(u) ==
    /\ Asked /\ Someone(u) /\ secret[u] # None
    /\ secret' = [secret EXCEPT ![u] = None]
    /\ early' = early \ {u}
    /\ UNCHANGED <<user, key, prefs, config, proofs, job, setups, twice>>

UpdatePreferences(u) ==
    /\ Asked /\ Someone(u) /\ Referenced(u) /\ u \notin prefs
    /\ prefs' = prefs \cup {u}
    /\ UNCHANGED <<user, key, secret, config, proofs, job, setups, twice, early>>

-----------------------------------------------------------------------------
Begin(p) ==
    \/ BeginSetup(p)
    \/ \E u \in Uids, r \in Roles, pass \in BOOLEAN : UpdateUser(p, u, r, pass)
Step(p) ==
    TruncateConfig(p) \/ WriteConfig(p) \/ SetHash(p) \/ MarkComplete(p) \/ SetPassword(p)
Logins ==
    \/ \E u \in Uids : LoginAdmin(u) \/ LoginUser(u)
    \/ \E s \in Subs : CallbackEntra(s)
    \/ \E s \in session : EndSession(s)
Requests ==
    \/ \E e \in Emails, r \in Roles : CreateUser(e, r)
    \/ \E u \in Uids : DeleteUser(u) \/ AdminCreateKey(u)
    \/ \E k \in KeyIds, u \in Uids : AdminRegenerate(k, u) \/ RegenerateMine(k, u)
    \/ \E u \in Uids : CreateSecret(u) \/ UpdateSecret(u) \/ DeleteSecret(u) \/ UpdatePreferences(u)
\* All requests of the bound have been served.
Quiet == made = MaxRequests /\ Busy = {} /\ UNCHANGED vars

Next ==
    \/ \E p \in Jobs : Begin(p) \/ Step(p)
    \/ Logins \/ Requests
    \/ PlatiConfig \/ Boot \/ BootElsewhere \/ Stop \/ Quiet

Spec == Init /\ [][Next]_vars

-----------------------------------------------------------------------------
\* buildSecretsEnv: a secret that cannot be decrypted is left out of the
\* instance without a word.
Injected(u) == secret[u] = mem.keys

\* Whatever a session of a user who has been deleted still asks for, no key,
\* secret or preference is left that belongs to nobody.
NoOrphans ==
    /\ \A k \in KeyIds : KeyLive(k) => Live(key[k].user)
    /\ \A u \in Uids : secret[u] # None \/ u \in prefs => Live(u)

\* An API key acts for the account it was handed to and for no other, however
\* keys are made, made anew and deleted, and by whom.
KeysActForHolders ==
    \A t \in issued, k \in KeyIds :
        KeyLive(k) /\ key[k].secret = t.secret => key[k].user = t.user

\* After a setup the administrator's password is the same before the server's
\* restart and after it, wherever the setup was cut short, unless two setups
\* were under way at once.
PasswordAgrees ==
    up /\ done /\ ~twice => mem.hash = file

\* A secret stored by a server that had started with the keys of its setup can
\* be decrypted for good, unless two setups were under way at once.
SecretsReadable ==
    up /\ ~twice => \A u \in Uids \ early : secret[u] # None => Injected(u)

\* Both outlive the restarts of the server.
SetupSurvives == PasswordAgrees /\ SecretsReadable

\* Once the setup is completed no request, restart or run of plati-config
\* changes the configuration, unless two setups were under way at once.
SetupKeysStay == [][done /\ ~twice => file' = file]_vars
=============================================================================
