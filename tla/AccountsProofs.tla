---------------------------- MODULE AccountsProofs ----------------------------
(***************************************************************************)
(* Theorems about Accounts, for any numbers of users, emails, API keys,    *)
(* setups and requests at once.                                            *)
(***************************************************************************)
EXTENDS Accounts, TLAPS

-----------------------------------------------------------------------------
(* The types, table by table.                                              *)

UsersTyped ==
    /\ user \in [Uids -> User]
    /\ \A u, v \in Uids :
         /\ Live(u) /\ Live(v)
         /\ user[u].email = user[v].email \/ (user[u].sub = user[v].sub /\ user[u].sub # None)
         => u = v
KeysTyped ==
    /\ key \in [KeyIds -> APIKey]
    /\ \A k, l \in KeyIds : KeyLive(k) /\ KeyLive(l) /\ key[k].secret = key[l].secret => k = l
    /\ \A k \in KeyIds : key[k].secret <= tokens
    /\ issued \subseteq [secret : 0..MaxKey, user : Uids] /\ tokens \in 0..MaxKey
OwnedTyped == secret \in [Uids -> Gens \cup {None}] /\ prefs \subseteq Uids /\ early \subseteq Uids
ConfigTyped ==
    /\ done \in BOOLEAN /\ up \in BOOLEAN /\ own \in BOOLEAN
    /\ file \in Gens \cup {Empty, None} /\ mem \in [keys : Gens, hash : Gens]
JobsTyped == job \in [Jobs -> Job] /\ setups \in Gens /\ twice \in BOOLEAN
SessionsTyped == session \subseteq Session

LEMMA TypeParts ==
    TypeOK <=> /\ UsersTyped /\ KeysTyped /\ OwnedTyped /\ ConfigTyped /\ JobsTyped
               /\ SessionsTyped /\ made \in 0..MaxRequests
BY DEF TypeOK, UsersTyped, KeysTyped, OwnedTyped, ConfigTyped, JobsTyped, SessionsTyped

LEMMA TypePartsNext ==
    ASSUME UsersTyped', KeysTyped', OwnedTyped', ConfigTyped', JobsTyped', SessionsTyped',
           made' \in 0..MaxRequests
    PROVE  TypeOK'
BY DEF TypeOK, UsersTyped, KeysTyped, OwnedTyped, ConfigTyped, JobsTyped, SessionsTyped, Live, KeyLive

LEMMA Bounds ==
    /\ MaxUser \in Nat \ {0} /\ MaxKey \in Nat /\ MaxSetup \in Nat /\ MaxRequests \in Nat
    /\ Root \in Emails /\ None \notin Nat /\ None \notin Subs
    /\ Empty \notin Nat /\ Empty # None
    /\ 1 \in Uids /\ 0 \in Gens /\ Blank \in Gens
    /\ \A s \in Subs : EmailOf[s] \in Emails
BY AccountBounds, EmailsAssumption, EmptyAssumption DEF Uids, Gens, Blank

LEMMA MadeTyped ==
    ASSUME TypeOK, Asked PROVE made' \in 0..MaxRequests
BY Bounds DEF TypeOK, Asked

LEMMA UsersSame ==
    ASSUME UsersTyped, UNCHANGED user PROVE UsersTyped'
BY DEF UsersTyped, Live
LEMMA KeysSame ==
    ASSUME KeysTyped, UNCHANGED <<key, issued, tokens>> PROVE KeysTyped'
BY DEF KeysTyped, KeyLive
LEMMA OwnedSame ==
    ASSUME OwnedTyped, UNCHANGED <<secret, prefs, early>> PROVE OwnedTyped'
BY DEF OwnedTyped
LEMMA ConfigSame ==
    ASSUME ConfigTyped, UNCHANGED config PROVE ConfigTyped'
BY DEF ConfigTyped, config
LEMMA JobsSame ==
    ASSUME JobsTyped, UNCHANGED <<job, setups, twice>> PROVE JobsTyped'
BY DEF JobsTyped

\* Statements on users.
LEMMA InsertUserTyped ==
    ASSUME UsersTyped, NEW u \in Uids, NEW e \in Emails, NEW r \in Roles, NEW s \in Subs \cup {None},
           NEW b \in BOOLEAN, user[u].state = "unused", ~EmailTaken(e), s # None => BySub(s) = {},
           user' = [user EXCEPT ![u] = [state |-> "live", email |-> e, role |-> r, sub |-> s, pass |-> b]]
    PROVE  UsersTyped'
<1> DEFINE x == [state |-> "live", email |-> e, role |-> r, sub |-> s, pass |-> b]
<1>1. x \in User
  BY DEF User
<1>2. user' \in [Uids -> User]
  BY <1>1 DEF UsersTyped
<1>3. \A v \in Uids : Live(v) => user[v].email # e /\ (s # None => user[v].sub # s)
  BY DEF EmailTaken, BySub
<1>4. user'[u] = x /\ \A v \in Uids \ {u} : user'[v] = user[v]
  BY DEF UsersTyped
<1>5. QED
  BY <1>2, <1>3, <1>4 DEF UsersTyped, Live

LEMMA UpdateUserTyped ==
    ASSUME UsersTyped, user' \in [Uids -> User],
           \A u \in Uids : /\ Live(u)' => Live(u)
                           /\ user'[u].email = user[u].email /\ user'[u].sub = user[u].sub
    PROVE  UsersTyped'
BY DEF UsersTyped

\* Statements on API keys.
LEMMA NewSecretTyped ==
    ASSUME KeysTyped, NEW k \in KeyIds, NEW u \in Uids, tokens < MaxKey,
           key' \in [KeyIds -> APIKey], key'[k].secret = tokens + 1,
           \A l \in KeyIds \ {k} : key'[l] = key[l],
           tokens' = tokens + 1, issued' = issued \cup {[secret |-> tokens + 1, user |-> u]}
    PROVE  KeysTyped'
<1>1. \A l \in KeyIds : key[l].secret \in Nat /\ key[l].secret <= tokens
  BY Bounds DEF KeysTyped, APIKey
<1>2. tokens \in Nat /\ tokens' \in 0..MaxKey
  BY Bounds DEF KeysTyped
<1>3. \A l \in KeyIds : key'[l].secret <= tokens'
  BY <1>1, <1>2
<1>4. \A l, m \in KeyIds : KeyLive(l)' /\ KeyLive(m)' /\ key'[l].secret = key'[m].secret => l = m
  BY <1>1, <1>2 DEF KeysTyped, KeyLive
<1>5. issued' \subseteq [secret : 0..MaxKey, user : Uids]
  BY <1>2 DEF KeysTyped
<1>6. QED
  BY <1>2, <1>3, <1>4, <1>5 DEF KeysTyped

\* A session is that of its login.
LEMMA LoginTyped ==
    ASSUME TypeOK, NEW u \in Uids, Login(u) PROVE SessionsTyped'
<1>1. user[u].role \in Roles
  BY DEF TypeOK, User
<1>2. mem.keys \in Gens
  BY DEF TypeOK
<1>3. QED
  BY <1>1, <1>2 DEF TypeOK, Login, Session, SessionsTyped

\* Jobs.
LEMMA JobTyped ==
    ASSUME JobsTyped, NEW p \in Jobs, NEW j \in Job, job' = [job EXCEPT ![p] = j],
           UNCHANGED <<setups, twice>>
    PROVE  JobsTyped'
BY DEF JobsTyped
LEMMA IdleIsJob == Idle \in Job
BY Bounds DEF Idle, Job
LEMMA GotoTyped ==
    ASSUME JobsTyped, NEW p \in Jobs, Goto(p, "write") \/ Goto(p, "memory") \/ Goto(p, "setting"),
           UNCHANGED <<setups, twice>>
    PROVE  JobsTyped'
BY DEF JobsTyped, Goto, Job
LEMMA DoneTyped ==
    ASSUME JobsTyped, NEW p \in Jobs, Done(p), UNCHANGED <<setups, twice>>
    PROVE  JobsTyped'
BY IdleIsJob, JobTyped DEF Done

-----------------------------------------------------------------------------
(* Each action keeps the types.                                            *)

LEMMA StopTyped ==
    ASSUME JobsTyped, job' = [p \in Jobs |-> Idle], UNCHANGED <<setups, twice>> PROVE JobsTyped'
BY IdleIsJob DEF JobsTyped

LEMMA BeginSetupTyped ==
    ASSUME TypeOK, NEW p \in Jobs, BeginSetup(p) PROVE TypeOK'
<1> DEFINE j == [Idle EXCEPT !.pc = "truncate", !.gen = setups + 1]
<1>1. UsersTyped' /\ KeysTyped' /\ OwnedTyped' /\ ConfigTyped' /\ SessionsTyped'
  BY TypeParts, UsersSame, KeysSame, OwnedSame, ConfigSame
     DEF BeginSetup, tables, proofs, config, SessionsTyped
<1>2. setups' \in Gens
  BY Bounds DEF TypeOK, BeginSetup, Gens
<1>3. j \in Job
  BY Bounds, <1>2 DEF BeginSetup, Idle, Job
<1>4. job' = [job EXCEPT ![p] = j] /\ twice' = (twice \/ SettingUp # {})
  BY DEF BeginSetup
<1> HIDE DEF j
<1>5. JobsTyped'
  BY <1>2, <1>3, <1>4, TypeParts DEF JobsTyped
<1>6. QED
  BY <1>1, <1>5, TypePartsNext, MadeTyped DEF BeginSetup

LEMMA SetupStepTyped ==
    ASSUME TypeOK, NEW p \in Jobs,
           TruncateConfig(p) \/ WriteConfig(p) \/ SetHash(p) \/ MarkComplete(p)
    PROVE  TypeOK'
<1>1. UsersTyped' /\ KeysTyped' /\ OwnedTyped' /\ SessionsTyped' /\ made' \in 0..MaxRequests
  BY TypeParts, UsersSame, KeysSame, OwnedSame
     DEF TruncateConfig, WriteConfig, SetHash, MarkComplete, tables, proofs, SessionsTyped
<1>2. job[p].gen \in Gens
  BY DEF TypeOK, Job
<1>3. ConfigTyped'
  BY <1>2, TypeParts, Bounds DEF TruncateConfig, WriteConfig, SetHash, MarkComplete, ConfigTyped
<1>4. JobsTyped'
  BY TypeParts, GotoTyped, DoneTyped DEF TruncateConfig, WriteConfig, SetHash, MarkComplete
<1>5. QED
  BY <1>1, <1>3, <1>4, TypePartsNext

LEMMA MigratedTyped ==
    /\ Migrated \in [Uids -> User]
    /\ \A u \in Uids : Migrated[u].state = "live" => u = 1
<1>1. Unused \in User /\ [Unused EXCEPT !.state = "live", !.role = "admin"] \in User
  BY Bounds DEF Unused, User, Roles
<1>2. QED
  BY <1>1 DEF Migrated, Unused

LEMMA ElsewhereTyped == ASSUME TypeOK, BootElsewhere PROVE TypeOK'
<1>1. UsersTyped'
  BY MigratedTyped DEF BootElsewhere, UsersTyped, Live
<1>2. KeysTyped'
  BY TypeParts, Bounds DEF BootElsewhere, proofs, KeysTyped, KeyLive, NoKey, APIKey
<1>3. OwnedTyped' /\ SessionsTyped' /\ made' \in 0..MaxRequests
  BY TypeParts, MadeTyped DEF BootElsewhere, OwnedTyped, SessionsTyped, proofs
<1>4. ConfigTyped' /\ JobsTyped'
  BY TypeParts, JobsSame, Bounds DEF BootElsewhere, ConfigTyped
<1>5. QED
  BY <1>1, <1>2, <1>3, <1>4, TypePartsNext

LEMMA ServerTyped ==
    ASSUME TypeOK, PlatiConfig \/ Boot \/ Stop PROVE TypeOK'
<1>1. UsersTyped' /\ KeysTyped' /\ OwnedTyped' /\ SessionsTyped' /\ made' \in 0..MaxRequests
  BY TypeParts, UsersSame, KeysSame, OwnedSame, MadeTyped
     DEF PlatiConfig, Boot, Stop, tables, proofs, SessionsTyped
<1>2. ConfigTyped'
  <2>1. CASE Boot
    <3>1. Loaded \in Gens /\ mem' = [keys |-> Loaded, hash |-> Loaded] /\ up' = TRUE
      BY <2>1, Bounds DEF Boot, TypeOK, Loaded
    <3>2. mem' \in [keys : Gens, hash : Gens]
      BY <3>1
    <3>3. QED
      BY <2>1, <3>1, <3>2 DEF Boot, TypeOK, ConfigTyped
  <2>2. CASE PlatiConfig \/ Stop
    BY <2>2, TypeParts, Bounds DEF PlatiConfig, Stop, ConfigTyped
  <2>3. QED
    BY <2>1, <2>2
<1>3. JobsTyped'
  BY TypeParts, StopTyped, JobsSame DEF PlatiConfig, Boot, Stop
<1>4. QED
  BY <1>1, <1>2, <1>3, TypePartsNext

LEMMA CallbackEntraTyped ==
    ASSUME TypeOK, NEW s \in Subs, CallbackEntra(s) PROVE TypeOK'
<1>1. KeysTyped' /\ OwnedTyped' /\ ConfigTyped' /\ JobsTyped' /\ made' \in 0..MaxRequests
  BY TypeParts, KeysSame, OwnedSame, ConfigSame, JobsSame, MadeTyped DEF CallbackEntra
<1>2. CASE BySub(s) # {} /\ (\E u \in BySub(s) : Login(u)) /\ UNCHANGED user
  <2>1. PICK u \in Uids : Login(u)
    BY <1>2 DEF BySub
  <2>2. QED
    BY <1>1, <1>2, <2>1, LoginTyped, UsersSame, TypeParts, TypePartsNext
<1>3. CASE ~(BySub(s) # {} /\ (\E u \in BySub(s) : Login(u)) /\ UNCHANGED user)
  <2>1. BySub(s) = {} /\ ~EmailTaken(Exchange(s).email)
    BY <1>3 DEF CallbackEntra
  <2>2. PICK u \in Uids :
          /\ FreshUser(u)
          /\ user' = [user EXCEPT ![u] = [state |-> "live", email |-> Exchange(s).email,
                                          role |-> "user", sub |-> Exchange(s).sub, pass |-> FALSE]]
          /\ session' = session \cup {[user |-> u, role |-> "user", keys |-> mem.keys]}
    BY <1>3 DEF CallbackEntra
  <2>3. Exchange(s).email \in Emails /\ Exchange(s).sub = s /\ "user" \in Roles /\ mem.keys \in Gens
    BY Bounds DEF Exchange, Roles, TypeOK
  <2>4. UsersTyped'
    BY <2>1, <2>2, <2>3, InsertUserTyped, TypeParts DEF FreshUser
  <2>5. SessionsTyped'
    BY <2>2, <2>3, TypeParts DEF SessionsTyped, Session
  <2>6. QED
    BY <1>1, <2>4, <2>5, TypePartsNext
<1>4. QED
  BY <1>2, <1>3

LEMMA LoginsTyped ==
    ASSUME TypeOK, Logins PROVE TypeOK'
<1>1. ASSUME NEW u \in Uids, LoginAdmin(u) \/ LoginUser(u) PROVE TypeOK'
  <2>1. Login(u) /\ Asked /\ UNCHANGED <<tables, config, issued, tokens, job, setups, twice, early>>
    BY <1>1 DEF LoginAdmin, LoginUser
  <2>2. UsersTyped' /\ KeysTyped' /\ OwnedTyped' /\ ConfigTyped' /\ JobsTyped'
    BY <2>1, TypeParts, UsersSame, KeysSame, OwnedSame, ConfigSame, JobsSame DEF tables
  <2>3. QED
    BY <2>1, <2>2, LoginTyped, MadeTyped, TypePartsNext
<1>2. ASSUME NEW s \in session, EndSession(s) PROVE TypeOK'
  <2>1. UsersTyped' /\ KeysTyped' /\ OwnedTyped' /\ ConfigTyped' /\ JobsTyped'
    BY <1>2, TypeParts, UsersSame, KeysSame, OwnedSame, ConfigSame, JobsSame DEF tables, EndSession
  <2>2. SessionsTyped' /\ made' \in 0..MaxRequests
    BY <1>2, TypeParts, MadeTyped DEF EndSession, SessionsTyped
  <2>3. QED
    BY <2>1, <2>2, TypePartsNext
<1>3. QED
  BY <1>1, <1>2, CallbackEntraTyped DEF Logins

LEMMA CreateUserTyped ==
    ASSUME TypeOK, NEW e \in Emails, NEW r \in Roles, CreateUser(e, r) PROVE TypeOK'
<1>1. KeysTyped' /\ OwnedTyped' /\ ConfigTyped' /\ JobsTyped' /\ SessionsTyped' /\ made' \in 0..MaxRequests
  BY TypeParts, KeysSame, OwnedSame, ConfigSame, JobsSame, MadeTyped DEF CreateUser, proofs, SessionsTyped
<1>2. PICK u \in Uids :
        /\ FreshUser(u)
        /\ user' = [user EXCEPT ![u] = [state |-> "live", email |-> e, role |-> r,
                                        sub |-> None, pass |-> TRUE]]
  BY DEF CreateUser
<1>3. ~EmailTaken(e)
  BY DEF CreateUser
<1>4. UsersTyped'
  BY <1>2, <1>3, InsertUserTyped, TypeParts DEF FreshUser
<1>5. QED
  BY <1>1, <1>4, TypePartsNext

LEMMA UpdateUserStepTyped ==
    ASSUME TypeOK, NEW p \in Jobs, NEW u \in Uids, NEW r \in Roles, NEW b \in BOOLEAN,
           UpdateUser(p, u, r, b)
    PROVE  TypeOK'
<1>1. KeysTyped' /\ OwnedTyped' /\ ConfigTyped' /\ SessionsTyped' /\ made' \in 0..MaxRequests
  BY TypeParts, KeysSame, OwnedSame, ConfigSame, MadeTyped DEF UpdateUser, proofs, SessionsTyped
<1>2. user' \in [Uids -> User]
  BY DEF UpdateUser, TypeOK, User
<1>3. \A v \in Uids : /\ Live(v)' => Live(v)
                      /\ user'[v].email = user[v].email /\ user'[v].sub = user[v].sub
  BY DEF UpdateUser, TypeOK, User, Live
<1>4. [Idle EXCEPT !.pc = "password", !.user = u] \in Job
  BY Bounds DEF Idle, Job
<1>5. JobsTyped'
  BY <1>4, TypeParts, JobTyped, JobsSame DEF UpdateUser
<1>6. QED
  BY <1>1, <1>2, <1>3, <1>5, UpdateUserTyped, TypeParts, TypePartsNext

LEMMA SetPasswordTyped ==
    ASSUME TypeOK, NEW p \in Jobs, SetPassword(p) PROVE TypeOK'
<1>1. KeysTyped' /\ OwnedTyped' /\ ConfigTyped' /\ SessionsTyped' /\ JobsTyped' /\ made' \in 0..MaxRequests
  BY TypeParts, KeysSame, OwnedSame, ConfigSame, DoneTyped DEF SetPassword, proofs, SessionsTyped
<1>2. user' \in [Uids -> User]
  <2>1. \A v \in Uids : [user[v] EXCEPT !.pass = TRUE] \in User
    BY DEF TypeOK, User
  <2>2. user' = user \/ user' = [user EXCEPT ![job[p].user] = [user[job[p].user] EXCEPT !.pass = TRUE]]
    BY DEF SetPassword
  <2>3. job[p].user \in Uids
    BY DEF TypeOK, Job
  <2>4. QED
    BY <2>1, <2>2, <2>3 DEF TypeOK
<1>3. \A v \in Uids : /\ Live(v)' => Live(v)
                      /\ user'[v].email = user[v].email /\ user'[v].sub = user[v].sub
  BY DEF SetPassword, TypeOK, User, Live
<1>4. QED
  BY <1>1, <1>2, <1>3, UpdateUserTyped, TypeParts, TypePartsNext

LEMMA DeleteUserTyped ==
    ASSUME TypeOK, NEW u \in Uids, DeleteUser(u) PROVE TypeOK'
<1>1. ConfigTyped' /\ SessionsTyped' /\ JobsTyped' /\ made' \in 0..MaxRequests
  BY TypeParts, ConfigSame, JobsSame, MadeTyped DEF DeleteUser, proofs, SessionsTyped
<1>2. user' \in [Uids -> User]
  <2>1. user \in [Uids -> User] /\ user' = [user EXCEPT ![u].state = "deleted"]
    BY DEF DeleteUser, TypeOK
  <2>2. [user[u] EXCEPT !.state = "deleted"] \in User
    BY <2>1 DEF User
  <2>3. QED
    BY <2>1, <2>2
<1>3. \A v \in Uids : /\ Live(v)' => Live(v)
                      /\ user'[v].email = user[v].email /\ user'[v].sub = user[v].sub
  BY DEF DeleteUser, TypeOK, User, Live
<1>4. OwnedTyped'
  BY DEF DeleteUser, TypeOK, OwnedTyped
<1>5. key' \in [KeyIds -> APIKey]
  BY DEF DeleteUser, TypeOK, APIKey
<1>6. \A k \in KeyIds : (KeyLive(k)' => KeyLive(k)) /\ key'[k].secret = key[k].secret
  BY DEF DeleteUser, TypeOK, APIKey, KeyLive
<1>7. KeysTyped'
  BY <1>5, <1>6, TypeParts DEF KeysTyped, DeleteUser, proofs
<1>8. QED
  BY <1>1, <1>2, <1>3, <1>4, <1>7, UpdateUserTyped, TypeParts, TypePartsNext

LEMMA AdminCreateKeyTyped ==
    ASSUME TypeOK, NEW u \in Uids, AdminCreateKey(u) PROVE TypeOK'
<1>1. UsersTyped' /\ ConfigTyped' /\ SessionsTyped' /\ JobsTyped' /\ OwnedTyped' /\ made' \in 0..MaxRequests
  BY TypeParts, UsersSame, OwnedSame, ConfigSame, JobsSame, MadeTyped DEF AdminCreateKey, SessionsTyped
<1>2. PICK k \in KeyIds :
        key' = [key EXCEPT ![k] = [state |-> "live", user |-> u, secret |-> tokens + 1]]
  BY DEF AdminCreateKey
<1>3. tokens + 1 \in 0..MaxKey
  BY Bounds DEF TypeOK, AdminCreateKey
<1>4. [state |-> "live", user |-> u, secret |-> tokens + 1] \in APIKey
  BY <1>3 DEF APIKey
<1>5. KeysTyped'
  BY <1>2, <1>4, NewSecretTyped, TypeParts DEF KeysTyped, AdminCreateKey
<1>6. QED
  BY <1>1, <1>5, TypePartsNext

LEMMA RegenerateTyped ==
    ASSUME TypeOK, NEW k \in KeyIds, NEW u \in Uids, AdminRegenerate(k, u) \/ RegenerateMine(k, u)
    PROVE  TypeOK'
<1>1. UsersTyped' /\ ConfigTyped' /\ SessionsTyped' /\ JobsTyped' /\ OwnedTyped' /\ made' \in 0..MaxRequests
  BY TypeParts, UsersSame, OwnedSame, ConfigSame, JobsSame, MadeTyped
     DEF AdminRegenerate, RegenerateMine, SessionsTyped
<1>2. Regenerate(k, u)
  BY DEF AdminRegenerate, RegenerateMine
<1>3. tokens + 1 \in 0..MaxKey
  BY <1>2, Bounds DEF TypeOK, Regenerate
<1>4. key' \in [KeyIds -> APIKey] /\ key'[k].secret = tokens + 1
  BY <1>2, <1>3 DEF TypeOK, APIKey, Regenerate
<1>5. KeysTyped'
  BY <1>2, <1>4, NewSecretTyped, TypeParts DEF KeysTyped, Regenerate
<1>6. QED
  BY <1>1, <1>5, TypePartsNext

LEMMA OwnTyped ==
    ASSUME TypeOK, NEW u \in Uids,
           CreateSecret(u) \/ UpdateSecret(u) \/ DeleteSecret(u) \/ UpdatePreferences(u)
    PROVE  TypeOK'
<1>1. UsersTyped' /\ KeysTyped' /\ ConfigTyped' /\ SessionsTyped' /\ JobsTyped' /\ made' \in 0..MaxRequests
  BY TypeParts, UsersSame, KeysSame, ConfigSame, JobsSame, MadeTyped
     DEF CreateSecret, UpdateSecret, DeleteSecret, UpdatePreferences, SessionsTyped, proofs
<1>2. mem.keys \in Gens
  BY DEF TypeOK
<1>3. OwnedTyped'
  BY <1>2, TypeParts DEF OwnedTyped, CreateSecret, UpdateSecret, DeleteSecret, UpdatePreferences, Encrypt
<1>4. QED
  BY <1>1, <1>3, TypePartsNext

LEMMA TypeStays ==
    ASSUME TypeOK, [Next]_vars PROVE TypeOK'
<1>1. CASE UNCHANGED vars
  BY <1>1, TypeParts, TypePartsNext, UsersSame, KeysSame, OwnedSame, ConfigSame, JobsSame
     DEF vars, tables, proofs, SessionsTyped
<1>2. ASSUME NEW p \in Jobs, Begin(p) \/ Step(p) PROVE TypeOK'
  BY <1>2, BeginSetupTyped, UpdateUserStepTyped, SetupStepTyped, SetPasswordTyped DEF Begin, Step
<1>3. CASE Requests
  BY <1>3, CreateUserTyped, DeleteUserTyped, AdminCreateKeyTyped, RegenerateTyped, OwnTyped DEF Requests
<1>4. QED
  BY <1>1, <1>2, <1>3, LoginsTyped, ServerTyped, ElsewhereTyped DEF Next, Quiet

LEMMA TypeInit == Init => TypeOK
<1> SUFFICES ASSUME Init PROVE TypeOK
  OBVIOUS
<1>1. UsersTyped
  <2>1. user \in [Uids -> User] /\ \A u \in Uids : Live(u) => u = 1
    BY MigratedTyped DEF Init, Live
  <2>2. QED
    BY <2>1 DEF UsersTyped
<1>2. KeysTyped
  BY Bounds DEF Init, KeysTyped, NoKey, APIKey, KeyLive
<1>3. OwnedTyped /\ SessionsTyped /\ made \in 0..MaxRequests
  BY Bounds DEF Init, OwnedTyped, SessionsTyped
<1>6. JobsTyped
  BY Bounds, IdleIsJob DEF Init, JobsTyped
<1>4. ConfigTyped
  BY Bounds DEF Init, ConfigTyped
<1>5. QED
  BY <1>1, <1>2, <1>3, <1>4, <1>6, TypeParts

\* Every reachable state is well typed, and emails, Entra accounts and the
\* hashes of API keys are unique in it.
THEOREM TypeCorrect == Spec => []TypeOK
BY TypeInit, TypeStays, PTL DEF Spec

-----------------------------------------------------------------------------
(* Rows of nobody.                                                         *)

LEMMA NoOrphansSame ==
    ASSUME NoOrphans, UNCHANGED <<user, key, secret, prefs>> PROVE NoOrphans'
BY DEF NoOrphans, Live, KeyLive

\* A statement on users that leaves everybody who lives alive.
LEMMA NoOrphansUsers ==
    ASSUME NoOrphans, \A u \in Uids : Live(u) => Live(u)', TypeOK,
           UNCHANGED <<key, secret, prefs>>
    PROVE  NoOrphans'
BY DEF NoOrphans, KeyLive, TypeOK, APIKey

LEMMA InsertKeepsLiving ==
    ASSUME TypeOK, NEW u \in Uids, NEW x \in User, user' = [user EXCEPT ![u] = x], x.state = "live"
    PROVE  \A v \in Uids : Live(v) => Live(v)'
BY DEF TypeOK, Live

LEMMA NoOrphansStays ==
    ASSUME TypeOK, NoOrphans, [Next]_vars PROVE NoOrphans'
<1>1. CASE UNCHANGED vars
  BY <1>1, NoOrphansSame DEF vars, tables
<1>2. CASE PlatiConfig \/ Boot \/ Stop \/ Quiet
  BY <1>2, NoOrphansSame DEF PlatiConfig, Boot, Stop, Quiet, vars, tables
<1>11. CASE BootElsewhere
  BY <1>11 DEF BootElsewhere, NoOrphans, KeyLive, NoKey
<1>3. ASSUME NEW p \in Jobs, Begin(p) \/ Step(p) PROVE NoOrphans'
  <2>1. UNCHANGED <<key, secret, prefs>>
    BY <1>3 DEF Begin, Step, BeginSetup, UpdateUser, TruncateConfig, WriteConfig, SetHash,
                MarkComplete, SetPassword, tables
  <2>2. job[p].user \in Uids
    BY DEF TypeOK, Job
  <2>3. \A u \in Uids : Live(u) => Live(u)'
    <3>1. CASE UNCHANGED user
      BY <3>1 DEF Live
    <3>2. ASSUME NEW u \in Uids, NEW r \in Roles, user' = [user EXCEPT ![u].role = r]
          PROVE  \A v \in Uids : Live(v) => Live(v)'
      BY <3>2 DEF Live, TypeOK, User
    <3>3. ASSUME user' = [user EXCEPT ![job[p].user].pass = TRUE]
          PROVE  \A v \in Uids : Live(v) => Live(v)'
      BY <2>2, <3>3 DEF Live, TypeOK, User
    <3>4. QED
      BY <1>3, <3>1, <3>2, <3>3 DEF Begin, Step, BeginSetup, UpdateUser, TruncateConfig, WriteConfig,
                                    SetHash, MarkComplete, SetPassword, tables
  <2>4. QED
    BY <2>1, <2>3, NoOrphansUsers
<1>4. CASE Logins
  <2>1. ASSUME NEW u \in Uids, LoginAdmin(u) \/ LoginUser(u) PROVE NoOrphans'
    BY <2>1, NoOrphansSame DEF LoginAdmin, LoginUser, tables
  <2>2. ASSUME NEW s \in session, EndSession(s) PROVE NoOrphans'
    BY <2>2, NoOrphansSame DEF EndSession, tables
  <2>3. ASSUME NEW s \in Subs, CallbackEntra(s) PROVE NoOrphans'
    <3>1. UNCHANGED <<key, secret, prefs>>
      BY <2>3 DEF CallbackEntra
    <3>2. \A u \in Uids : Live(u) => Live(u)'
      BY <2>3 DEF CallbackEntra, Live, TypeOK
    <3>3. QED
      BY <3>1, <3>2, NoOrphansUsers
  <2>4. QED
    BY <1>4, <2>1, <2>2, <2>3 DEF Logins
<1>5. ASSUME NEW e \in Emails, NEW r \in Roles, CreateUser(e, r) PROVE NoOrphans'
  <2>1. \A u \in Uids : Live(u) => Live(u)'
    BY <1>5 DEF CreateUser, Live, TypeOK
  <2>2. QED
    BY <1>5, <2>1, NoOrphansUsers DEF CreateUser
<1>6. ASSUME NEW u \in Uids, DeleteUser(u) PROVE NoOrphans'
  <2>1. \A v \in Uids \ {u} : Live(v)' <=> Live(v)
    BY <1>6 DEF DeleteUser, Live, TypeOK
  <2>2. \A k \in KeyIds : /\ key'[k].user = key[k].user
                          /\ KeyLive(k)' => KeyLive(k) /\ key[k].user # u
    BY <1>6 DEF DeleteUser, KeyLive, TypeOK, APIKey
  <2>3. \A v \in Uids : secret'[v] # None \/ v \in prefs' => v # u /\ (secret[v] # None \/ v \in prefs)
    BY <1>6 DEF DeleteUser, TypeOK
  <2>4. \A k \in KeyIds : key[k].user \in Uids
    BY DEF TypeOK, APIKey
  <2>5. QED
    BY <2>1, <2>2, <2>3, <2>4 DEF NoOrphans
<1>7. ASSUME NEW u \in Uids, AdminCreateKey(u) PROVE NoOrphans'
  <2>1. PICK k \in KeyIds :
          key' = [key EXCEPT ![k] = [state |-> "live", user |-> u, secret |-> tokens + 1]]
    BY <1>7 DEF AdminCreateKey
  <2>2. key'[k].user = u /\ \A l \in KeyIds \ {k} : key'[l] = key[l]
    BY <2>1 DEF TypeOK
  <2>3. Live(u) /\ UNCHANGED <<user, secret, prefs>>
    BY <1>7 DEF AdminCreateKey, Referenced
  <2>4. QED
    BY <2>2, <2>3 DEF NoOrphans, Live, KeyLive
<1>8. ASSUME NEW k \in KeyIds, NEW u \in Uids, AdminRegenerate(k, u) \/ RegenerateMine(k, u)
      PROVE  NoOrphans'
  <2>1. \A l \in KeyIds : key'[l].user = key[l].user /\ (KeyLive(l)' <=> KeyLive(l))
    BY <1>8 DEF AdminRegenerate, RegenerateMine, Regenerate, KeyLive, TypeOK, APIKey
  <2>2. UNCHANGED <<user, secret, prefs>>
    BY <1>8 DEF AdminRegenerate, RegenerateMine
  <2>3. QED
    BY <2>1, <2>2 DEF NoOrphans, Live
<1>9. ASSUME NEW u \in Uids,
             CreateSecret(u) \/ UpdateSecret(u) \/ DeleteSecret(u) \/ UpdatePreferences(u)
      PROVE  NoOrphans'
  <2>1. UNCHANGED <<user, key>>
    BY <1>9 DEF CreateSecret, UpdateSecret, DeleteSecret, UpdatePreferences
  <2>2. \A v \in Uids : secret'[v] # None \/ v \in prefs' => secret[v] # None \/ v \in prefs \/ Live(v)
    BY <1>9 DEF CreateSecret, UpdateSecret, DeleteSecret, UpdatePreferences, Encrypt, Referenced, TypeOK
  <2>3. QED
    BY <2>1, <2>2 DEF NoOrphans, Live, KeyLive
<1>10. QED
  BY <1>1, <1>2, <1>3, <1>4, <1>5, <1>6, <1>7, <1>8, <1>9, <1>11 DEF Next, Requests

LEMMA NoOrphansInit == Init => NoOrphans
BY Bounds DEF Init, NoOrphans, KeyLive, NoKey

\* No API key, secret or preferences of an account that is gone, whatever its
\* sessions still ask for.
THEOREM NobodyOwnsNothing == Spec => []NoOrphans
<1>1. Init => TypeOK /\ NoOrphans
  BY TypeInit, NoOrphansInit
<1>2. TypeOK /\ NoOrphans /\ [Next]_vars => TypeOK' /\ NoOrphans'
  BY TypeStays, NoOrphansStays
<1>3. QED
  BY <1>1, <1>2, PTL DEF Spec

-----------------------------------------------------------------------------
(* Keys act for the account they were handed to: a secret is new when it   *)
(* is made, and belongs to one row from then on.                           *)

Handed ==
    /\ \A t \in issued : t.secret <= tokens
    /\ KeysActForHolders

LEMMA HandedNew ==
    ASSUME TypeOK, Handed, NEW k \in KeyIds, NEW u \in Uids,
           key' \in [KeyIds -> APIKey], key'[k].secret = tokens + 1, key'[k].user = u,
           \A l \in KeyIds \ {k} : key'[l] = key[l],
           tokens' = tokens + 1, issued' = issued \cup {[secret |-> tokens + 1, user |-> u]}
    PROVE  Handed'
<1>1. tokens \in Nat /\ \A l \in KeyIds : key[l].secret \in Nat /\ key[l].secret <= tokens
  BY Bounds DEF TypeOK, APIKey
<1>2. \A t \in issued : t.secret \in Nat /\ t.secret <= tokens
  BY Bounds DEF TypeOK, Handed
<1>3. \A t \in issued' : t.secret <= tokens'
  BY <1>1, <1>2
<1>4. ASSUME NEW t \in issued', NEW l \in KeyIds, KeyLive(l)', key'[l].secret = t.secret
      PROVE  key'[l].user = t.user
  <2>1. CASE l = k
    BY <1>1, <1>2, <1>4, <2>1
  <2>2. CASE l # k
    <3>1. t \in issued
      BY <1>1, <1>4, <2>2
    <3>2. KeyLive(l) /\ key[l].secret = t.secret
      BY <1>4, <2>2 DEF KeyLive
    <3>3. QED
      BY <2>2, <3>1, <3>2 DEF Handed, KeysActForHolders
  <2>3. QED
    BY <2>1, <2>2
<1>5. QED
  BY <1>3, <1>4 DEF Handed, KeysActForHolders

LEMMA HandedStays ==
    ASSUME TypeOK, Handed, [Next]_vars PROVE Handed'
<1>1. ASSUME UNCHANGED <<key, issued, tokens>> PROVE Handed'
  BY <1>1 DEF Handed, KeysActForHolders, KeyLive
<1>2. CASE UNCHANGED vars \/ PlatiConfig \/ Boot \/ Stop \/ Quiet
  BY <1>1, <1>2 DEF PlatiConfig, Boot, Stop, Quiet, vars, tables, proofs
<1>11. CASE BootElsewhere
  BY <1>11 DEF BootElsewhere, proofs, Handed, KeysActForHolders, KeyLive, NoKey
<1>3. ASSUME NEW p \in Jobs, Begin(p) \/ Step(p) PROVE Handed'
  BY <1>1, <1>3 DEF Begin, Step, BeginSetup, UpdateUser, TruncateConfig, WriteConfig, SetHash,
                    MarkComplete, SetPassword, tables, proofs
<1>4. CASE Logins
  BY <1>1, <1>4 DEF Logins, LoginAdmin, LoginUser, CallbackEntra, EndSession, tables
<1>5. ASSUME NEW e \in Emails, NEW r \in Roles, CreateUser(e, r) PROVE Handed'
  BY <1>1, <1>5 DEF CreateUser, proofs
<1>6. ASSUME NEW u \in Uids, DeleteUser(u) PROVE Handed'
  <2>1. \A k \in KeyIds : /\ key'[k].user = key[k].user /\ key'[k].secret = key[k].secret
                          /\ KeyLive(k)' => KeyLive(k)
    BY <1>6 DEF DeleteUser, KeyLive, TypeOK, APIKey
  <2>2. UNCHANGED <<issued, tokens>>
    BY <1>6 DEF DeleteUser, proofs
  <2>3. QED
    BY <2>1, <2>2 DEF Handed, KeysActForHolders
<1>7. ASSUME NEW u \in Uids, AdminCreateKey(u) PROVE Handed'
  <2>1. PICK k \in KeyIds :
          key' = [key EXCEPT ![k] = [state |-> "live", user |-> u, secret |-> tokens + 1]]
    BY <1>7 DEF AdminCreateKey
  <2>2. [state |-> "live", user |-> u, secret |-> tokens + 1] \in APIKey
    BY <1>7, Bounds DEF AdminCreateKey, TypeOK, APIKey
  <2>3. /\ key' \in [KeyIds -> APIKey] /\ key'[k].secret = tokens + 1 /\ key'[k].user = u
        /\ \A l \in KeyIds \ {k} : key'[l] = key[l]
    BY <2>1, <2>2 DEF TypeOK
  <2>4. QED
    BY <1>7, <2>3, HandedNew DEF AdminCreateKey
<1>8. ASSUME NEW k \in KeyIds, NEW u \in Uids, AdminRegenerate(k, u) \/ RegenerateMine(k, u)
      PROVE  Handed'
  <2>1. Regenerate(k, u)
    BY <1>8 DEF AdminRegenerate, RegenerateMine
  <2>2. tokens + 1 \in 0..MaxKey
    BY <2>1, Bounds DEF TypeOK, Regenerate
  <2>3. /\ key' \in [KeyIds -> APIKey] /\ key'[k].secret = tokens + 1 /\ key'[k].user = u
        /\ \A l \in KeyIds \ {k} : key'[l] = key[l]
    BY <2>1, <2>2 DEF Regenerate, TypeOK, APIKey
  <2>4. QED
    BY <2>1, <2>3, HandedNew DEF Regenerate
<1>9. ASSUME NEW u \in Uids,
             CreateSecret(u) \/ UpdateSecret(u) \/ DeleteSecret(u) \/ UpdatePreferences(u)
      PROVE  Handed'
  BY <1>1, <1>9 DEF CreateSecret, UpdateSecret, DeleteSecret, UpdatePreferences, proofs
<1>10. QED
  BY <1>2, <1>3, <1>4, <1>5, <1>6, <1>7, <1>8, <1>9, <1>11 DEF Next, Requests

\* An API key acts for nobody but the account it was handed to.
THEOREM KeysAreTheirs == Spec => []KeysActForHolders
<1>1. Init => TypeOK /\ Handed
  BY TypeInit DEF Init, Handed, KeysActForHolders
<1>2. TypeOK /\ Handed /\ [Next]_vars => TypeOK' /\ Handed'
  BY TypeStays, HandedStays
<1>3. Handed => KeysActForHolders
  BY DEF Handed
<1>4. QED
  BY <1>1, <1>2, <1>3, PTL DEF Spec

-----------------------------------------------------------------------------
(* The setup, as long as two of them have not been under way at once: what *)
(* the file holds at each of its steps, and which secrets the keys of the  *)
(* file read.                                                              *)

AloneInSetup ==
    /\ \A p, q \in SettingUp : p = q
    /\ SettingUp # {} => up /\ ~done
    /\ \A p \in Jobs : /\ job[p].pc = "memory" => file = job[p].gen
                       /\ job[p].pc = "setting" => file = mem.hash
ConfigKept ==
    /\ done => file \notin {Empty, None}
    /\ up /\ done => mem.hash = file
    /\ \A u \in Uids \ early : secret[u] # None =>
         done /\ secret[u] = file /\ (up => mem.keys = file)
SetupInv == ~twice => AloneInSetup /\ ConfigKept

LEMMA SetupInit == Init => SetupInv
BY DEF Init, SetupInv, AloneInSetup, ConfigKept, SettingUp, Busy, Idle

LEMMA SetupSame ==
    ASSUME SetupInv, UNCHANGED <<config, secret, early, job, twice>> PROVE SetupInv'
BY DEF SetupInv, AloneInSetup, ConfigKept, SettingUp, Busy, config

LEMMA SetupStays ==
    ASSUME TypeOK, SetupInv, [Next]_vars PROVE SetupInv'
<1>1. CASE UNCHANGED vars \/ Quiet
  BY <1>1, SetupSame DEF Quiet, vars, tables
<1>16. CASE BootElsewhere
  <2>1. ~twice => SettingUp = {} /\ AloneInSetup /\ twice' = twice
    BY <1>16 DEF BootElsewhere, SetupInv, AloneInSetup
  <2>2. ~twice => SettingUp' = {} /\ \A p \in Jobs : job'[p].pc \notin {"memory", "setting"}
    BY <1>16, <2>1 DEF BootElsewhere, SettingUp, Busy
  <2>3. done' = FALSE /\ \A u \in Uids : secret'[u] = None
    BY <1>16 DEF BootElsewhere
  <2>4. twice' = twice
    BY <1>16 DEF BootElsewhere
  <2>5. QED
    BY <2>1, <2>2, <2>3, <2>4 DEF SetupInv, AloneInSetup, ConfigKept
<1>2. CASE PlatiConfig \/ Boot
  <2>1. UNCHANGED <<job, twice, secret, early, done>>
    BY <1>2 DEF PlatiConfig, Boot, tables
  <2>2. ~twice => SettingUp = {}
    BY <1>2 DEF PlatiConfig, Boot, SetupInv, AloneInSetup
  <2>3. ~twice => \A p \in Jobs : job[p].pc \notin {"memory", "setting"}
    BY <2>2 DEF SettingUp, Busy
  <2>4. AloneInSetup' \/ twice
    BY <2>1, <2>2, <2>3 DEF AloneInSetup, SettingUp, Busy
  <2>5. ConfigKept' \/ twice
    BY <1>2, <2>1 DEF PlatiConfig, Boot, Loaded, SetupInv, ConfigKept
  <2>6. QED
    BY <2>1, <2>4, <2>5 DEF SetupInv
<1>3. CASE Stop
  BY <1>3 DEF Stop, SetupInv, AloneInSetup, ConfigKept, SettingUp, Busy, Idle, tables
<1>4. ASSUME NEW p \in Jobs, BeginSetup(p) PROVE SetupInv'
  <2>1. UNCHANGED <<config, secret, early>>
    BY <1>4 DEF BeginSetup, tables
  <2>2. ~twice' => ~twice /\ SettingUp = {}
    BY <1>4 DEF BeginSetup
  <2>3. up /\ ~done
    BY <1>4 DEF BeginSetup
  <2>4. job'[p].pc = "truncate" /\ \A q \in Jobs \ {p} : job'[q] = job[q]
    BY <1>4 DEF BeginSetup, TypeOK, Job, Idle
  <2>5. SettingUp' = SettingUp \cup {p}
    BY <2>4, <1>4 DEF SettingUp, Busy, BeginSetup, Free
  <2>6. ~twice' => AloneInSetup'
    BY <2>1, <2>2, <2>3, <2>4, <2>5 DEF SetupInv, AloneInSetup, config
  <2>7. ~twice' => ConfigKept'
    BY <2>1, <2>2 DEF SetupInv, ConfigKept, config
  <2>8. QED
    BY <2>6, <2>7 DEF SetupInv
<1>5. ASSUME NEW p \in Jobs, TruncateConfig(p) \/ WriteConfig(p) \/ SetHash(p) PROVE SetupInv'
  <2>1. UNCHANGED <<secret, early, done, up, twice>> /\ mem'.keys = mem.keys
    BY <1>5 DEF TruncateConfig, WriteConfig, SetHash, tables, TypeOK
  <2>2. p \in SettingUp /\ job[p].gen \in Gens
    BY <1>5 DEF TruncateConfig, WriteConfig, SetHash, SettingUp, Busy, TypeOK, Job
  <2>3. /\ job'[p].gen = job[p].gen /\ \A q \in Jobs \ {p} : job'[q] = job[q]
        /\ \/ job'[p].pc = "write"
           \/ job'[p].pc = "memory" /\ file' = job[p].gen
           \/ job[p].pc = "memory" /\ job'[p].pc = "setting" /\ mem'.hash = job[p].gen /\ file' = file
    BY <1>5 DEF TruncateConfig, WriteConfig, SetHash, Goto, TypeOK, Job
  <2>4. SettingUp' = SettingUp
    BY <2>2, <2>3 DEF SettingUp, Busy
  <2>5. ASSUME ~twice PROVE AloneInSetup'
    <3>1. AloneInSetup
      BY <2>5 DEF SetupInv
    <3>2. \A q \in Jobs \ {p} : job[q].pc \notin {"memory", "setting"}
      BY <2>2, <3>1 DEF AloneInSetup, SettingUp, Busy
    <3>3. QED
      BY <2>1, <2>2, <2>3, <2>4, <3>1, <3>2 DEF AloneInSetup
  <2>6. ASSUME ~twice PROVE ConfigKept'
    BY <2>1, <2>2, <2>6 DEF SetupInv, AloneInSetup, ConfigKept
  <2>7. QED
    BY <2>1, <2>5, <2>6 DEF SetupInv
<1>6. ASSUME NEW p \in Jobs, MarkComplete(p) PROVE SetupInv'
  <2>1. UNCHANGED <<secret, early, file, up, mem, twice>> /\ done' = TRUE
    BY <1>6 DEF MarkComplete, tables
  <2>2. p \in SettingUp /\ job[p].pc = "setting"
    BY <1>6 DEF MarkComplete, SettingUp, Busy
  <2>3. job'[p].pc = "idle" /\ \A q \in Jobs \ {p} : job'[q] = job[q]
    BY <1>6 DEF MarkComplete, Done, TypeOK, Idle
  <2>4. SettingUp' = SettingUp \ {p}
    BY <2>3 DEF SettingUp, Busy
  <2>5. ASSUME ~twice PROVE AloneInSetup' /\ ConfigKept'
    <3>1. AloneInSetup /\ ConfigKept
      BY <2>5 DEF SetupInv
    <3>2. SettingUp' = {} /\ file = mem.hash
      BY <2>2, <2>4, <3>1 DEF AloneInSetup
    <3>3. AloneInSetup'
      BY <2>1, <2>3, <3>1, <3>2 DEF AloneInSetup
    <3>4. file \notin {Empty, None}
      BY <3>2, Bounds DEF TypeOK, Gens
    <3>5. ConfigKept'
      BY <2>1, <2>2, <3>1, <3>2, <3>4 DEF AloneInSetup, ConfigKept
    <3>6. QED
      BY <3>3, <3>5
  <2>6. QED
    BY <2>1, <2>5 DEF SetupInv
<1>7. ASSUME NEW p \in Jobs, NEW u \in Uids, NEW r \in Roles, NEW b \in BOOLEAN, UpdateUser(p, u, r, b)
      PROVE  SetupInv'
  <2>1. UNCHANGED <<config, secret, early, twice>>
    BY <1>7 DEF UpdateUser
  <2>2. \A q \in Jobs : job'[q] = job[q] \/ (job[q].pc = "idle" /\ job'[q].pc = "password")
    BY <1>7 DEF UpdateUser, Free, Busy, TypeOK, Job, Idle
  <2>3. SettingUp' = SettingUp
    BY <2>2 DEF SettingUp, Busy
  <2>4. QED
    BY <2>1, <2>2, <2>3 DEF SetupInv, AloneInSetup, ConfigKept, config
<1>8. ASSUME NEW p \in Jobs, SetPassword(p) PROVE SetupInv'
  <2>1. UNCHANGED <<config, secret, early, twice>>
    BY <1>8 DEF SetPassword
  <2>2. \A q \in Jobs : job'[q] = job[q] \/ (job[q].pc = "password" /\ job'[q].pc = "idle")
    BY <1>8 DEF SetPassword, Done, TypeOK, Idle
  <2>3. SettingUp' = SettingUp
    BY <2>2 DEF SettingUp, Busy
  <2>4. QED
    BY <2>1, <2>2, <2>3 DEF SetupInv, AloneInSetup, ConfigKept, config
<1>9. CASE Logins
  BY <1>9, SetupSame DEF Logins, LoginAdmin, LoginUser, CallbackEntra, EndSession, tables
<1>10. ASSUME NEW e \in Emails, NEW r \in Roles, CreateUser(e, r) PROVE SetupInv'
  BY <1>10, SetupSame DEF CreateUser
<1>11. ASSUME NEW u \in Uids, AdminCreateKey(u) PROVE SetupInv'
  BY <1>11, SetupSame DEF AdminCreateKey
<1>12. ASSUME NEW k \in KeyIds, NEW u \in Uids, AdminRegenerate(k, u) \/ RegenerateMine(k, u)
       PROVE  SetupInv'
  BY <1>12, SetupSame DEF AdminRegenerate, RegenerateMine
<1>13. ASSUME NEW u \in Uids, UpdatePreferences(u) PROVE SetupInv'
  BY <1>13, SetupSame DEF UpdatePreferences
<1>14. ASSUME NEW u \in Uids, CreateSecret(u) \/ UpdateSecret(u) \/ DeleteSecret(u) \/ DeleteUser(u)
       PROVE  SetupInv'
  <2>1. UNCHANGED <<config, job, twice>>
    BY <1>14 DEF CreateSecret, UpdateSecret, DeleteSecret, DeleteUser
  <2>2. AloneInSetup => AloneInSetup'
    BY <2>1 DEF AloneInSetup, SettingUp, Busy, config
  <2>3. \/ secret' = [secret EXCEPT ![u] = None] /\ early' = early \ {u}
        \/ /\ secret' = [secret EXCEPT ![u] = mem.keys]
           /\ early' = IF done /\ mem.keys = file THEN early \ {u} ELSE early \cup {u}
    BY <1>14 DEF CreateSecret, UpdateSecret, DeleteSecret, DeleteUser, Encrypt
  <2>4. ConfigKept => ConfigKept'
    BY <2>1, <2>3 DEF ConfigKept, config, TypeOK
  <2>5. QED
    BY <2>1, <2>2, <2>4 DEF SetupInv
<1>15. QED
  BY <1>1, <1>2, <1>3, <1>4, <1>5, <1>6, <1>7, <1>8, <1>9, <1>10, <1>11, <1>12, <1>13, <1>14,
     <1>16 DEF Next, Begin, Step, Requests

LEMMA SetupStep ==
    ASSUME TypeOK, SetupInv, Next, done, ~twice PROVE file' = file
<1>1. SettingUp = {} /\ file # None
  BY DEF SetupInv, AloneInSetup, ConfigKept
<1>2. \A p \in Jobs : job[p].pc \notin {"truncate", "write"}
  BY <1>1 DEF SettingUp, Busy
<1>3. ~PlatiConfig
  BY <1>1 DEF PlatiConfig
<1>4. ASSUME NEW p \in Jobs, Begin(p) \/ Step(p) PROVE file' = file
  BY <1>2, <1>4 DEF Begin, Step, BeginSetup, UpdateUser, TruncateConfig, WriteConfig, SetHash,
                    MarkComplete, SetPassword, config
<1>5. CASE Logins
  BY <1>5 DEF Logins, LoginAdmin, LoginUser, CallbackEntra, EndSession, config
<1>6. CASE Requests
  BY <1>6 DEF Requests, CreateUser, DeleteUser, AdminCreateKey, AdminRegenerate, RegenerateMine,
              CreateSecret, UpdateSecret, DeleteSecret, UpdatePreferences, config
<1>7. CASE Boot \/ BootElsewhere \/ Stop \/ Quiet
  BY <1>7 DEF Boot, BootElsewhere, Stop, Quiet, vars, config
<1>8. QED
  BY <1>3, <1>4, <1>5, <1>6, <1>7 DEF Next

LEMMA SetupAlways == Spec => [](TypeOK /\ SetupInv)
<1>1. Init => TypeOK /\ SetupInv
  BY TypeInit, SetupInit
<1>2. TypeOK /\ SetupInv /\ [Next]_vars => TypeOK' /\ SetupInv'
  BY TypeStays, SetupStays
<1>3. QED
  BY <1>1, <1>2, PTL DEF Spec

\* After a setup the password is the same before a restart and after it, and
\* secrets stored with the keys of the setup can be read for good, unless two
\* setups were under way at once.
THEOREM SetupOutlivesRestarts == Spec => []SetupSurvives
<1>1. TypeOK /\ SetupInv => SetupSurvives
  BY DEF SetupInv, ConfigKept, SetupSurvives, PasswordAgrees, SecretsReadable, Injected
<1>2. QED
  BY <1>1, SetupAlways, PTL

\* Nothing changes the configuration of a setup that is complete, unless two
\* setups were under way at once.
THEOREM SetupIsFinal == Spec => SetupKeysStay
<1>1. TypeOK /\ SetupInv /\ [Next]_vars => [done /\ ~twice => file' = file]_vars
  <2> SUFFICES ASSUME TypeOK, SetupInv, [Next]_vars PROVE [done /\ ~twice => file' = file]_vars
    OBVIOUS
  <2>1. CASE UNCHANGED vars
    BY <2>1
  <2>2. CASE Next
    BY <2>2, SetupStep
  <2>3. QED
    BY <2>1, <2>2
<1>2. QED
  BY <1>1, SetupAlways, PTL DEF Spec, SetupKeysStay
=============================================================================
