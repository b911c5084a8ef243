------------------------------- MODULE GitRepos -------------------------------
(***************************************************************************)
(* The git repositories that templates copy into instances: rows of        *)
(* git_repos, a clone of each in a directory called after its URL, and a   *)
(* file of host keys beside it.                                            *)
(*                                                                         *)
(* A clone runs in a goroutine, a pull and a deletion in their requests;   *)
(* each is a job of several steps on a row that others may delete or       *)
(* rename, and on a directory that others may write or remove.  The key    *)
(* for git is a managed key, if one has been chosen, or a generated one.   *)
(***************************************************************************)
EXTENDS Naturals, FiniteSets

CONSTANTS
    Urls,        \* ssh_url
    Names,       \* names of repositories and of their directories
    NameOf,      \* nameFromSSHURL
    Hosts,
    HostOf,      \* hostFromSSHURL
    MaxId,       \* ids of git_repos, AUTOINCREMENT
    Managed,     \* managed keys
    Jobs,        \* jobs at once, numbered
    MaxRequests, \* a bound on the requests and restarts
    None

ASSUME UrlsAssumption ==
    /\ Urls # {} /\ NameOf \in [Urls -> Names] /\ HostOf \in [Urls -> Hosts]
    /\ None \notin Urls \cup Hosts \cup Managed
ASSUME RepoBounds ==
    MaxId \in Nat \ {0} /\ Jobs \subseteq Nat /\ MaxRequests \in Nat

VARIABLES
    repo,     \* table git_repos
    dir,      \* what lies in reposDir/<name>
    hosts,    \* reposDir/<name>.known_hosts: whose keys
    genKey,   \* settings: a server key has been generated
    chosen,   \* settings: server_git_managed_key_id
    keys,     \* the managed keys that exist
    job,
    made,     \* the number of requests so far
    mixed,    \* history: names whose directory and row may have parted ways
    crashed   \* history: a restart has interrupted jobs

disk     == <<dir, hosts>>
settings == <<genKey, chosen, keys>>
vars == <<repo, dir, hosts, genKey, chosen, keys, job, made, mixed, crashed>>

Ids == 1..MaxId
Statuses == {"pending", "cloning", "ready", "error"}
Row == [state : {"unused", "live", "deleted"}, name : Names, url : Urls, dir : Names,
        status : Statuses]
Unused == LET u == CHOOSE v \in Urls : TRUE IN
          [state |-> "unused", name |-> NameOf[u], url |-> u, dir |-> NameOf[u], status |-> "pending"]
Clone == [kind : {"none", "partial", "whole"}, url : Urls \cup {None}]
NoClone == [kind |-> "none", url |-> None]
Partial(u) == [kind |-> "partial", url |-> u]
Whole(u) == [kind |-> "whole", url |-> u]
Job == [pc : {"idle", "get", "key", "hosts", "start", "end", "drop", "removeDir", "removeHosts"},
        op : {"none", "clone", "pull", "delete"},
        id : Ids, url : Urls \cup {None}, dir : Names \cup {None}]
Idle == [pc |-> "idle", op |-> "none", id |-> 1, url |-> None, dir |-> None]

Live(i) == repo[i].state = "live"

\* The state is well typed, names and URLs are unique, as the table demands,
\* and a repository's directory is called after its URL.
TypeOK ==
    /\ repo \in [Ids -> Row]
    /\ \A i, j \in Ids :
         Live(i) /\ Live(j) /\ (repo[i].name = repo[j].name \/ repo[i].url = repo[j].url) => i = j
    /\ \A i \in Ids : Live(i) => repo[i].dir = NameOf[repo[i].url]
    /\ dir \in [Names -> Clone] /\ hosts \in [Names -> Hosts \cup {None}]
    /\ genKey \in BOOLEAN /\ chosen \in Managed \cup {None} /\ keys \subseteq Managed
    /\ job \in [Jobs -> Job]
    /\ made \in 0..MaxRequests /\ mixed \subseteq Names /\ crashed \in BOOLEAN

Init ==
    /\ repo = [i \in Ids |-> Unused]
    /\ dir = [n \in Names |-> NoClone] /\ hosts = [n \in Names |-> None]
    /\ genKey = TRUE /\ chosen = None /\ keys = Managed
    /\ job = [p \in Jobs |-> Idle]
    /\ made = 0 /\ mixed = {} /\ crashed = FALSE

-----------------------------------------------------------------------------
(* Tables, keys and control.                                               *)

Fresh(i) == repo[i].state = "unused" /\ \A j \in Ids : j < i => repo[j].state # "unused"
NameTaken(n) == \E j \in Ids : Live(j) /\ repo[j].name = n
UrlTaken(u) == \E j \in Ids : Live(j) /\ repo[j].url = u
\* UPDATE ... WHERE id = ?, which may change no row.
UpdateGitRepoStatus(i, st) ==
    repo' = IF Live(i) THEN [repo EXCEPT ![i].status = st] ELSE repo

\* getServerPrivateKey: a chosen managed key that is gone is an error, and the
\* generated key does not stand in for it.
KeyFound == IF chosen # None THEN chosen \in keys ELSE genKey

Busy == {p \in Jobs : job[p].pc # "idle"}
Free(p) == p \notin Busy /\ \A q \in Jobs : q < p => q \in Busy
OnDir(n) == {p \in Busy : job[p].dir = n}
Asked == made < MaxRequests /\ made' = made + 1
Goto(p, l) == job' = [job EXCEPT ![p].pc = l]
Done(p) == job' = [job EXCEPT ![p] = Idle]
\* The job ends and writes its status.
Report(p, st) == UpdateGitRepoStatus(job[p].id, st) /\ Done(p)
Same == <<settings, made, crashed>>

-----------------------------------------------------------------------------
(* Requests.                                                               *)

\* AddRepo: a name that is taken, perhaps by a renamed repository, is refused.
AddRepo(p, u) ==
    /\ Asked /\ Free(p)
    /\ IF NameTaken(NameOf[u]) \/ UrlTaken(u) THEN UNCHANGED <<repo, job, mixed>>
       ELSE \E i \in Ids :
              /\ Fresh(i)
              /\ repo' = [repo EXCEPT ![i] = [state |-> "live", name |-> NameOf[u], url |-> u,
                                              dir |-> NameOf[u], status |-> "pending"]]
              /\ job' = [job EXCEPT ![p] = [pc |-> "get", op |-> "clone", id |-> i,
                                            url |-> u, dir |-> NameOf[u]]]
              /\ mixed' = IF OnDir(NameOf[u]) = {} THEN mixed ELSE mixed \cup {NameOf[u]}
    /\ UNCHANGED <<disk, settings, crashed>>

SyncRepo(p, i) ==
    /\ Asked /\ Free(p) /\ Live(i)
    /\ job' = [job EXCEPT ![p] = [pc |-> "key", op |-> "pull", id |-> i,
                                  url |-> repo[i].url, dir |-> repo[i].dir]]
    /\ UNCHANGED <<repo, disk, settings, mixed, crashed>>

\* Mutant: the directory is to follow the name.
RenameRepoAndDir(i, n) ==
    /\ Asked /\ Live(i) /\ n # repo[i].name
    /\ IF NameTaken(n) THEN UNCHANGED <<repo, mixed>>
       ELSE /\ repo' = [repo EXCEPT ![i].name = n, ![i].dir = n]
            /\ mixed' = mixed \cup {n, repo[i].name, repo[i].dir}
    /\ UNCHANGED <<disk, settings, job, crashed>>
\* The name only: local_path stays, and the old name is free.
RenameRepo(i, n) ==
    /\ Asked /\ Live(i) /\ n # repo[i].name
    /\ IF NameTaken(n) THEN UNCHANGED <<repo, mixed>>
       ELSE /\ repo' = [repo EXCEPT ![i].name = n]
            /\ mixed' = mixed \cup {n, repo[i].name, repo[i].dir}
    /\ UNCHANGED <<disk, settings, job, crashed>>

DeleteRepo(p, i) ==
    /\ Asked /\ Free(p) /\ Live(i)
    /\ job' = [job EXCEPT ![p] = [pc |-> "drop", op |-> "delete", id |-> i,
                                  url |-> repo[i].url, dir |-> repo[i].dir]]
    /\ UNCHANGED <<repo, disk, settings, mixed, crashed>>

GenerateServerKey ==
    /\ Asked
    /\ genKey' = TRUE
    /\ UNCHANGED <<repo, disk, chosen, keys, job, mixed, crashed>>

SetServerManagedKey(m) ==
    /\ Asked /\ m \in keys
    /\ chosen' = m
    /\ UNCHANGED <<repo, disk, genKey, keys, job, mixed, crashed>>

\* The setting keeps naming a key that is deleted.
DeleteManagedKey(m) ==
    /\ Asked /\ m \in keys
    /\ keys' = keys \ {m}
    /\ UNCHANGED <<repo, disk, genKey, chosen, job, mixed, crashed>>

\* A restart takes up none of the jobs, and leaves what git was writing.
Crash ==
    /\ Asked /\ Busy # {}
    /\ job' = [p \in Jobs |-> Idle]
    /\ crashed' = TRUE
    /\ mixed' = mixed \cup {job[p].dir : p \in Busy}
    /\ UNCHANGED <<repo, disk, settings>>

-----------------------------------------------------------------------------
(* Clone and pull.                                                         *)

Doing(p, op, l) == job[p].op = op /\ job[p].pc = l
Git(p, l) == job[p].op \in {"clone", "pull"} /\ job[p].pc = l

\* cloneRepo reads the row, which may be gone, and writes the status.
BeginClone(p) ==
    /\ Doing(p, "clone", "get")
    /\ IF Live(job[p].id) THEN UpdateGitRepoStatus(job[p].id, "cloning") /\ Goto(p, "key")
       ELSE Done(p) /\ UNCHANGED repo
    /\ UNCHANGED <<disk, mixed, Same>>

LoadKey(p) ==
    /\ Git(p, "key")
    /\ IF KeyFound THEN Goto(p, "hosts") /\ UNCHANGED repo ELSE Report(p, "error")
    /\ UNCHANGED <<disk, mixed, Same>>

\* ensureKnownHosts: a file that is there is used, for whatever host it is.
EnsureKnownHosts(p) ==
    /\ Git(p, "hosts")
    /\ \/ hosts[job[p].dir] # None /\ Goto(p, "start") /\ UNCHANGED <<repo, hosts>>
       \/ /\ hosts[job[p].dir] = None
          /\ hosts' = [hosts EXCEPT ![job[p].dir] = HostOf[job[p].url]]
          /\ Goto(p, "start") /\ UNCHANGED repo
       \/ hosts[job[p].dir] = None /\ Report(p, "error") /\ UNCHANGED hosts
    /\ UNCHANGED <<dir, mixed, Same>>

\* git clone refuses a directory that is not empty and a host it does not know.
StartClone(p) ==
    /\ Doing(p, "clone", "start")
    /\ \/ /\ dir[job[p].dir] = NoClone /\ hosts[job[p].dir] = HostOf[job[p].url]
          /\ dir' = [dir EXCEPT ![job[p].dir] = Partial(job[p].url)]
          /\ Goto(p, "end") /\ UNCHANGED repo
       \/ Report(p, "error") /\ UNCHANGED dir
    /\ UNCHANGED <<hosts, mixed, Same>>

\* Mutant: the exit status of git is not looked at.
EndCloneReady(p) ==
    /\ Doing(p, "clone", "end")
    /\ \/ /\ dir[job[p].dir] = Partial(job[p].url)
          /\ dir' = [dir EXCEPT ![job[p].dir] = Whole(job[p].url)]
       \/ dir' = [dir EXCEPT ![job[p].dir] = NoClone]
    /\ Report(p, "ready")
    /\ UNCHANGED <<hosts, mixed, Same>>
\* Mutant: a failed clone returns without a word.
EndCloneSilent(p) ==
    /\ Doing(p, "clone", "end")
    /\ \/ /\ dir[job[p].dir] = Partial(job[p].url)
          /\ dir' = [dir EXCEPT ![job[p].dir] = Whole(job[p].url)]
          /\ Report(p, "ready")
       \/ /\ dir' = [dir EXCEPT ![job[p].dir] = NoClone]
          /\ Done(p) /\ UNCHANGED repo
    /\ UNCHANGED <<hosts, mixed, Same>>
\* git has finished, or failed and removed what it had written; if the
\* directory was removed from under it, it fails and may leave what came after.
EndClone(p) ==
    /\ Doing(p, "clone", "end")
    /\ \/ /\ dir[job[p].dir] = Partial(job[p].url)
          /\ dir' = [dir EXCEPT ![job[p].dir] = Whole(job[p].url)]
          /\ Report(p, "ready")
       \/ /\ dir' = [dir EXCEPT ![job[p].dir] = NoClone]
          /\ Report(p, "error")
       \/ /\ dir[job[p].dir] # Partial(job[p].url)
          /\ UNCHANGED dir /\ Report(p, "error")
    /\ UNCHANGED <<hosts, mixed, Same>>

\* gitPullSync: git pull works in what is there, whose origin need not be the
\* row's URL.
Pull(p) ==
    /\ Doing(p, "pull", "start")
    /\ \/ /\ dir[job[p].dir].kind = "whole"
          /\ hosts[job[p].dir] = HostOf[dir[job[p].dir].url]
          /\ Report(p, "ready")
       \/ Report(p, "error")
    /\ UNCHANGED <<disk, mixed, Same>>

-----------------------------------------------------------------------------
(* The rest of DeleteRepo.                                                 *)

\* Another row, or another job, that has the directory too.
Shared(p) ==
    \/ \E i \in Ids : Live(i) /\ repo[i].dir = job[p].dir
    \/ OnDir(job[p].dir) # {p}

\* The row first, which another deletion may have taken already; what a job is
\* doing in the directory is not looked at.
DeleteGitRepo(p) ==
    /\ Doing(p, "delete", "drop")
    /\ repo' = IF Live(job[p].id) THEN [repo EXCEPT ![job[p].id].state = "deleted"] ELSE repo
    /\ Goto(p, "removeDir")
    /\ mixed' = IF OnDir(job[p].dir) = {p} THEN mixed ELSE mixed \cup {job[p].dir}
    /\ UNCHANGED <<disk, Same>>

\* A failure is only logged.
RemoveDir(p) ==
    /\ Doing(p, "delete", "removeDir")
    /\ \/ /\ dir' = [dir EXCEPT ![job[p].dir] = NoClone]
          /\ mixed' = IF Shared(p) THEN mixed \cup {job[p].dir} ELSE mixed
       \/ UNCHANGED dir /\ mixed' = mixed \cup {job[p].dir}
    /\ Goto(p, "removeHosts")
    /\ UNCHANGED <<repo, hosts, Same>>

\* Mutant: the host keys stay.
RemoveHostsNot(p) ==
    /\ Doing(p, "delete", "removeHosts")
    /\ Done(p)
    /\ UNCHANGED <<repo, disk, mixed, Same>>
\* And so is this one.
RemoveHosts(p) ==
    /\ Doing(p, "delete", "removeHosts")
    /\ \/ /\ hosts' = [hosts EXCEPT ![job[p].dir] = None]
          /\ mixed' = IF Shared(p) THEN mixed \cup {job[p].dir} ELSE mixed
       \/ UNCHANGED hosts /\ mixed' = mixed \cup {job[p].dir}
    /\ Done(p)
    /\ UNCHANGED <<repo, dir, Same>>

-----------------------------------------------------------------------------
(* attachReposDirAndBuildCmds, for a repository that a template names: the *)
(* directory it will be copied from and the URL its origin is set to.  If  *)
(* there is no such row, or it is not ready, a directory will do.          *)

Copies(n) ==
    LET ready == {i \in Ids : Live(i) /\ repo[i].name = n /\ repo[i].status = "ready"} IN
    IF ready # {} THEN {[from |-> n, origin |-> repo[i].url] : i \in ready}
    ELSE IF dir[n] # NoClone THEN {[from |-> n, origin |-> None]}
    ELSE {}

-----------------------------------------------------------------------------
JobStep(p) ==
    \/ BeginClone(p) \/ LoadKey(p) \/ EnsureKnownHosts(p) \/ StartClone(p) \/ EndClone(p)
    \/ Pull(p) \/ RemoveDir(p) \/ RemoveHosts(p)

\* All requests that the bound admits are done.
Quiet == made = MaxRequests /\ Busy = {} /\ UNCHANGED vars

Next ==
    \/ \E p \in Jobs :
         \/ JobStep(p) \/ DeleteGitRepo(p)
         \/ \E u \in Urls : AddRepo(p, u)
         \/ \E i \in Ids : SyncRepo(p, i) \/ DeleteRepo(p, i)
    \/ \E i \in Ids, n \in Names : RenameRepo(i, n)
    \/ GenerateServerKey
    \/ \E m \in Managed : SetServerManagedKey(m) \/ DeleteManagedKey(m)
    \/ Crash \/ Quiet

Spec == Init /\ [][Next]_vars

\* git comes to an end, and every goroutine and handler runs.
FairSpec == Spec /\ \A p \in Jobs : WF_vars(JobStep(p) \/ DeleteGitRepo(p))

-----------------------------------------------------------------------------
\* What an instance is given as a repository is a whole clone of the URL its
\* origin is set to, whatever clones, pulls, deletions and lost keys came
\* before, unless the name was renamed from or to, or its directory was
\* removed, or failed to be removed, or cut short while something else used it.
ReadyIsCloned ==
    \A n \in Names \ mixed : \A c \in Copies(n) :
        c.origin # None => dir[c.from] = Whole(c.origin)

\* Unless the removal of a directory or of the host keys beside it fails, a
\* repository that is deleted leaves nothing behind that the next one of the
\* name would stumble over: a directory that keeps git from cloning, or the
\* keys of another host.
NothingLeftBehind ==
    \A n \in Names \ mixed :
      \/ OnDir(n) # {}
      \/ \E i \in Ids : Live(i) /\ repo[i].dir = n /\ hosts[n] \in {None, HostOf[repo[i].url]}
      \/ dir[n] = NoClone /\ hosts[n] = None

\* Unless a restart interrupts it, a clone ends, and its status says how.
CloneEnds ==
    \A i \in Ids :
      (Live(i) /\ repo[i].status \in {"pending", "cloning"})
        ~> (~Live(i) \/ repo[i].status \in {"ready", "error"} \/ crashed)

=============================================================================
