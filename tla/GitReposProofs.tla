---------------------------- MODULE GitReposProofs ----------------------------
(***************************************************************************)
(* Theorems about GitRepos, for any URLs, names, hosts, keys and jobs at   *)
(* once.                                                                   *)
(***************************************************************************)
EXTENDS GitRepos, TLAPS

\* A job works on the directory and the URL of its row, which may be deleted.
JobOwn(p) ==
    /\ repo[job[p].id].state # "unused"
    /\ job[p].dir = repo[job[p].id].dir /\ job[p].url = repo[job[p].id].url
    /\ job[p].op = "delete" <=> job[p].pc \in {"drop", "removeDir", "removeHosts"}
    /\ job[p].op # "none" /\ (job[p].pc \in {"get", "end"} => job[p].op = "clone")
    /\ job[p].pc \in {"removeDir", "removeHosts"} => ~Live(job[p].id)
JobsOwn == \A p \in Busy : JobOwn(p)
\* A row whose name is not that of its directory has been renamed.
NamesKept == \A i \in Ids : Live(i) => repo[i].name = repo[i].dir \/ {repo[i].name, repo[i].dir} \subseteq mixed

\* What a directory holds whose repository is registered: the jobs there are
\* the row's, one clone at most, and the content is as far as that clone.
Tended(i) ==
    LET n == repo[i].dir
        u == repo[i].url
    IN  /\ \A p \in OnDir(n) : job[p].id = i
        /\ \A p, q \in OnDir(n) : job[p].op = "clone" /\ job[q].op = "clone" => p = q
        /\ \A p \in OnDir(n) : job[p].op = "clone" => dir[n] = IF job[p].pc = "end" THEN Partial(u) ELSE NoClone
        /\ repo[i].status = "ready" => dir[n] = Whole(u)
        /\ dir[n] \in {NoClone, Whole(u)} \/ \E p \in OnDir(n) : job[p].op = "clone"
        /\ hosts[n] \in {None, HostOf[u]}
\* What it holds otherwise: nothing, once the deletion is through.
Left(n) ==
    /\ \A p \in OnDir(n) : /\ job[p].op = "delete" /\ OnDir(n) = {p}
                           /\ job[p].pc = "removeHosts" => dir[n] = NoClone
    /\ OnDir(n) = {} => dir[n] = NoClone /\ hosts[n] = None
LiveOf(n) == {i \in Ids : Live(i) /\ repo[i].dir = n}
TidyAt(n) ==
    /\ \A i \in LiveOf(n) : Tended(i)
    /\ LiveOf(n) = {} => Left(n)
Tidy == \A n \in Names \ mixed : TidyAt(n)
Inv == TypeOK /\ JobsOwn /\ NamesKept /\ Tidy

RowsTyped ==
    /\ repo \in [Ids -> Row]
    /\ \A i, j \in Ids :
         Live(i) /\ Live(j) /\ (repo[i].name = repo[j].name \/ repo[i].url = repo[j].url) => i = j
    /\ \A i \in Ids : Live(i) => repo[i].dir = NameOf[repo[i].url]
DiskTyped == dir \in [Names -> Clone] /\ hosts \in [Names -> Hosts \cup {None}]
JobsTyped == job \in [Jobs -> Job]
RestTyped ==
    /\ genKey \in BOOLEAN /\ chosen \in Managed \cup {None} /\ keys \subseteq Managed
    /\ made \in 0..MaxRequests /\ mixed \subseteq Names /\ crashed \in BOOLEAN
LEMMA TypeParts == TypeOK <=> RowsTyped /\ DiskTyped /\ JobsTyped /\ RestTyped
BY DEF TypeOK, RowsTyped, DiskTyped, JobsTyped, RestTyped
LEMMA TypePartsNext == ASSUME RowsTyped', DiskTyped', JobsTyped', RestTyped' PROVE TypeOK'
BY DEF TypeOK, RowsTyped, DiskTyped, JobsTyped, RestTyped

LEMMA Sets ==
    /\ NameOf \in [Urls -> Names] /\ HostOf \in [Urls -> Hosts]
    /\ None \notin Urls /\ None \notin Hosts /\ None \notin Managed /\ MaxRequests \in Nat /\ MaxId \in Nat \ {0}
BY UrlsAssumption, RepoBounds

LEMMA Clones == \A u \in Urls : /\ NoClone \in Clone /\ Partial(u) \in Clone /\ Whole(u) \in Clone
                                /\ NoClone # Partial(u) /\ Partial(u) # Whole(u) /\ NoClone # Whole(u)
                                /\ NoClone.kind # "whole" /\ Partial(u).kind # "whole"
BY DEF Clone, NoClone, Partial, Whole

-----------------------------------------------------------------------------
(* The steps of a job.                                                     *)

LEMMA BusyJob ==
    ASSUME TypeOK, JobsOwn, NEW p \in Jobs, job[p].pc # "idle"
    PROVE  /\ p \in Busy /\ job[p] \in Job /\ JobOwn(p)
           /\ job[p].id \in Ids /\ job[p].dir \in Names /\ job[p].url \in Urls
           /\ repo[job[p].id] \in Row
<1>1. p \in Busy /\ job[p] \in Job /\ JobOwn(p)
  BY DEF Busy, TypeOK, JobsOwn
<1>2. job[p].id \in Ids /\ repo[job[p].id] \in Row
  BY <1>1 DEF Job, TypeOK
<1>3. QED
  BY <1>1, <1>2 DEF JobOwn, Row

LEMMA StepBusy == ASSUME NEW p, JobStep(p) PROVE job[p].pc # "idle"
BY DEF JobStep, BeginClone, LoadKey, EnsureKnownHosts, StartClone, EndClone, Pull, RemoveDir, RemoveHosts, Doing, Git

Labels == {"key", "hosts", "start", "end", "removeHosts"}

\* All that a step of a job may write.
Effects(p) ==
    /\ \/ repo' = repo
       \/ Live(job[p].id) /\ \E st \in Statuses : repo' = [repo EXCEPT ![job[p].id].status = st]
    /\ dir' = dir \/ \E c \in Clone : dir' = [dir EXCEPT ![job[p].dir] = c]
    /\ hosts' = hosts \/ \E h \in Hosts \cup {None} : hosts' = [hosts EXCEPT ![job[p].dir] = h]
    /\ Done(p) \/ \E l \in Labels : Goto(p, l) /\ (l = "end" <=> StartClone(p)) /\ (l = "removeHosts" <=> RemoveDir(p))
    /\ mixed' = mixed \/ mixed' = mixed \cup {job[p].dir}
    /\ UNCHANGED Same
LEMMA StepEffects == ASSUME TypeOK, JobsOwn, NEW p \in Jobs, JobStep(p) PROVE Effects(p)
<1> DEFINE j == job[p]
<1>1. j \in Job /\ j.id \in Ids /\ j.dir \in Names /\ j.url \in Urls
  BY StepBusy, BusyJob
<1>2. /\ NoClone \in Clone /\ Partial(j.url) \in Clone /\ Whole(j.url) \in Clone /\ HostOf[j.url] \in Hosts
  BY <1>1, Clones, Sets
<1> HIDE DEF j
<1>3. j = job[p]
  BY DEF j
<1>4. ASSUME NEW st \in Statuses, UpdateGitRepoStatus(j.id, st)
      PROVE  repo' = repo \/ (Live(j.id) /\ \E s \in Statuses : repo' = [repo EXCEPT ![j.id].status = s])
  BY <1>4 DEF UpdateGitRepoStatus
<1>5. CASE BeginClone(p)
  BY <1>3, <1>4, <1>5 DEF BeginClone, Effects, disk, Labels, Statuses, StartClone, RemoveDir, Doing
<1>6. CASE LoadKey(p)
  BY <1>3, <1>4, <1>6 DEF LoadKey, Effects, disk, Labels, Statuses, Report, StartClone, RemoveDir, Doing, Git
<1>7. CASE EnsureKnownHosts(p)
  BY <1>2, <1>3, <1>4, <1>7 DEF EnsureKnownHosts, Effects, Labels, Statuses, Report, StartClone, RemoveDir, Doing, Git
<1>8. CASE StartClone(p)
  <2>1. ~RemoveDir(p)
    BY <1>8 DEF StartClone, RemoveDir, Doing
  <2>2. \/ dir' = [dir EXCEPT ![j.dir] = Partial(j.url)] /\ Goto(p, "end") /\ repo' = repo
        \/ Report(p, "error") /\ dir' = dir
    BY <1>3, <1>8 DEF StartClone
  <2>3. UNCHANGED <<hosts, mixed, Same>>
    BY <1>8 DEF StartClone
  <2>4. QED
    BY <1>2, <1>3, <1>4, <1>8, <2>1, <2>2, <2>3 DEF Effects, Labels, Statuses, Report
<1>9. CASE EndClone(p)
  <2>1. \/ \E c \in Clone, st \in Statuses : dir' = [dir EXCEPT ![j.dir] = c] /\ Report(p, st)
        \/ \E st \in Statuses : dir' = dir /\ Report(p, st)
    BY <1>2, <1>3, <1>9 DEF EndClone, Statuses
  <2>2. UNCHANGED <<hosts, mixed, Same>>
    BY <1>9 DEF EndClone
  <2>3. QED
    BY <1>3, <1>4, <2>1, <2>2 DEF Effects, Report
<1>10. CASE Pull(p)
  BY <1>3, <1>4, <1>10 DEF Pull, Effects, disk, Statuses, Report
<1>11. CASE RemoveDir(p)
  BY <1>2, <1>3, <1>11 DEF RemoveDir, Effects, Labels, StartClone, Doing
<1>12. CASE RemoveHosts(p)
  BY <1>3, <1>12 DEF RemoveHosts, Effects
<1>13. QED
  BY <1>5, <1>6, <1>7, <1>8, <1>9, <1>10, <1>11, <1>12 DEF JobStep

LEMMA StepTyped ==
    ASSUME TypeOK, JobsOwn, NamesKept, NEW p \in Jobs, JobStep(p)
    PROVE  TypeOK' /\ JobsOwn' /\ NamesKept'
<1> DEFINE j == job[p]
<1>1. /\ j \in Job /\ j.id \in Ids /\ j.dir \in Names /\ j.url \in Urls /\ JobOwn(p)
      /\ p \in Busy /\ repo[j.id] \in Row /\ Effects(p)
      /\ repo \in [Ids -> Row] /\ job \in [Jobs -> Job] /\ mixed \subseteq Names
  BY StepBusy, BusyJob, StepEffects DEF TypeOK
<1> HIDE DEF j
<1>2. j = job[p]
  BY DEF j
<1>3. ASSUME NEW i \in Ids
      PROVE  /\ repo'[i] \in Row /\ repo'[i].state = repo[i].state /\ repo'[i].name = repo[i].name
             /\ repo'[i].url = repo[i].url /\ repo'[i].dir = repo[i].dir
  <2>1. repo[i] \in Row /\ \A st \in Statuses : [repo[i] EXCEPT !.status = st] \in Row
    BY <1>1 DEF Row
  <2>2. repo'[i] = repo[i] \/ \E st \in Statuses : repo'[i] = [repo[i] EXCEPT !.status = st]
    BY <1>1, <1>2 DEF Effects
  <2>3. QED
    BY <2>1, <2>2 DEF Row
<1>4. RowsTyped'
  <2>1. repo' \in [Ids -> Row]
    BY <1>1, <1>2, <1>3 DEF Effects
  <2>2. QED
    BY <1>3, <2>1 DEF TypeOK, RowsTyped, Live
<1>5. \/ job' = [job EXCEPT ![p] = Idle]
      \/ \E l \in Labels : job' = [job EXCEPT ![p] = [j EXCEPT !.pc = l]] /\ (l = "removeHosts" <=> RemoveDir(p))
                            /\ (l = "end" <=> StartClone(p))
  BY <1>1, <1>2 DEF Effects, Done, Goto
<1>6. JobsTyped'
  <2>1. 1 \in Ids
    BY Sets DEF Ids
  <2>2. Idle \in Job
    BY <2>1 DEF Idle, Job
  <2>3. ASSUME NEW l \in Labels PROVE [j EXCEPT !.pc = l] \in Job
    BY <1>1 DEF Job, Labels
  <2>4. QED
    BY <1>1, <1>5, <2>2, <2>3 DEF JobsTyped
<1>7. DiskTyped' /\ RestTyped'
  BY <1>1, <1>2 DEF TypeOK, Effects, DiskTyped, RestTyped, Same, settings
<1>8. TypeOK'
  BY <1>4, <1>6, <1>7, TypePartsNext
<1>9. JobsOwn'
  <2>1. SUFFICES ASSUME NEW q \in Jobs, job'[q].pc # "idle" PROVE JobOwn(q)'
    BY DEF JobsOwn, Busy
  <2>2. CASE q # p
    <3>1. job'[q] = job[q] /\ q \in Busy
      BY <1>1, <1>5, <2>1, <2>2 DEF Busy
    <3>2. JobOwn(q) /\ job[q].id \in Ids
      BY <3>1, <1>1 DEF JobsOwn, Job, Busy
    <3>3. QED
      BY <1>3, <3>1, <3>2 DEF JobOwn, Live
  <2>3. CASE q = p
    <3>1. PICK l \in Labels : /\ job' = [job EXCEPT ![p] = [j EXCEPT !.pc = l]]
                              /\ (l = "removeHosts" <=> RemoveDir(p)) /\ (l = "end" <=> StartClone(p))
      BY <1>1, <1>5, <2>1, <2>3 DEF Idle
    <3>2. /\ job'[p].pc = l /\ job'[p].id = j.id /\ job'[p].op = j.op /\ job'[p].dir = j.dir /\ job'[p].url = j.url
      BY <1>1, <3>1 DEF Job
    <3>3. (j.op = "delete" <=> l = "removeHosts") /\ (l = "end" => j.op = "clone")
      <4>1. RemoveDir(p) => j.op = "delete"
        BY <1>2 DEF RemoveDir, Doing
      <4>2. StartClone(p) => j.op = "clone"
        BY <1>2 DEF StartClone, Doing
      <4>3. ~RemoveDir(p) => j.op # "delete"
        <5>1. Goto(p, l) /\ l \in Labels
          BY <1>2, <3>1 DEF Goto
        <5>2. job' # [job EXCEPT ![p] = Idle]
          BY <1>1, <3>1, <3>2, <2>1 DEF Idle, Labels
        <5>3. ~RemoveHosts(p)
          BY <5>2 DEF RemoveHosts, Done
        <5>4. QED
          BY <1>2, <5>3 DEF JobStep, BeginClone, LoadKey, EnsureKnownHosts, StartClone, EndClone, Pull, Doing, Git
      <4>4. QED
        BY <3>1, <4>1, <4>2, <4>3
    <3>4. QED
      <4>1. RemoveDir(p) => j.pc = "removeDir"
        BY <1>2 DEF RemoveDir, Doing
      <4>2. l \in {"removeDir", "removeHosts"} => ~Live(j.id)
        BY <1>1, <1>2, <3>1, <4>1 DEF JobOwn, Labels
      <4>3. QED
        BY <1>1, <1>2, <1>3, <2>3, <3>2, <3>3, <4>2 DEF JobOwn, Live, Labels
  <2>4. QED
    BY <2>2, <2>3
<1>10. NamesKept'
  BY <1>1, <1>2, <1>3 DEF NamesKept, Effects, Live
<1>11. QED
  BY <1>8, <1>9, <1>10

-----------------------------------------------------------------------------
(* What a directory holds.                                                 *)

LEMMA OneRow ==
    ASSUME TypeOK, NamesKept, NEW n \in Names \ mixed, NEW i \in LiveOf(n), NEW k \in LiveOf(n)
    PROVE  i = k
BY DEF TypeOK, NamesKept, LiveOf

\* A step that does not touch a directory, its row and its jobs.
LEMMA Frame ==
    ASSUME NEW n \in Names, TidyAt(n),
           LiveOf(n)' = LiveOf(n), \A i \in LiveOf(n) : repo'[i] = repo[i],
           OnDir(n)' = OnDir(n), \A p \in OnDir(n) : job'[p] = job[p],
           dir'[n] = dir[n], hosts'[n] = hosts[n]
    PROVE  TidyAt(n)'
<1>1. ASSUME NEW i \in LiveOf(n), Tended(i) PROVE Tended(i)'
  <2>1. repo[i].dir = n /\ repo'[i] = repo[i]
    BY <1>1 DEF LiveOf
  <2>2. QED
    BY <1>1, <2>1 DEF Tended
<1>2. Left(n) => Left(n)'
  BY DEF Left
<1>3. QED
  BY <1>1, <1>2 DEF TidyAt

LEMMA JobElsewhere ==
    ASSUME Inv, NEW p \in Jobs, JobStep(p), NEW n \in Names, n # job[p].dir, TidyAt(n)
    PROVE  TidyAt(n)'
<1> DEFINE j == job[p]
<1>1. /\ j \in Job /\ j.id \in Ids /\ JobOwn(p) /\ p \in Busy /\ Effects(p)
      /\ repo \in [Ids -> Row] /\ job \in [Jobs -> Job] /\ dir \in [Names -> Clone] /\ j.dir \in Names
      /\ hosts \in [Names -> Hosts \cup {None}]
  BY StepBusy, BusyJob, StepEffects DEF TypeOK, Inv
<1> HIDE DEF j
<1>2. j = job[p] /\ n # j.dir
  BY DEF j
<1>3. \A i \in Ids : i # j.id => repo'[i] = repo[i]
  BY <1>1, <1>2 DEF Effects
<1>4. repo[j.id].dir = j.dir /\ repo'[j.id].dir = j.dir
  <2>1. repo[j.id].dir = j.dir /\ repo[j.id] \in Row
    BY <1>1, <1>2 DEF JobOwn
  <2>2. repo'[j.id] = repo[j.id] \/ \E st \in Statuses : repo'[j.id] = [repo[j.id] EXCEPT !.status = st]
    BY <1>1, <1>2 DEF Effects
  <2>3. QED
    BY <2>1, <2>2 DEF Row
<1>5. LiveOf(n)' = LiveOf(n) /\ \A i \in LiveOf(n) : repo'[i] = repo[i]
  BY <1>2, <1>3, <1>4 DEF LiveOf, Live
<1>6. \A q \in Jobs : q # p => job'[q] = job[q]
  BY <1>1, <1>2 DEF Effects, Done, Goto
<1>7. job'[p].pc = "idle" \/ job'[p].dir = j.dir
  <2>1. job'[p] = Idle \/ \E l \in Labels : job'[p] = [j EXCEPT !.pc = l]
    BY <1>1, <1>2 DEF Effects, Done, Goto
  <2>2. \A l \in Labels : [j EXCEPT !.pc = l].dir = j.dir
    BY <1>1 DEF Job
  <2>3. Idle.pc = "idle"
    BY DEF Idle
  <2>4. QED
    BY <2>1, <2>2, <2>3
<1>8. OnDir(n)' = OnDir(n) /\ \A q \in OnDir(n) : job'[q] = job[q]
  BY <1>2, <1>6, <1>7 DEF OnDir, Busy
<1>9. dir'[n] = dir[n] /\ hosts'[n] = hosts[n]
  BY <1>1, <1>2 DEF Effects
<1>10. QED
  BY <1>5, <1>8, <1>9, Frame

\* A clone or a pull in the directory of its row, which is registered.
LEMMA JobHere ==
    ASSUME Inv, NEW p \in Jobs, JobStep(p), NEW n \in Names \ mixed, n = job[p].dir, TidyAt(n),
           NEW i \in LiveOf(n)
    PROVE  TidyAt(n)'
<1> DEFINE j == job[p]
           u == repo[i].url
<1>1. /\ j \in Job /\ j.id \in Ids /\ JobOwn(p) /\ p \in Busy /\ Effects(p)
      /\ repo \in [Ids -> Row] /\ job \in [Jobs -> Job] /\ dir \in [Names -> Clone] /\ n \in Names
      /\ hosts \in [Names -> Hosts \cup {None}]
  BY StepBusy, BusyJob, StepEffects DEF TypeOK, Inv
<1>2. /\ i \in Ids /\ Live(i) /\ repo[i].dir = n /\ Tended(i) /\ p \in OnDir(n) /\ j.id = i
      /\ repo[i] \in Row
  BY <1>1 DEF LiveOf, TidyAt, OnDir, Tended
<1>3. u \in Urls /\ j.url = u /\ j.op \in {"clone", "pull"} /\ j.dir = n
  <2>1. ~(RemoveDir(p) \/ RemoveHosts(p))
    BY <1>1, <1>2 DEF JobOwn, RemoveDir, RemoveHosts, Doing
  <2>2. j.op \in {"clone", "pull"}
    BY <2>1 DEF JobStep, BeginClone, LoadKey, EnsureKnownHosts, StartClone, EndClone, Pull, Doing, Git
  <2>3. QED
    BY <1>1, <1>2, <2>2 DEF JobOwn, Row, Job
<1> HIDE DEF j, u
<1>4. j = job[p] /\ u = repo[i].url
  BY DEF j, u
\* Where the row and the jobs stand after the step.
<1>5. LiveOf(n) = {i}
  BY OneRow DEF Inv
<1>6. \A k \in Ids : /\ repo'[k].dir = repo[k].dir /\ repo'[k].url = repo[k].url
                     /\ repo'[k].state = repo[k].state
  <2>1. ASSUME NEW k \in Ids
        PROVE  repo'[k] = repo[k] \/ \E st \in Statuses : repo'[k] = [repo[k] EXCEPT !.status = st]
    BY <1>1, <1>4 DEF Effects
  <2>2. \A k \in Ids : repo[k] \in Row
    BY <1>1
  <2>3. QED
    BY <2>1, <2>2 DEF Row
<1>7. LiveOf(n)' = {i}
  BY <1>5, <1>6 DEF LiveOf, Live
<1>8. \A q \in Jobs : q # p => job'[q] = job[q]
  BY <1>1, <1>4 DEF Effects, Done, Goto
<1>9. \/ job'[p] = Idle
      \/ \E l \in Labels : /\ job'[p].pc = l /\ job'[p].op = j.op /\ job'[p].id = i /\ job'[p].dir = n
                           /\ (l = "end" <=> StartClone(p))
  <2>1. job'[p] = Idle \/ \E l \in Labels : job'[p] = [j EXCEPT !.pc = l] /\ (l = "end" <=> StartClone(p))
    BY <1>1, <1>4 DEF Effects, Done, Goto
  <2>2. QED
    BY <1>1, <1>2, <1>3, <2>1 DEF Job
<1>10. \A q \in OnDir(n)' : q \in OnDir(n) /\ job'[q].id = i /\ job'[q].op = job[q].op
  <2>1. \A q \in OnDir(n) : job[q].id = i
    BY <1>2 DEF Tended
  <2>2. QED
    BY <1>2, <1>4, <1>8, <1>9, <2>1 DEF OnDir, Busy, Idle
<1>11. \A q, r \in OnDir(n)' : job'[q].op = "clone" /\ job'[r].op = "clone" => q = r
  BY <1>2, <1>10 DEF Tended
\* Facts of the state before.
<1>12. \A q \in OnDir(n) : job[q].op = "clone" => dir[n] = IF job[q].pc = "end" THEN Partial(u) ELSE NoClone
  BY <1>2, <1>4 DEF Tended
<1>13. repo[i].status = "ready" => dir[n] = Whole(u)
  BY <1>2, <1>4 DEF Tended
<1>14. dir[n] \in {NoClone, Whole(u)} \/ \E q \in OnDir(n) : job[q].op = "clone"
  BY <1>2, <1>4 DEF Tended
<1>15. hosts[n] \in {None, HostOf[u]}
  BY <1>2, <1>4 DEF Tended
<1>16. dir[n] \in {NoClone, Partial(u), Whole(u)}
  BY <1>12, <1>14
<1>17. /\ NoClone # Partial(u) /\ Partial(u) # Whole(u) /\ NoClone # Whole(u)
       /\ NoClone.kind # "whole" /\ Partial(u).kind # "whole"
  BY <1>3, Clones
<1>18. SUFFICES
       /\ \A q \in OnDir(n)' : job'[q].op = "clone" => dir'[n] = IF job'[q].pc = "end" THEN Partial(u) ELSE NoClone
       /\ repo'[i].status = "ready" => dir'[n] = Whole(u)
       /\ dir'[n] \in {NoClone, Whole(u)} \/ \E q \in OnDir(n)' : job'[q].op = "clone"
       /\ hosts'[n] \in {None, HostOf[u]}
  <2>1. repo'[i].dir = n /\ repo'[i].url = u
    BY <1>2, <1>4, <1>6
  <2>2. QED
    BY <1>7, <1>10, <1>11, <1>18, <2>1 DEF TidyAt, Tended
\* What remains of the directory when the step leaves its content alone.
<1>19. ASSUME dir' = dir, ~StartClone(p), j.pc # "end"
       PROVE  /\ \A q \in OnDir(n)' : job'[q].op = "clone" => dir'[n] = IF job'[q].pc = "end" THEN Partial(u) ELSE NoClone
              /\ dir'[n] \in {NoClone, Whole(u)} \/ \E q \in OnDir(n)' : job'[q].op = "clone"
  <2>1. ASSUME NEW q \in OnDir(n)', job'[q].op = "clone"
        PROVE  dir'[n] = IF job'[q].pc = "end" THEN Partial(u) ELSE NoClone
    <3>1. q \in OnDir(n) /\ job[q].op = "clone"
      BY <1>10, <2>1
    <3>2. q \in Jobs
      BY <3>1 DEF OnDir, Busy
    <3>3. CASE q # p
      BY <1>8, <1>12, <1>19, <3>1, <3>2, <3>3
    <3>4. CASE q = p
      <4>1. job'[p].pc # "end"
        BY <1>9, <1>19 DEF Idle
      <4>2. QED
        BY <1>4, <1>12, <1>19, <3>1, <3>4, <4>1
    <3>5. QED
      BY <3>3, <3>4
  <2>2. ASSUME dir'[n] \notin {NoClone, Whole(u)} PROVE \E q \in OnDir(n)' : job'[q].op = "clone"
    <3>1. PICK q \in OnDir(n) : job[q].op = "clone" /\ dir[n] \notin {NoClone, Whole(u)}
      BY <1>14, <1>19, <2>2
    <3>2. q # p
      BY <1>4, <1>12, <1>19, <3>1
    <3>3. q \in Jobs /\ job'[q] = job[q]
      BY <1>8, <3>1, <3>2 DEF OnDir, Busy
    <3>4. QED
      BY <3>1, <3>3 DEF OnDir, Busy
  <2>3. QED
    BY <2>1, <2>2
<1>20. ASSUME NEW st \in Statuses, UpdateGitRepoStatus(i, st) PROVE repo'[i].status = st
  BY <1>1, <1>2, <1>20 DEF UpdateGitRepoStatus, Row
<1>21. CASE BeginClone(p)
  <2>1. repo'[i].status # "ready" /\ dir' = dir /\ hosts' = hosts /\ ~StartClone(p) /\ j.pc # "end"
    BY <1>2, <1>4, <1>20, <1>21 DEF BeginClone, Doing, disk, StartClone, Statuses
  <2>2. QED
    BY <1>15, <1>19, <2>1
<1>22. CASE LoadKey(p)
  <2>1. dir' = dir /\ hosts' = hosts /\ ~StartClone(p) /\ j.pc # "end"
    BY <1>4, <1>22 DEF LoadKey, Git, Doing, disk, StartClone
  <2>2. repo' = repo \/ repo'[i].status # "ready"
    BY <1>2, <1>4, <1>20, <1>22 DEF LoadKey, Report, Statuses
  <2>3. QED
    BY <1>13, <1>15, <1>19, <2>1, <2>2
<1>23. CASE EnsureKnownHosts(p)
  <2>1. dir' = dir /\ ~StartClone(p) /\ j.pc # "end"
    BY <1>4, <1>23 DEF EnsureKnownHosts, Git, Doing, StartClone
  <2>2. repo' = repo \/ repo'[i].status # "ready"
    BY <1>2, <1>4, <1>20, <1>23 DEF EnsureKnownHosts, Report, Statuses
  <2>3. hosts'[n] = hosts[n] \/ hosts'[n] = HostOf[u]
    BY <1>1, <1>3, <1>4, <1>23 DEF EnsureKnownHosts
  <2>4. QED
    BY <1>13, <1>15, <1>19, <2>1, <2>2, <2>3
<1>24. CASE StartClone(p)
  <2>1. j.op = "clone" /\ j.pc = "start" /\ hosts' = hosts
    BY <1>4, <1>24 DEF StartClone, Doing
  <2>2. dir[n] = NoClone
    BY <1>2, <1>4, <1>12, <2>1
  <2>3. CASE dir' = [dir EXCEPT ![n] = Partial(u)] /\ Goto(p, "end") /\ repo' = repo
    <3>1. dir'[n] = Partial(u) /\ job'[p] = [j EXCEPT !.pc = "end"] /\ repo'[i].status # "ready"
      BY <1>1, <1>4, <1>13, <1>17, <2>2, <2>3 DEF Goto
    <3>2. job'[p].pc = "end" /\ job'[p].op = "clone" /\ job'[p].dir = n
      BY <1>1, <1>3, <2>1, <3>1 DEF Job
    <3>3. p \in OnDir(n)'
      BY <3>2 DEF OnDir, Busy
    <3>4. \A q \in OnDir(n)' : job'[q].op = "clone" => q = p
      BY <1>11, <3>2, <3>3
    <3>5. QED
      BY <1>15, <2>1, <3>1, <3>2, <3>3, <3>4
  <2>4. CASE Report(p, "error") /\ dir' = dir
    <3>1. repo'[i].status = "error" /\ job'[p] = Idle
      BY <1>1, <1>2, <1>4, <1>20, <2>4 DEF Report, Statuses, Done
    <3>2. p \notin OnDir(n)'
      BY <3>1 DEF OnDir, Busy, Idle
    <3>3. \A q \in OnDir(n)' : job'[q].op # "clone"
      BY <1>2, <1>4, <1>10, <2>1, <3>2 DEF Tended
    <3>4. QED
      BY <1>15, <2>1, <2>2, <2>4, <3>1, <3>3
  <2>5. QED
    BY <1>3, <1>4, <1>24, <2>3, <2>4 DEF StartClone
<1>25. CASE EndClone(p)
  <2>1. j.op = "clone" /\ j.pc = "end" /\ hosts' = hosts
    BY <1>4, <1>25 DEF EndClone, Doing
  <2>2. dir[n] = Partial(u)
    BY <1>2, <1>4, <1>12, <2>1
  <2>3. \/ dir'[n] = Whole(u) /\ Report(p, "ready")
        \/ dir'[n] = NoClone /\ Report(p, "error")
    BY <1>1, <1>3, <1>4, <1>25, <2>2 DEF EndClone
  <2>4. job'[p] = Idle
    BY <1>1, <2>3 DEF Report, Done
  <2>5. p \notin OnDir(n)'
    BY <2>4 DEF OnDir, Busy, Idle
  <2>6. \A q \in OnDir(n)' : job'[q].op # "clone"
    BY <1>2, <1>4, <1>10, <2>1, <2>5 DEF Tended
  <2>7. dir'[n] = Whole(u) \/ (dir'[n] = NoClone /\ repo'[i].status = "error")
    BY <1>2, <1>4, <1>20, <2>3 DEF Report, Statuses
  <2>8. QED
    BY <1>15, <2>1, <2>6, <2>7
<1>26. CASE Pull(p)
  <2>1. dir' = dir /\ hosts' = hosts /\ ~StartClone(p) /\ j.pc # "end"
    BY <1>4, <1>26 DEF Pull, Doing, disk, StartClone
  <2>2. \/ dir[n].kind = "whole"
        \/ repo'[i].status = "error"
    BY <1>2, <1>3, <1>4, <1>20, <1>26 DEF Pull, Report, Statuses
  <2>3. repo'[i].status = "ready" => dir'[n] = Whole(u)
    BY <1>16, <1>17, <2>1, <2>2
  <2>4. QED
    BY <1>15, <1>19, <2>1, <2>3
<1>27. ~RemoveDir(p) /\ ~RemoveHosts(p)
  BY <1>3, <1>4 DEF RemoveDir, RemoveHosts, Doing
<1>28. QED
  BY <1>21, <1>22, <1>23, <1>24, <1>25, <1>26, <1>27 DEF JobStep

\* A deletion, in the directory of a repository that is gone.
LEMMA JobAfter ==
    ASSUME Inv, NEW p \in Jobs, JobStep(p), NEW n \in Names \ mixed, n \notin mixed',
           n = job[p].dir, TidyAt(n), LiveOf(n) = {}
    PROVE  TidyAt(n)'
<1>1. /\ p \in Busy /\ Effects(p) /\ job[p].id \in Ids /\ job[p] \in Job
      /\ repo \in [Ids -> Row] /\ job \in [Jobs -> Job] /\ dir \in [Names -> Clone]
      /\ hosts \in [Names -> Hosts \cup {None}]
  BY StepBusy, BusyJob, StepEffects DEF TypeOK, Inv
<1>2. OnDir(n) = {p} /\ job[p].op = "delete" /\ (job[p].pc = "removeHosts" => dir[n] = NoClone)
  BY <1>1 DEF TidyAt, Left, OnDir
<1>3. \A q \in Jobs : q # p => job'[q] = job[q]
  BY <1>1 DEF Effects, Done, Goto
<1>4. OnDir(n)' \subseteq {p}
  BY <1>2, <1>3 DEF OnDir, Busy
<1>5. CASE RemoveDir(p)
  <2>1. job'[p] = [job[p] EXCEPT !.pc = "removeHosts"] /\ repo' = repo
    BY <1>1, <1>5 DEF RemoveDir, Goto
  <2>2. job'[p].op = "delete" /\ job'[p].pc = "removeHosts" /\ job'[p].dir = n
    BY <1>1, <1>2, <2>1 DEF Job
  <2>3. OnDir(n)' = {p} /\ LiveOf(n)' = {}
    BY <1>4, <2>1, <2>2 DEF OnDir, Busy, LiveOf, Live
  <2>4. dir'[n] = NoClone
    BY <1>1, <1>5 DEF RemoveDir
  <2>5. QED
    BY <2>2, <2>3, <2>4 DEF TidyAt, Left
<1>6. CASE RemoveHosts(p)
  <2>1. job'[p] = Idle /\ repo' = repo /\ dir' = dir /\ hosts'[n] = None
    BY <1>1, <1>6 DEF RemoveHosts, Done
  <2>2. OnDir(n)' = {} /\ LiveOf(n)' = {}
    BY <1>4, <2>1 DEF OnDir, Busy, LiveOf, Live, Idle
  <2>3. dir'[n] = NoClone
    BY <1>2, <1>6, <2>1 DEF RemoveHosts, Doing
  <2>4. QED
    BY <2>1, <2>2, <2>3 DEF TidyAt, Left
<1>7. QED
  BY <1>2, <1>5, <1>6 DEF JobStep, BeginClone, LoadKey, EnsureKnownHosts, StartClone, EndClone, Pull, Doing, Git

LEMMA StepTidy == ASSUME Inv, NEW p \in Jobs, JobStep(p) PROVE Tidy'
<1>1. mixed \subseteq mixed'
  BY StepEffects DEF Effects, Inv
<1>2. SUFFICES ASSUME NEW n \in Names \ mixed' PROVE TidyAt(n)'
  BY DEF Tidy
<1>3. n \in Names \ mixed /\ n \notin mixed' /\ TidyAt(n)
  BY <1>1 DEF Inv, Tidy
<1>4. QED
  BY <1>3, JobElsewhere, JobHere, JobAfter

-----------------------------------------------------------------------------
(* Requests.                                                               *)

\* A job that takes a free place.
NewJob(p, i, o, l) ==
    [pc |-> l, op |-> o, id |-> i, url |-> repo[i].url, dir |-> repo[i].dir]

LEMMA AddRepoKeeps == ASSUME Inv, NEW p \in Jobs, NEW u \in Urls, AddRepo(p, u) PROVE Inv'
<1>1. CASE UNCHANGED <<repo, job, mixed>>
  <2>1. UNCHANGED <<repo, dir, hosts, genKey, chosen, keys, job, mixed, crashed>> /\ made' \in 0..MaxRequests
    BY <1>1, Sets DEF AddRepo, Asked, disk, settings, Inv, TypeOK
  <2>2. TypeOK'
    BY <2>1 DEF Inv, TypeOK, Live
  <2>3. JobsOwn' /\ NamesKept'
    BY <2>1 DEF Inv, JobsOwn, JobOwn, NamesKept, Busy, Live
  <2>4. Tidy'
    BY <2>1 DEF Inv, Tidy, TidyAt, Tended, Left, LiveOf, OnDir, Busy, Live
  <2>5. QED
    BY <2>2, <2>3, <2>4 DEF Inv
<1>2. ASSUME NEW i \in Ids, Fresh(i), ~NameTaken(NameOf[u]), ~UrlTaken(u),
             repo' = [repo EXCEPT ![i] = [state |-> "live", name |-> NameOf[u], url |-> u,
                                          dir |-> NameOf[u], status |-> "pending"]],
             job' = [job EXCEPT ![p] = [pc |-> "get", op |-> "clone", id |-> i,
                                        url |-> u, dir |-> NameOf[u]]],
             mixed' = IF OnDir(NameOf[u]) = {} THEN mixed ELSE mixed \cup {NameOf[u]}
      PROVE  Inv'
  <2> DEFINE m == NameOf[u]
             r == [state |-> "live", name |-> NameOf[u], url |-> u, dir |-> NameOf[u], status |-> "pending"]
             j == [pc |-> "get", op |-> "clone", id |-> i, url |-> u, dir |-> NameOf[u]]
  <2>1. /\ repo \in [Ids -> Row] /\ job \in [Jobs -> Job] /\ m \in Names /\ repo[i].state = "unused"
        /\ p \notin Busy /\ mixed \subseteq Names
        /\ UNCHANGED <<dir, hosts, genKey, chosen, keys, crashed>> /\ made' \in 0..MaxRequests
    BY <1>2, Sets DEF AddRepo, Asked, disk, settings, Inv, TypeOK, Fresh, Free
  <2>2. r \in Row /\ j \in Job
    BY <2>1 DEF Row, Job, Statuses
  <2>3. /\ r.state = "live" /\ r.name = m /\ r.url = u /\ r.dir = m /\ r.status = "pending"
        /\ j.pc = "get" /\ j.op = "clone" /\ j.id = i /\ j.url = u /\ j.dir = m
    OBVIOUS
  <2>4. repo' = [repo EXCEPT ![i] = r] /\ job' = [job EXCEPT ![p] = j]
    BY <1>2
  <2>5. mixed' = IF OnDir(m) = {} THEN mixed ELSE mixed \cup {m}
    BY <1>2
  <2>6. ~NameTaken(m) /\ m = NameOf[u]
    BY <1>2
  <2> HIDE DEF r, j, m
  <2>7. /\ repo'[i] = r /\ job'[p] = j /\ (\A k \in Ids : k # i => repo'[k] = repo[k])
        /\ \A q \in Jobs : q # p => job'[q] = job[q]
    BY <2>1, <2>4
  <2>8. RowsTyped'
    <3>1. repo' \in [Ids -> Row]
      BY <2>1, <2>2, <2>4
    <3>2. \A k \in Ids : Live(k) => repo[k].name # m /\ repo[k].url # u
      BY <1>2, <2>6 DEF NameTaken, UrlTaken
    <3>3. \A k \in Ids : k # i => (Live(k)' <=> Live(k)) /\ repo'[k] = repo[k]
      BY <2>7 DEF Live
    <3>4. \A k, l \in Ids : Live(k)' /\ Live(l)' /\ (repo'[k].name = repo'[l].name \/ repo'[k].url = repo'[l].url) => k = l
      BY <2>3, <2>7, <3>2, <3>3 DEF Inv, TypeOK
    <3>5. \A k \in Ids : Live(k)' => repo'[k].dir = NameOf[repo'[k].url]
      BY <2>3, <2>6, <2>7, <3>3 DEF Inv, TypeOK
    <3>6. QED
      BY <3>1, <3>4, <3>5 DEF RowsTyped, Live
  <2>9. TypeOK'
    <3>1. JobsTyped'
      BY <2>1, <2>2, <2>4 DEF JobsTyped
    <3>2. DiskTyped' /\ RestTyped'
      BY <2>1, <2>5 DEF Inv, TypeOK, DiskTyped, RestTyped
    <3>3. QED
      BY <2>8, <3>1, <3>2, TypePartsNext
  <2>10. JobsOwn'
    <3>1. SUFFICES ASSUME NEW q \in Jobs, job'[q].pc # "idle" PROVE JobOwn(q)'
      BY DEF JobsOwn, Busy
    <3>2. CASE q = p
      BY <2>3, <2>7, <3>2 DEF JobOwn, Live
    <3>3. CASE q # p
      <4>1. job'[q] = job[q] /\ JobOwn(q) /\ job[q] \in Job
        BY <2>1, <2>7, <3>1, <3>3 DEF Inv, JobsOwn, Busy
      <4>2. job[q].id \in Ids /\ job[q].id # i
        BY <2>1, <4>1 DEF JobOwn, Job
      <4>3. QED
        BY <2>7, <4>1, <4>2 DEF JobOwn, Live
    <3>4. QED
      BY <3>2, <3>3
  <2>11. NamesKept'
    BY <2>3, <2>5, <2>7 DEF Inv, NamesKept, Live
  <2>12. ASSUME NEW n \in Names \ mixed' PROVE TidyAt(n)'
    <3>1. n \in Names \ mixed /\ TidyAt(n)
      BY <2>5, <2>12 DEF Inv, Tidy
    <3>2. CASE n # m
      <4>1. LiveOf(n)' = LiveOf(n) /\ \A k \in LiveOf(n) : repo'[k] = repo[k]
        BY <2>1, <2>3, <2>7, <3>2 DEF LiveOf, Live
      <4>2. OnDir(n)' = OnDir(n) /\ \A q \in OnDir(n) : job'[q] = job[q]
        BY <2>1, <2>3, <2>7, <3>2 DEF OnDir, Busy
      <4>3. QED
        BY <2>1, <3>1, <4>1, <4>2, Frame
    <3>3. CASE n = m
      <4>1. OnDir(n) = {}
        BY <2>5, <2>12, <3>3
      <4>2. LiveOf(n) = {}
        BY <2>6, <3>1, <3>3 DEF Inv, NamesKept, LiveOf, NameTaken
      <4>3. dir[n] = NoClone /\ hosts[n] = None
        BY <3>1, <4>1, <4>2 DEF TidyAt, Left
      <4>4. OnDir(n)' = {p}
        BY <2>3, <2>7, <3>3, <4>1 DEF OnDir, Busy
      <4>5. LiveOf(n)' = {i}
        BY <2>3, <2>7, <3>3, <4>2 DEF LiveOf, Live
      <4>6. Tended(i)'
        BY <2>1, <2>3, <2>7, <3>3, <4>3, <4>4 DEF Tended
      <4>7. QED
        BY <4>5, <4>6 DEF TidyAt
    <3>4. QED
      BY <3>2, <3>3
  <2>13. QED
    BY <2>9, <2>10, <2>11, <2>12 DEF Inv, Tidy
<1>3. QED
  BY <1>1, <1>2 DEF AddRepo

\* A job on a row that is registered: its record, and what it disturbs.
Taken(p, i, o, l) ==
    /\ JobsTyped' /\ (\A q \in Jobs : q # p => job'[q] = job[q])
    /\ repo[i] \in Row /\ repo[i].dir \in Names
    /\ job'[p].pc = l /\ job'[p].op = o /\ job'[p].id = i
    /\ job'[p].url = repo[i].url /\ job'[p].dir = repo[i].dir
    /\ \A n \in Names \ {repo[i].dir} : OnDir(n)' = OnDir(n) /\ \A q \in OnDir(n) : job'[q] = job[q]
    /\ \A n \in Names : n = repo[i].dir => OnDir(n)' = OnDir(n) \cup {p}
LEMMA NewJobs ==
    ASSUME Inv, NEW p \in Jobs, p \notin Busy, NEW i \in Ids, Live(i),
           NEW o \in {"pull", "delete"}, NEW l \in {"key", "drop"},
           job' = [job EXCEPT ![p] = NewJob(p, i, o, l)]
    PROVE  Taken(p, i, o, l)
<1>1. repo[i] \in Row /\ job \in [Jobs -> Job]
  BY DEF Inv, TypeOK
<1>2. PICK d, v : d = repo[i].dir /\ v = repo[i].url /\ d \in Names /\ v \in Urls
  BY <1>1 DEF Row
<1>3. PICK j : j = NewJob(p, i, o, l) /\ j \in Job /\ j.pc = l /\ j.op = o /\ j.id = i /\ j.url = v /\ j.dir = d
  <2>1. NewJob(p, i, o, l) = [pc |-> l, op |-> o, id |-> i, url |-> v, dir |-> d]
    BY <1>2 DEF NewJob
  <2>2. [pc |-> l, op |-> o, id |-> i, url |-> v, dir |-> d] \in Job
    BY <1>2 DEF Job
  <2>3. QED
    BY <2>1, <2>2
<1>4. JobsTyped' /\ job'[p] = j /\ \A q \in Jobs : q # p => job'[q] = job[q]
  BY <1>1, <1>3 DEF JobsTyped
<1>5. \A n \in Names : n # d => OnDir(n)' = OnDir(n) /\ \A q \in OnDir(n) : job'[q] = job[q]
  BY <1>3, <1>4 DEF OnDir, Busy
<1>6. OnDir(d)' = OnDir(d) \cup {p}
  BY <1>3, <1>4 DEF OnDir, Busy
<1>7. QED
  BY <1>1, <1>2, <1>3, <1>4, <1>5, <1>6 DEF Taken

\* A pull and a deletion begin alike: with a job, and nothing else.
LEMMA RowJobKeeps ==
    ASSUME Inv, NEW p \in Jobs, NEW i \in Ids, NEW o \in {"pull", "delete"}, NEW l \in {"key", "drop"},
           o = "delete" <=> l = "drop", p \notin Busy, Live(i),
           UNCHANGED <<repo, dir, hosts, genKey, chosen, keys, mixed, crashed>>,
           made' \in 0..MaxRequests, Taken(p, i, o, l)
    PROVE  Inv'
<1>1. /\ p \notin Busy /\ Live(i) /\ UNCHANGED <<repo, dir, hosts, genKey, chosen, keys, mixed, crashed>>
      /\ made' \in 0..MaxRequests
  OBVIOUS
<1>2. /\ JobsTyped' /\ (\A q \in Jobs : q # p => job'[q] = job[q])
      /\ repo[i] \in Row /\ repo[i].dir \in Names
      /\ job'[p].pc = l /\ job'[p].op = o /\ job'[p].id = i
      /\ job'[p].url = repo[i].url /\ job'[p].dir = repo[i].dir
      /\ \A n \in Names \ {repo[i].dir} : OnDir(n)' = OnDir(n) /\ \A q \in OnDir(n) : job'[q] = job[q]
      /\ \A n \in Names : n = repo[i].dir => OnDir(n)' = OnDir(n) \cup {p}
  BY DEF Taken
<1>3. TypeOK'
  BY <1>1, <1>2, TypePartsNext DEF Inv, TypeOK, RowsTyped, DiskTyped, RestTyped, Live
<1>4. JobsOwn'
  <2>1. SUFFICES ASSUME NEW q \in Jobs, job'[q].pc # "idle" PROVE JobOwn(q)'
    BY DEF JobsOwn, Busy
  <2>2. CASE q = p
    BY <1>1, <1>2, <2>2 DEF JobOwn, Live
  <2>3. CASE q # p
    BY <1>1, <1>2, <2>1, <2>3 DEF Inv, JobsOwn, JobOwn, Busy, Live
  <2>4. QED
    BY <2>2, <2>3
<1>5. NamesKept'
  BY <1>1 DEF Inv, NamesKept, Live
<1>6. ASSUME NEW n \in Names \ mixed' PROVE TidyAt(n)'
  <2>1. n \in Names \ mixed /\ TidyAt(n) /\ LiveOf(n)' = LiveOf(n)
    BY <1>1, <1>6 DEF Inv, Tidy, LiveOf, Live
  <2>2. CASE n # repo[i].dir
    BY <1>1, <1>2, <2>1, <2>2, Frame
  <2>3. CASE n = repo[i].dir
    <3>1. LiveOf(n) = {i} /\ Tended(i)
      BY <1>1, <2>1, <2>3, OneRow DEF Inv, LiveOf, TidyAt
    <3>2. \A q \in OnDir(n) : q \in Jobs /\ q # p /\ job'[q] = job[q]
      BY <1>1, <1>2 DEF OnDir, Busy
    <3>3. \A q \in OnDir(n)' : q \in OnDir(n) \/ q = p
      BY <1>2, <2>3
    <3>4. OnDir(n) \subseteq OnDir(n)'
      BY <1>2, <2>3
    <3>5. \A q \in OnDir(n)' : job'[q].id = i /\ (job'[q].op = "clone" => q \in OnDir(n))
      BY <1>2, <2>3, <3>1, <3>2, <3>3 DEF Tended
    <3>6. Tended(i)'
      BY <1>1, <2>3, <3>1, <3>2, <3>4, <3>5 DEF Tended
    <3>7. QED
      BY <2>1, <3>1, <3>6 DEF TidyAt
  <2>4. QED
    BY <2>2, <2>3
<1>7. QED
  BY <1>3, <1>4, <1>5, <1>6 DEF Inv, Tidy

LEMMA SyncRepoKeeps == ASSUME Inv, NEW p \in Jobs, NEW i \in Ids, SyncRepo(p, i) PROVE Inv'
<1>1. /\ p \notin Busy /\ Live(i) /\ UNCHANGED <<repo, dir, hosts, genKey, chosen, keys, mixed, crashed>>
      /\ made' \in 0..MaxRequests /\ job' = [job EXCEPT ![p] = NewJob(p, i, "pull", "key")]
  BY Sets DEF SyncRepo, Free, Asked, NewJob, disk, settings, Inv, TypeOK
<1>2. Taken(p, i, "pull", "key")
  BY <1>1, NewJobs
<1>3. QED
  BY <1>1, <1>2, RowJobKeeps

LEMMA DeleteRepoKeeps == ASSUME Inv, NEW p \in Jobs, NEW i \in Ids, DeleteRepo(p, i) PROVE Inv'
<1>1. /\ p \notin Busy /\ Live(i) /\ UNCHANGED <<repo, dir, hosts, genKey, chosen, keys, mixed, crashed>>
      /\ made' \in 0..MaxRequests /\ job' = [job EXCEPT ![p] = NewJob(p, i, "delete", "drop")]
  BY Sets DEF DeleteRepo, Free, Asked, NewJob, disk, settings, Inv, TypeOK
<1>2. Taken(p, i, "delete", "drop")
  BY <1>1, NewJobs
<1>3. QED
  BY <1>1, <1>2, RowJobKeeps

\* The job of a deletion that drops its row, and the row.
LEMMA Dropping ==
    ASSUME Inv, NEW p \in Jobs, DeleteGitRepo(p)
    PROVE  LET j == job[p] IN
           /\ j \in Job /\ j.id \in Ids /\ JobOwn(p) /\ p \in Busy /\ j.dir \in Names /\ j.op = "delete" /\ j.pc = "drop"
           /\ job'[p] = [j EXCEPT !.pc = "removeDir"] /\ job'[p].pc = "removeDir"
           /\ job'[p].op = j.op /\ job'[p].id = j.id /\ job'[p].dir = j.dir /\ job'[p].url = j.url
           /\ JobsTyped' /\ \A q \in Jobs : q # p => job'[q] = job[q]
           /\ repo' \in [Ids -> Row] /\ repo'[j.id].state \notin {"unused", "live"}
           /\ repo'[j.id].dir = repo[j.id].dir /\ repo'[j.id].url = repo[j.id].url
           /\ \A k \in Ids : k # j.id => repo'[k] = repo[k]
<1> DEFINE j == job[p]
<1>1. /\ j \in Job /\ j.id \in Ids /\ JobOwn(p) /\ p \in Busy /\ j.dir \in Names /\ j.op = "delete" /\ j.pc = "drop"
      /\ job \in [Jobs -> Job] /\ repo \in [Ids -> Row]
  BY BusyJob DEF DeleteGitRepo, Doing, Inv, TypeOK
<1>2. job' = [job EXCEPT ![p] = [j EXCEPT !.pc = "removeDir"]]
  BY <1>1 DEF DeleteGitRepo, Goto
<1>3. /\ [j EXCEPT !.pc = "removeDir"] \in Job
      /\ job'[p] = [j EXCEPT !.pc = "removeDir"] /\ job'[p].pc = "removeDir"
      /\ job'[p].op = j.op /\ job'[p].id = j.id /\ job'[p].dir = j.dir /\ job'[p].url = j.url
  BY <1>1, <1>2 DEF Job
<1>4. JobsTyped' /\ \A q \in Jobs : q # p => job'[q] = job[q]
  BY <1>1, <1>2, <1>3 DEF JobsTyped
<1>5. /\ repo' \in [Ids -> Row] /\ repo'[j.id].state \notin {"unused", "live"}
      /\ repo'[j.id].dir = repo[j.id].dir /\ repo'[j.id].url = repo[j.id].url
      /\ \A k \in Ids : k # j.id => repo'[k] = repo[k]
  <2>1. CASE Live(j.id)
    <3>1. repo' = [repo EXCEPT ![j.id].state = "deleted"]
      BY <2>1 DEF DeleteGitRepo
    <3>2. repo'[j.id] = [repo[j.id] EXCEPT !.state = "deleted"] /\ \A k \in Ids : k # j.id => repo'[k] = repo[k]
      BY <1>1, <3>1
    <3>3. /\ repo'[j.id] \in Row /\ repo'[j.id].state = "deleted"
          /\ repo'[j.id].dir = repo[j.id].dir /\ repo'[j.id].url = repo[j.id].url
      BY <1>1, <3>2 DEF Row
    <3>4. QED
      BY <1>1, <3>1, <3>2, <3>3
  <2>2. CASE ~Live(j.id)
    <3>1. repo' = repo
      BY <2>2 DEF DeleteGitRepo
    <3>2. QED
      BY <1>1, <2>2, <3>1 DEF JobOwn, Live
  <2>3. QED
    BY <2>1, <2>2
<1>6. QED
  BY <1>1, <1>3, <1>4, <1>5

LEMMA DeleteGitRepoKeeps == ASSUME Inv, NEW p \in Jobs, DeleteGitRepo(p) PROVE Inv'
<1> DEFINE j == job[p]
           i == job[p].id
<1>1. /\ j \in Job /\ i \in Ids /\ JobOwn(p) /\ p \in Busy /\ j.dir \in Names /\ j.op = "delete" /\ j.pc = "drop"
      /\ job'[p] = [j EXCEPT !.pc = "removeDir"] /\ job'[p].pc = "removeDir"
      /\ job'[p].op = j.op /\ job'[p].id = j.id /\ job'[p].dir = j.dir /\ job'[p].url = j.url
      /\ JobsTyped' /\ \A q \in Jobs : q # p => job'[q] = job[q]
      /\ repo' \in [Ids -> Row] /\ repo'[i].state \notin {"unused", "live"}
      /\ repo'[i].dir = repo[i].dir /\ repo'[i].url = repo[i].url
      /\ \A k \in Ids : k # i => repo'[k] = repo[k]
  BY Dropping
<1>2. /\ UNCHANGED <<dir, hosts, genKey, chosen, keys, made, crashed>>
      /\ mixed' = IF OnDir(j.dir) = {p} THEN mixed ELSE mixed \cup {j.dir}
  BY DEF DeleteGitRepo, disk, Same, settings
<1>3. repo[i].dir = j.dir
  BY <1>1 DEF JobOwn
<1> HIDE DEF j, i
<1>4. TypeOK'
  <2>1. \A k \in Ids : Live(k)' => Live(k) /\ repo'[k] = repo[k]
    BY <1>1 DEF Live
  <2>2. RowsTyped'
    BY <1>1, <2>1 DEF Inv, TypeOK, RowsTyped
  <2>3. QED
    BY <1>1, <1>2, <2>2, TypePartsNext DEF Inv, TypeOK, DiskTyped, RestTyped
<1>5. JobsOwn'
  <2>1. SUFFICES ASSUME NEW q \in Jobs, job'[q].pc # "idle" PROVE JobOwn(q)'
    BY DEF JobsOwn, Busy
  <2>2. CASE q = p
    <3>1. /\ job'[q].id = i /\ job'[q].dir = j.dir /\ job'[q].url = j.url /\ job'[q].op = "delete"
          /\ job'[q].pc = "removeDir" /\ j.dir = repo'[i].dir /\ j.url = repo'[i].url
      BY <1>1, <1>3, <2>2 DEF JobOwn, j, i
    <3>2. QED
      BY <1>1, <3>1 DEF JobOwn, Live
  <2>3. CASE q # p
    <3>1. job'[q] = job[q] /\ JobOwn(q) /\ job[q] \in Job
      BY <1>1, <2>1, <2>3 DEF Inv, JobsOwn, Busy, TypeOK
    <3>2. job[q].id \in Ids
      BY <3>1 DEF Job
    <3>3. QED
      BY <1>1, <3>1, <3>2 DEF JobOwn, Live
  <2>4. QED
    BY <2>2, <2>3
<1>6. NamesKept'
  BY <1>1, <1>2 DEF Inv, NamesKept, Live
<1>7. ASSUME NEW n \in Names \ mixed' PROVE TidyAt(n)'
  <2>1. n \in Names \ mixed /\ TidyAt(n)
    BY <1>2, <1>7 DEF Inv, Tidy
  <2>2. OnDir(n)' = OnDir(n) /\ \A q \in OnDir(n) : q # p => job'[q] = job[q]
    <3>1. \A q \in Jobs : q \in Busy' <=> q \in Busy
      BY <1>1 DEF Busy
    <3>2. \A q \in Jobs : job'[q].dir = job[q].dir
      BY <1>1 DEF j
    <3>3. QED
      BY <1>1, <3>1, <3>2 DEF OnDir, Busy
  <2>3. CASE n # j.dir
    <3>1. LiveOf(n)' = LiveOf(n) /\ \A k \in LiveOf(n) : repo'[k] = repo[k]
      BY <1>1, <1>3, <2>3 DEF LiveOf, Live
    <3>2. p \notin OnDir(n)
      BY <2>3 DEF OnDir, j
    <3>3. QED
      BY <1>2, <2>1, <2>2, <3>1, <3>2, Frame
  <2>4. CASE n = j.dir
    <3>1. OnDir(n) = {p}
      BY <1>2, <1>7, <2>4
    <3>2. CASE LiveOf(n) = {}
      <4>1. LiveOf(n)' = {}
        BY <1>1, <3>2 DEF LiveOf, Live
      <4>2. Left(n)'
        BY <1>1, <2>2, <3>1, <4>1 DEF Left
      <4>3. QED
        BY <4>1, <4>2 DEF TidyAt
    <3>3. CASE LiveOf(n) # {}
      <4>1. PICK k \in LiveOf(n) : TRUE
        BY <3>3
      <4>2. k = i
        BY <2>1, <3>1, <4>1 DEF TidyAt, Tended, LiveOf, i
      <4>3. LiveOf(n) = {i}
        BY <2>1, <4>1, <4>2, OneRow DEF Inv
      <4>4. LiveOf(n)' = {}
        BY <1>1, <4>3 DEF LiveOf, Live
      <4>5. Left(n)'
        BY <1>1, <2>2, <3>1, <4>4 DEF Left
      <4>6. QED
        BY <4>4, <4>5 DEF TidyAt
    <3>4. QED
      BY <3>2, <3>3
  <2>5. QED
    BY <2>3, <2>4
<1>8. QED
  BY <1>4, <1>5, <1>6, <1>7 DEF Inv, Tidy

LEMMA RenameRepoKeeps == ASSUME Inv, NEW i \in Ids, NEW m \in Names, RenameRepo(i, m) PROVE Inv'
<1>1. /\ Live(i) /\ UNCHANGED <<dir, hosts, job, genKey, chosen, keys, crashed>> /\ made' \in 0..MaxRequests
      /\ repo \in [Ids -> Row] /\ repo[i] \in Row
  BY Sets DEF RenameRepo, Asked, disk, settings, Inv, TypeOK
<1>2. \/ UNCHANGED <<repo, mixed>>
      \/ /\ ~NameTaken(m) /\ repo' = [repo EXCEPT ![i].name = m]
         /\ mixed' = mixed \cup {m, repo[i].name, repo[i].dir}
  BY DEF RenameRepo
<1>3. /\ repo' \in [Ids -> Row] /\ (\A k \in Ids : k # i => repo'[k] = repo[k])
      /\ \A k \in Ids : /\ repo'[k].state = repo[k].state /\ repo'[k].url = repo[k].url /\ repo'[k].dir = repo[k].dir
                        /\ repo'[k].status = repo[k].status
  <2>1. repo'[i] = repo[i] \/ repo'[i] = [repo[i] EXCEPT !.name = m]
    BY <1>1, <1>2
  <2>2. /\ repo'[i] \in Row
        /\ repo'[i].state = repo[i].state /\ repo'[i].url = repo[i].url /\ repo'[i].dir = repo[i].dir
        /\ repo'[i].status = repo[i].status
    BY <1>1, <2>1 DEF Row
  <2>3. QED
    BY <1>1, <1>2, <2>2
<1>4. repo'[i].name = repo[i].name \/ (~NameTaken(m) /\ repo'[i].name = m /\ {m, repo[i].dir} \subseteq mixed')
  BY <1>1, <1>2 DEF Row
<1>5. mixed \subseteq mixed' /\ mixed' \subseteq Names
  BY <1>1, <1>2 DEF Inv, TypeOK, Row
<1>6. TypeOK'
  <2>1. \A k \in Ids : Live(k)' <=> Live(k)
    BY <1>3 DEF Live
  <2>2. RowsTyped'
    BY <1>1, <1>3, <1>4, <2>1 DEF Inv, TypeOK, RowsTyped, NameTaken
  <2>3. QED
    BY <1>1, <1>5, <2>2, TypePartsNext DEF Inv, TypeOK, JobsTyped, DiskTyped, RestTyped
<1>7. JobsOwn'
  BY <1>1, <1>3 DEF Inv, TypeOK, Job, JobsOwn, JobOwn, Busy, Live
<1>8. NamesKept'
  BY <1>3, <1>4, <1>5 DEF Inv, NamesKept, Live
<1>9. ASSUME NEW n \in Names \ mixed' PROVE TidyAt(n)'
  <2>1. n \in Names \ mixed /\ TidyAt(n)
    BY <1>5, <1>9 DEF Inv, Tidy
  <2>2. LiveOf(n)' = LiveOf(n) /\ OnDir(n)' = OnDir(n)
    BY <1>1, <1>3 DEF LiveOf, Live, OnDir, Busy
  <2>3. \A k \in LiveOf(n) : repo'[k] = repo[k]
    BY <1>2, <1>3, <1>9 DEF LiveOf
  <2>4. QED
    BY <1>1, <2>1, <2>2, <2>3, Frame
<1>10. QED
  BY <1>6, <1>7, <1>8, <1>9 DEF Inv, Tidy

\* Requests about keys, and steps that change nothing.
LEMMA OthersKeep ==
    ASSUME Inv, UNCHANGED <<repo, dir, hosts, job, mixed, crashed>>, RestTyped' PROVE Inv'
<1>1. TypeOK'
  BY TypePartsNext DEF Inv, TypeOK, RowsTyped, DiskTyped, JobsTyped, Live
<1>2. JobsOwn' /\ NamesKept'
  BY DEF Inv, JobsOwn, JobOwn, NamesKept, Busy, Live
<1>3. Tidy'
  BY DEF Inv, Tidy, TidyAt, Tended, Left, LiveOf, OnDir, Busy, Live
<1>4. QED
  BY <1>1, <1>2, <1>3 DEF Inv

LEMMA CrashKeeps == ASSUME Inv, Crash PROVE Inv'
<1>1. /\ UNCHANGED <<repo, dir, hosts, genKey, chosen, keys>> /\ job' = [p \in Jobs |-> Idle] /\ crashed' = TRUE
      /\ mixed' = mixed \cup {job[p].dir : p \in Busy} /\ made' \in 0..MaxRequests
  BY Sets DEF Crash, Asked, disk, settings, Inv, TypeOK
<1>2. \A q \in Jobs : job'[q] = Idle /\ job'[q].pc = "idle"
  BY <1>1 DEF Idle
<1>3. Busy' = {} /\ \A n \in Names : OnDir(n)' = {}
  BY <1>2 DEF Busy, OnDir
<1>4. \A p \in Busy : job[p].dir \in Names
  BY BusyJob DEF Inv, Busy
<1>5. TypeOK'
  <2>1. 1 \in Ids
    BY Sets DEF Ids
  <2>2. Idle \in Job
    BY <2>1 DEF Idle, Job
  <2>3. JobsTyped'
    BY <1>1, <2>2 DEF JobsTyped
  <2>4. QED
    BY <1>1, <1>4, <2>3, TypePartsNext DEF Inv, TypeOK, RowsTyped, DiskTyped, RestTyped, Live
<1>6. JobsOwn' /\ NamesKept'
  BY <1>1, <1>3 DEF Inv, JobsOwn, NamesKept, Live
<1>7. ASSUME NEW n \in Names \ mixed' PROVE TidyAt(n)'
  <2>1. n \in Names \ mixed /\ TidyAt(n) /\ OnDir(n) = {}
    BY <1>1, <1>7 DEF Inv, Tidy, OnDir
  <2>2. LiveOf(n)' = LiveOf(n)
    BY <1>1 DEF LiveOf, Live
  <2>3. QED
    BY <1>1, <1>3, <2>1, <2>2, Frame
<1>8. QED
  BY <1>5, <1>6, <1>7 DEF Inv, Tidy

-----------------------------------------------------------------------------
(* The invariant and what follows from it.                                 *)

LEMMA InitInv == Init => Inv
<1> SUFFICES ASSUME Init PROVE Inv
  OBVIOUS
<1>1. ASSUME NEW i \in Ids PROVE repo[i] \in Row /\ ~Live(i)
  <2>1. PICK u : u = (CHOOSE v \in Urls : TRUE)
    OBVIOUS
  <2>2. u \in Urls
    BY <2>1, UrlsAssumption
  <2>3. repo[i] = [state |-> "unused", name |-> NameOf[u], url |-> u, dir |-> NameOf[u], status |-> "pending"]
    BY <2>1 DEF Init, Unused
  <2>4. NameOf[u] \in Names
    BY <2>2, Sets
  <2>5. QED
    BY <2>2, <2>3, <2>4 DEF Row, Live, Statuses
<1>2. \A p \in Jobs : job[p].pc = "idle"
  BY DEF Init, Idle
<1>3. TypeOK
  <2>1. 1 \in Ids
    BY Sets DEF Ids
  <2>2. Idle \in Job
    BY <2>1 DEF Idle, Job
  <2>3. DiskTyped
    BY DEF Init, DiskTyped, Clone, NoClone
  <2>4. RestTyped
    <3>1. made \in 0..MaxRequests
      BY Sets DEF Init
    <3>2. genKey \in BOOLEAN /\ crashed \in BOOLEAN /\ chosen \in Managed \cup {None} /\ keys \subseteq Managed /\ mixed \subseteq Names
      BY DEF Init
    <3>3. QED
      BY <3>1, <3>2 DEF RestTyped
  <2>5. RowsTyped
    BY <1>1 DEF Init, RowsTyped
  <2>6. QED
    BY <2>2, <2>3, <2>4, <2>5, TypeParts DEF Init, JobsTyped
<1>4. Tidy
  <2>1. \A n \in Names : LiveOf(n) = {} /\ OnDir(n) = {} /\ dir[n] = NoClone /\ hosts[n] = None
    BY <1>1, <1>2 DEF LiveOf, OnDir, Busy, Init
  <2>2. QED
    BY <2>1 DEF Tidy, TidyAt, Left
<1>5. QED
  BY <1>1, <1>2, <1>3, <1>4 DEF Inv, JobsOwn, NamesKept, Busy

LEMMA NextInv == Inv /\ [Next]_vars => Inv'
<1> SUFFICES ASSUME Inv, [Next]_vars PROVE Inv'
  OBVIOUS
<1>1. ASSUME NEW p \in Jobs, JobStep(p) PROVE Inv'
  BY <1>1, StepTyped, StepTidy DEF Inv
<1>2. CASE \/ GenerateServerKey
           \/ \E m \in Managed : SetServerManagedKey(m) \/ DeleteManagedKey(m)
  <2>1. UNCHANGED <<repo, dir, hosts, job, mixed, crashed>>
    BY <1>2 DEF GenerateServerKey, SetServerManagedKey, DeleteManagedKey, disk
  <2>2. made' \in 0..MaxRequests
    BY <1>2, Sets DEF GenerateServerKey, SetServerManagedKey, DeleteManagedKey, Asked, Inv, TypeOK
  <2>3. genKey' \in BOOLEAN /\ chosen' \in Managed \cup {None} /\ keys' \subseteq Managed
    BY <1>2 DEF GenerateServerKey, SetServerManagedKey, DeleteManagedKey, Inv, TypeOK
  <2>4. RestTyped'
    BY <2>1, <2>2, <2>3 DEF RestTyped, Inv, TypeOK
  <2>5. QED
    BY <2>1, <2>4, OthersKeep
<1>3. CASE UNCHANGED vars
  BY <1>3, OthersKeep DEF vars, RestTyped, Inv, TypeOK
<1>4. QED
  BY <1>1, <1>2, <1>3, AddRepoKeeps, SyncRepoKeeps, DeleteRepoKeeps, DeleteGitRepoKeeps, RenameRepoKeeps, CrashKeeps
     DEF Next, Quiet

LEMMA SpecInv == Spec => []Inv
BY InitInv, NextInv, PTL DEF Spec

\* The state is well typed, however many requests overlap: names and URLs stay
\* unique, and a directory is called after the URL of its row.
THEOREM TypeCorrect == Spec => []TypeOK
<1>1. Inv => TypeOK
  BY DEF Inv
<1>2. QED
  BY <1>1, SpecInv, PTL

\* attachReposDirAndBuildCmds gives an instance a whole clone of the URL that
\* it sets as origin, unless the name was renamed or its directory shared.
THEOREM ReadyClones == Spec => []ReadyIsCloned
<1>1. Inv => ReadyIsCloned
  <2>1. SUFFICES ASSUME Inv, NEW n \in Names \ mixed, NEW c \in Copies(n), c.origin # None
                 PROVE  dir[c.from] = Whole(c.origin)
    BY DEF ReadyIsCloned
  <2>2. PICK i \in Ids : /\ Live(i) /\ repo[i].name = n /\ repo[i].status = "ready"
                         /\ c = [from |-> n, origin |-> repo[i].url]
    BY <2>1 DEF Copies
  <2>3. repo[i].dir = n
    BY <2>1, <2>2 DEF Inv, NamesKept
  <2>4. Tended(i)
    BY <2>1, <2>2, <2>3 DEF Inv, Tidy, TidyAt, LiveOf
  <2>5. c.from = n /\ c.origin = repo[i].url
    BY <2>2
  <2>6. QED
    BY <2>2, <2>3, <2>4, <2>5 DEF Tended
<1>2. QED
  BY <1>1, SpecInv, PTL

\* DeleteRepo leaves no directory and no host keys that the next repository of
\* the name would stumble over, with the same exceptions and those of a removal
\* that fails.
THEOREM DeletionIsClean == Spec => []NothingLeftBehind
<1>1. Inv => NothingLeftBehind
  <2>1. SUFFICES ASSUME Inv, NEW n \in Names \ mixed, OnDir(n) = {},
                        ~\E i \in Ids : Live(i) /\ repo[i].dir = n /\ hosts[n] \in {None, HostOf[repo[i].url]}
                 PROVE  dir[n] = NoClone /\ hosts[n] = None
    BY DEF NothingLeftBehind
  <2>2. TidyAt(n)
    BY <2>1 DEF Inv, Tidy
  <2>3. LiveOf(n) = {}
    BY <2>1, <2>2 DEF TidyAt, Tended, LiveOf
  <2>4. QED
    BY <2>1, <2>2, <2>3 DEF TidyAt, Left
<1>2. QED
  BY <1>1, SpecInv, PTL

-----------------------------------------------------------------------------
(* The safety half of CloneEnds: a clone that is awaited is underway, and  *)
(* a job only ever comes closer to its end.                                *)

Cloning(p, i) == job[p].pc # "idle" /\ job[p].op = "clone" /\ job[p].id = i
Awaited(i) == Live(i) /\ repo[i].status \in {"pending", "cloning"}
ClonesAreUnderway == \A i \in Ids : Awaited(i) => crashed \/ \E p \in Jobs : Cloning(p, i)

\* The steps that a job has left, from any place.
StepsLeft(l) ==
    CASE l = "get" -> 5 [] l = "key" -> 4 [] l = "hosts" -> 3 [] l = "start" -> 2
      [] l = "end" -> 1 [] l = "drop" -> 3 [] l = "removeDir" -> 2 [] l = "removeHosts" -> 1 [] OTHER -> 0
\* A job that runs is left alone, ends, or moves on with what it is about.
Moves(p) ==
    /\ StepsLeft(job'[p].pc) < StepsLeft(job[p].pc)
    /\ job'[p] = [job[p] EXCEPT !.pc = job'[p].pc]
JobsMove == \A p \in Busy : job'[p] = job[p] \/ job'[p] = Idle \/ Moves(p)

LEMMA EndsOrMoves ==
    ASSUME TypeOK, JobsOwn, NEW p \in Jobs, JobStep(p)
    PROVE  /\ p \in Busy /\ \A q \in Jobs : q # p => job'[q] = job[q]
           /\ \/ job'[p] = Idle
              \/ Moves(p) /\ job'[p].pc # "idle" /\ job'[p].op = job[p].op /\ job'[p].id = job[p].id
<1>1. p \in Busy /\ job[p] \in Job /\ JobOwn(p) /\ job \in [Jobs -> Job]
  BY StepBusy, BusyJob DEF TypeOK
<1>2. Effects(p)
  BY StepEffects
<1>3. \A q \in Jobs : q # p => job'[q] = job[q]
  BY <1>1, <1>2 DEF Effects, Done, Goto
<1>4. Done(p) => job'[p] = Idle
  BY <1>1 DEF Done
<1>5. /\ StepsLeft("get") = 5 /\ StepsLeft("key") = 4 /\ StepsLeft("hosts") = 3 /\ StepsLeft("start") = 2
      /\ StepsLeft("end") = 1 /\ StepsLeft("removeDir") = 2 /\ StepsLeft("removeHosts") = 1
  BY DEF StepsLeft
<1>6. ASSUME NEW l \in Labels, Goto(p, l), StepsLeft(l) < StepsLeft(job[p].pc)
      PROVE  Moves(p) /\ job'[p].pc # "idle" /\ job'[p].op = job[p].op /\ job'[p].id = job[p].id
  <2>1. job'[p] = [job[p] EXCEPT !.pc = l]
    BY <1>1, <1>6 DEF Goto
  <2>2. job'[p].pc = l /\ job'[p].op = job[p].op /\ job'[p].id = job[p].id /\ l # "idle"
    BY <1>1, <2>1 DEF Job, Labels
  <2>3. QED
    BY <1>6, <2>1, <2>2 DEF Moves
<1>7. Done(p) \/ \E l \in Labels : Goto(p, l) /\ StepsLeft(l) < StepsLeft(job[p].pc)
  <2>1. CASE BeginClone(p)
    BY <1>5, <2>1 DEF BeginClone, Doing, Labels
  <2>2. CASE LoadKey(p)
    BY <1>5, <2>2 DEF LoadKey, Git, Report, Labels
  <2>3. CASE EnsureKnownHosts(p)
    BY <1>5, <2>3 DEF EnsureKnownHosts, Git, Report, Labels
  <2>4. CASE StartClone(p)
    BY <1>5, <2>4 DEF StartClone, Doing, Report, Labels
  <2>5. CASE EndClone(p) \/ Pull(p) \/ RemoveHosts(p)
    BY <2>5 DEF EndClone, Pull, RemoveHosts, Report
  <2>6. CASE RemoveDir(p)
    BY <1>5, <2>6 DEF RemoveDir, Doing, Labels
  <2>7. QED
    BY <2>1, <2>2, <2>3, <2>4, <2>5, <2>6 DEF JobStep
<1>8. QED
  BY <1>1, <1>3, <1>4, <1>6, <1>7

\* A clone that ends has reported, unless its row is gone.
LEMMA CloneReports ==
    ASSUME Inv, NEW p \in Jobs, JobStep(p), job'[p] = Idle, job[p].op = "clone", NEW i \in Ids, i = job[p].id
    PROVE  ~Awaited(i)'
<1>1. p \in Busy /\ job[p] \in Job /\ job \in [Jobs -> Job] /\ repo \in [Ids -> Row] /\ JobOwn(p)
  BY StepBusy, BusyJob DEF TypeOK, Inv
<1>2. ASSUME NEW l \in Labels, Goto(p, l) PROVE FALSE
  <2>1. job'[p].pc = l /\ l # "idle"
    BY <1>1, <1>2 DEF Goto, Job, Labels
  <2>2. QED
    BY <2>1 DEF Idle
<1>3. ASSUME NEW st \in {"ready", "error"}, Report(p, st) PROVE ~Awaited(i)'
  <2>1. CASE Live(i)
    <3>1. repo' = [repo EXCEPT ![i].status = st]
      BY <1>3, <2>1 DEF Report, UpdateGitRepoStatus
    <3>2. repo'[i].status = st
      BY <1>1, <3>1 DEF Row
    <3>3. QED
      BY <3>2 DEF Awaited
  <2>2. CASE ~Live(i)
    BY <1>3, <2>2 DEF Report, UpdateGitRepoStatus, Awaited, Live
  <2>3. QED
    BY <2>1, <2>2
<1>4. CASE BeginClone(p)
  <2>1. ~Live(i) /\ repo' = repo
    BY <1>2, <1>4 DEF BeginClone, Labels
  <2>2. QED
    BY <2>1 DEF Awaited, Live
<1>5. CASE LoadKey(p) \/ EnsureKnownHosts(p) \/ StartClone(p) \/ EndClone(p)
  BY <1>2, <1>3, <1>5 DEF LoadKey, EnsureKnownHosts, StartClone, EndClone, Labels
<1>6. CASE Pull(p) \/ RemoveDir(p) \/ RemoveHosts(p)
  BY <1>1, <1>6 DEF Pull, RemoveDir, RemoveHosts, Doing
<1>7. QED
  BY <1>4, <1>5, <1>6 DEF JobStep

\* Only a job writes the status of a row, and none but a clone the status of one
\* that is awaited.
LEMMA StepAwaits ==
    ASSUME Inv, NEW p \in Jobs, JobStep(p), NEW i \in Ids, Awaited(i)'
    PROVE  Awaited(i) \/ (job[p].op = "clone" /\ job[p].id = i)
<1>1. p \in Busy /\ job[p] \in Job /\ repo \in [Ids -> Row] /\ job[p].id \in Ids
  BY StepBusy, BusyJob DEF TypeOK, Inv
<1>2. CASE repo' = repo
  BY <1>2 DEF Awaited, Live
<1>3. ASSUME NEW st \in {"ready", "error"}, Report(p, st), repo' # repo PROVE Awaited(i)
  <2>1. repo' = [repo EXCEPT ![job[p].id].status = st]
    BY <1>3 DEF Report, UpdateGitRepoStatus
  <2>2. repo'[job[p].id].status = st
    BY <1>1, <2>1 DEF Row
  <2>3. i # job[p].id
    BY <2>2 DEF Awaited
  <2>4. repo'[i] = repo[i]
    BY <1>1, <2>1, <2>3
  <2>5. QED
    BY <2>4 DEF Awaited, Live
<1>4. CASE BeginClone(p)
  <2>1. repo' = repo \/ (job[p].op = "clone" /\ repo' = [repo EXCEPT ![job[p].id].status = "cloning"])
    BY <1>4 DEF BeginClone, Doing, UpdateGitRepoStatus
  <2>2. CASE i # job[p].id /\ repo' = [repo EXCEPT ![job[p].id].status = "cloning"]
    <3>1. repo'[i] = repo[i]
      BY <1>1, <2>2
    <3>2. QED
      BY <3>1 DEF Awaited, Live
  <2>3. QED
    BY <1>2, <2>1, <2>2
<1>5. CASE LoadKey(p) \/ EnsureKnownHosts(p) \/ StartClone(p) \/ EndClone(p) \/ Pull(p)
  BY <1>2, <1>3, <1>5 DEF LoadKey, EnsureKnownHosts, StartClone, EndClone, Pull
<1>6. CASE RemoveDir(p) \/ RemoveHosts(p)
  BY <1>2, <1>6 DEF RemoveDir, RemoveHosts
<1>7. QED
  BY <1>4, <1>5, <1>6 DEF JobStep

\* A request that takes a free place leaves the jobs that run alone.
LEMMA NewJobMoves ==
    ASSUME TypeOK, NEW p \in Jobs, Free(p), NEW j, job' = [job EXCEPT ![p] = j]
    PROVE  \A q \in Jobs : q \in Busy => job'[q] = job[q]
BY DEF Free, TypeOK

LEMMA RequestMoves ==
    ASSUME TypeOK, NEW p \in Jobs,
           \/ \E u \in Urls : AddRepo(p, u)
           \/ \E i \in Ids : SyncRepo(p, i) \/ DeleteRepo(p, i)
    PROVE  \A q \in Jobs : q \in Busy => job'[q] = job[q]
<1>1. Free(p) /\ (job' = job \/ \E j : job' = [job EXCEPT ![p] = j])
  BY DEF AddRepo, SyncRepo, DeleteRepo
<1>2. QED
  BY <1>1, NewJobMoves

LEMMA OtherMoves ==
    ASSUME \/ \E i \in Ids, n \in Names : RenameRepo(i, n)
           \/ GenerateServerKey
           \/ \E m \in Managed : SetServerManagedKey(m) \/ DeleteManagedKey(m)
           \/ UNCHANGED vars
    PROVE  job' = job
BY DEF RenameRepo, GenerateServerKey, SetServerManagedKey, DeleteManagedKey, vars

LEMMA NextMoves == Inv /\ [Next]_vars => JobsMove
<1> SUFFICES ASSUME Inv, [Next]_vars, NEW p \in Busy PROVE job'[p] = job[p] \/ job'[p] = Idle \/ Moves(p)
  BY DEF JobsMove
<1>1. p \in Jobs
  BY DEF Busy
<1>2. ASSUME NEW q \in Jobs, JobStep(q) PROVE job'[p] = job[p] \/ job'[p] = Idle \/ Moves(p)
  BY <1>1, <1>2, EndsOrMoves DEF Inv
<1>3. CASE Crash
  BY <1>1, <1>3 DEF Crash
<1>5. ASSUME NEW q \in Jobs, DeleteGitRepo(q) PROVE job'[p] = job[p] \/ Moves(p)
  <2>1. StepsLeft("removeDir") = 2 /\ StepsLeft("drop") = 3
    BY DEF StepsLeft
  <2>2. /\ job[q].pc = "drop" /\ job'[q] = [job[q] EXCEPT !.pc = "removeDir"] /\ job'[q].pc = "removeDir"
        /\ \A r \in Jobs : r # q => job'[r] = job[r]
    BY <1>5, Dropping
  <2>3. Moves(q)
    BY <2>1, <2>2 DEF Moves
  <2>4. QED
    BY <1>1, <2>2, <2>3
<1>4. QED
  BY <1>1, <1>2, <1>3, <1>5, RequestMoves, OtherMoves DEF Next, Quiet, Inv

\* What keeps a clone awaited and the job that is to end it together.
LEMMA UnderwayKept ==
    ASSUME ClonesAreUnderway, UNCHANGED crashed,
           \A i \in Ids : Awaited(i)' => Awaited(i),
           \A q \in Busy : job[q].op = "clone" => job'[q] = job[q]
    PROVE  ClonesAreUnderway'
<1> SUFFICES ASSUME NEW i \in Ids, Awaited(i)', ~crashed PROVE \E p \in Jobs : Cloning(p, i)'
  BY DEF ClonesAreUnderway
<1>1. PICK p \in Jobs : Cloning(p, i)
  BY DEF ClonesAreUnderway
<1>2. p \in Busy
  BY <1>1 DEF Cloning, Busy
<1>3. QED
  BY <1>1, <1>2 DEF Cloning

LEMMA StepUnderway == ASSUME Inv, ClonesAreUnderway, NEW p \in Jobs, JobStep(p) PROVE ClonesAreUnderway'
<1> SUFFICES ASSUME NEW i \in Ids, Awaited(i)', ~crashed' PROVE \E q \in Jobs : Cloning(q, i)'
  BY DEF ClonesAreUnderway
<1>1. TypeOK /\ JobsOwn
  BY DEF Inv
<1>2. p \in Busy /\ ~crashed
  BY <1>1, StepEffects, EndsOrMoves DEF Effects, Same
<1>3. PICK q \in Jobs : Cloning(q, i)
  <2>1. Awaited(i) \/ Cloning(p, i)
    BY <1>2, StepAwaits DEF Cloning, Busy
  <2>2. QED
    BY <1>2, <2>1 DEF ClonesAreUnderway
<1>4. CASE q # p
  BY <1>1, <1>3, <1>4, EndsOrMoves DEF Cloning
<1>5. CASE q = p
  <2>1. job'[p] # Idle
    BY <1>3, <1>5, CloneReports DEF Cloning
  <2>2. job'[p].pc # "idle" /\ job'[p].op = job[p].op /\ job'[p].id = job[p].id
    BY <1>1, <2>1, EndsOrMoves
  <2>3. QED
    BY <1>3, <1>5, <2>2 DEF Cloning
<1>6. QED
  BY <1>4, <1>5

LEMMA AddUnderway ==
    ASSUME Inv, ClonesAreUnderway, NEW p \in Jobs, NEW u \in Urls, AddRepo(p, u)
    PROVE  ClonesAreUnderway'
<1>1. repo \in [Ids -> Row] /\ job \in [Jobs -> Job] /\ UNCHANGED crashed
  BY DEF Inv, TypeOK, AddRepo
<1>2. \A q \in Busy : job'[q] = job[q]
  BY RequestMoves DEF Inv, Busy
<1>3. CASE repo' = repo
  BY <1>1, <1>2, <1>3, UnderwayKept DEF Awaited, Live
<1>4. CASE repo' # repo
  <2>1. PICK k \in Ids, d \in {NameOf[u]} :
              /\ repo' = [repo EXCEPT ![k] = [state |-> "live", name |-> d, url |-> u, dir |-> d,
                                              status |-> "pending"]]
              /\ job' = [job EXCEPT ![p] = [pc |-> "get", op |-> "clone", id |-> k, url |-> u, dir |-> d]]
    BY <1>4 DEF AddRepo
  <2>2. Cloning(p, k)'
    BY <1>1, <2>1 DEF Cloning
  <2>3. \A i \in Ids : i # k => repo'[i] = repo[i]
    BY <1>1, <2>1
  <2>4. SUFFICES ASSUME NEW i \in Ids, i # k, Awaited(i)', ~crashed PROVE \E q \in Jobs : Cloning(q, i)'
    BY <1>1, <2>2 DEF ClonesAreUnderway
  <2>5. PICK q \in Jobs : Cloning(q, i)
    BY <2>3, <2>4 DEF ClonesAreUnderway, Awaited, Live
  <2>6. QED
    BY <1>2, <2>5 DEF Cloning, Busy
<1>5. QED
  BY <1>3, <1>4

LEMMA OtherUnderway ==
    ASSUME Inv, ClonesAreUnderway,
           \/ \E p \in Jobs, i \in Ids : SyncRepo(p, i) \/ DeleteRepo(p, i)
           \/ \E p \in Jobs : DeleteGitRepo(p)
           \/ \E i \in Ids, n \in Names : RenameRepo(i, n)
           \/ GenerateServerKey
           \/ \E m \in Managed : SetServerManagedKey(m) \/ DeleteManagedKey(m)
           \/ UNCHANGED vars
    PROVE  ClonesAreUnderway'
<1>1. \A q \in Busy : job[q].op = "clone" => job'[q] = job[q]
  <2>1. ASSUME NEW p \in Jobs, DeleteGitRepo(p), NEW q \in Busy, job[q].op = "clone" PROVE job'[q] = job[q]
    BY <2>1, Dropping DEF Busy
  <2>2. QED
    BY <2>1, RequestMoves, OtherMoves DEF Inv, Busy
<1>2. /\ repo \in [Ids -> Row] /\ UNCHANGED crashed
      /\ \/ repo' = repo
         \/ \E i \in Ids : repo' = [repo EXCEPT ![i].state = "deleted"]
         \/ \E i \in Ids, n \in Names : repo' = [repo EXCEPT ![i].name = n]
  <2>1. ASSUME NEW p \in Jobs, DeleteGitRepo(p)
        PROVE  UNCHANGED crashed /\ (repo' = repo \/ \E i \in Ids : repo' = [repo EXCEPT ![i].state = "deleted"])
    BY <2>1, Dropping DEF DeleteGitRepo, Same
  <2>2. QED
    BY <2>1 DEF Inv, TypeOK, SyncRepo, DeleteRepo, RenameRepo, GenerateServerKey, SetServerManagedKey,
                DeleteManagedKey, vars
<1>3. ASSUME NEW i \in Ids, Awaited(i)' PROVE Awaited(i)
  <2>1. CASE repo' = repo
    BY <1>3, <2>1 DEF Awaited, Live
  <2>2. ASSUME NEW k \in Ids, repo' = [repo EXCEPT ![k].state = "deleted"] PROVE Awaited(i)
    <3>1. i # k
      BY <1>2, <1>3, <2>2 DEF Awaited, Live, Row
    <3>2. QED
      BY <1>2, <1>3, <2>2, <3>1 DEF Awaited, Live
  <2>3. ASSUME NEW k \in Ids, NEW n \in Names, repo' = [repo EXCEPT ![k].name = n] PROVE Awaited(i)
    <3>1. repo'[i].state = repo[i].state /\ repo'[i].status = repo[i].status
      BY <1>2, <2>3 DEF Row
    <3>2. QED
      BY <1>3, <3>1 DEF Awaited, Live
  <2>4. QED
    BY <1>2, <2>1, <2>2, <2>3
<1>4. QED
  BY <1>1, <1>2, <1>3, UnderwayKept

LEMMA NextUnderway == Inv /\ ClonesAreUnderway /\ [Next]_vars => ClonesAreUnderway'
<1> SUFFICES ASSUME Inv, ClonesAreUnderway, [Next]_vars PROVE ClonesAreUnderway'
  OBVIOUS
<1>1. CASE Crash
  BY <1>1 DEF Crash, ClonesAreUnderway
<1>2. QED
  BY <1>1, StepUnderway, AddUnderway, OtherUnderway DEF Next, Quiet

\* AddRepo starts cloneRepo with the row that it inserts, and cloneRepo writes
\* ready or error on every way out: while a row is pending or cloning its
\* goroutine runs, unless a restart has cut one short.
THEOREM ClonesUnderway == Spec => []ClonesAreUnderway
<1>1. Init => ClonesAreUnderway
  BY InitInv DEF Init, Unused, ClonesAreUnderway, Awaited, Live
<1>2. QED
  BY <1>1, SpecInv, NextUnderway, PTL DEF Spec

\* No request stops, restarts or redirects a job that runs: its steps only take
\* it to its end, of which it is at most five away.
THEOREM JobsAdvance == Spec => [][JobsMove]_vars
<1>1. Inv /\ [Next]_vars => [JobsMove]_vars
  BY NextMoves
<1>2. QED
  BY <1>1, SpecInv, PTL DEF Spec
=============================================================================
