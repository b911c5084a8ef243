----------------------------- MODULE TemplateSync -----------------------------
(***************************************************************************)
(* The templates of Plati: YAML files in a directory, rows of the table    *)
(* templates, and the mixins held in memory.  SyncFromDir makes the rows   *)
(* follow the files, at the start and 500 ms after the last of a burst of  *)
(* changes; a sync that is still running then is not waited for.  The      *)
(* administrators edit rows and files through the API, and instances hold  *)
(* on to the template they were made from.  The directory and mixins/ in   *)
(* it may come and go; the watcher knows those that were there when it     *)
(* began.                                                                  *)
(*                                                                         *)
(* A template's text is known by its edition and by the number of times it *)
(* has been exported: an export writes the commands of the included mixins *)
(* into first_init_commands and keeps the includes, so that each one adds  *)
(* them once more, and it drops incus_config.                              *)
(***************************************************************************)
EXTENDS Naturals, FiniteSets

CONSTANTS
    Slugs,
    Blank,      \* the slug of an empty file
    Files,      \* file names, in the order Glob lists them: 1..n
    FileOf,     \* the file that is called after a slug
    Editions,   \* editions of a template's text, and of the mixins
    MaxId,      \* ids of templates, AUTOINCREMENT
    MaxSaved,   \* exports that are told apart
    Starts,     \* the directories that there may be at first
    Present,    \* slugs whose files are there at first
    Insts,      \* instances
    Syncs,      \* goroutines that may run SyncFromDir at once, numbered
    MaxEvents,  \* a bound on the changes, API calls and restarts
    MaxEdits    \* the edits of rows by the API are among the first so many

ASSUME FilesAssumption ==
    /\ Files \subseteq Nat /\ Syncs \subseteq Nat /\ FileOf \in [Slugs -> Files]
    /\ Blank \notin Slugs /\ Present \subseteq Slugs
    /\ Starts \subseteq {{}, {"templates"}, {"templates", "mixins"}}
ASSUME BoundsAssumption ==
    /\ Editions \subseteq Nat /\ {0, 1} \subseteq Editions
    /\ MaxId \in Nat \ {0} /\ MaxSaved \in Nat \ {0} /\ MaxEvents \in Nat /\ MaxEdits \in Nat

VARIABLES
    file,     \* the YAML files
    mixfile,  \* the edition of the files in mixins/, 0 if there are none
    there,    \* the directories that exist
    watched,  \* those that the watcher has been added to
    mixins,   \* TemplateService.mixins
    row,      \* table templates
    inst,     \* instances and the creations under way
    sync,     \* the calls of SyncFromDir
    call,     \* a call of SaveToDisk or ReloadFromDisk
    phase,    \* of the server
    armed,    \* the debounce timer
    events,   \* the number of events so far
    dirty,    \* history: the watcher saw a change that no sync has started after
    disturbed \* history: something the running or last sync could not follow

disk    == <<file, mixfile, there, watched>>
history == <<events, dirty, disturbed>>
vars == <<file, mixfile, there, watched, mixins, row, inst, sync, call, phase, armed, events,
          dirty, disturbed>>

Dirs == {"templates", "mixins"}
Ids == 1..MaxId
AnySlug == Slugs \cup {Blank}
Saved == 0..MaxSaved

\* A file: absent, not parseable, or a template.
Content == [kind : {"absent", "broken", "yaml"}, slug : AnySlug,
            edition : Editions, saved : Saved]
Absent == [kind |-> "absent", slug |-> Blank, edition |-> 0, saved |-> 0]
Broken == [Absent EXCEPT !.kind = "broken"]
\* What os.WriteFile leaves between truncating and writing: YAML, with no slug.
Empty == [Absent EXCEPT !.kind = "yaml"]
Text(s, e) == [Empty EXCEPT !.slug = s, !.edition = e]
Texts == {Text(s, e) : s \in Slugs, e \in Editions \ {0}}

\* What templateFromYAML makes of a text, and a row.
Parsed == [slug : AnySlug, edition : Editions, saved : Saved, mix : Editions,
           active : BOOLEAN]
Row == [state : {"unused", "live", "deleted"}, t : Parsed]
NoTemplate == [slug |-> Blank, edition |-> 0, saved |-> 0, mix |-> 0, active |-> FALSE]
Gone == [state |-> "deleted", t |-> NoTemplate]

Listed == [id : Ids, active : BOOLEAN]
NoListed == [id |-> 1, active |-> FALSE]
Sync == [pc    : {"idle", "stat", "load", "file", "write", "clean", "deactivate", "delete"},
         files : SUBSET Files,   \* still to be read
         t     : Parsed,
         id    : Ids \cup {0},   \* existing.ID, or 0
         seen  : SUBSET AnySlug, \* yamlSlugs
         todo  : SUBSET Listed,  \* allTemplates without a file
         cur   : Listed]
IdleSync == [pc |-> "idle", files |-> {}, t |-> NoTemplate, id |-> 0,
             seen |-> {}, todo |-> {}, cur |-> NoListed]
Call == [pc : {"idle", "export", "save", "read", "update"}, id : Ids, slug : AnySlug,
         t : Parsed, text : Content]
IdleCall == [pc |-> "idle", id |-> 1, slug |-> Blank, t |-> NoTemplate, text |-> Absent]
Inst == [pc : {"none", "creating", "row"}, id : Ids]
NoInst == [pc |-> "none", id |-> 1]
Phases == {"down", "starting", "started", "watching"}

Live(i) == row[i].state = "live"
Used(i) == \E x \in Insts : inst[x].pc = "row" /\ inst[x].id = i

\* The state is well typed, slugs are unique, and an instance's template is
\* there: no sync and no API call deletes a template that is in use.
TypeOK ==
    /\ file \in [Files -> Content] /\ mixfile \in Editions /\ mixins \in Editions
    /\ watched \subseteq there /\ there \subseteq Dirs
    /\ row \in [Ids -> Row]
    /\ \A i, j \in Ids : Live(i) /\ Live(j) /\ row[i].t.slug = row[j].t.slug => i = j
    /\ inst \in [Insts -> Inst]
    /\ \A i \in Ids : Used(i) => Live(i)
    /\ sync \in [Syncs -> Sync] /\ call \in Call
    /\ phase \in Phases /\ armed \in BOOLEAN
    /\ events \in 0..MaxEvents /\ dirty \in BOOLEAN /\ disturbed \in BOOLEAN

Init ==
    /\ there \in Starts /\ watched = {}
    /\ file \in [Files -> {Absent} \cup {Text(s, 1) : s \in Slugs}]
    /\ \A s \in Slugs : file[FileOf[s]] = IF s \in Present /\ there # {} THEN Text(s, 1) ELSE Absent
    /\ there = {} => \A f \in Files : file[f] = Absent
    /\ mixfile = 0 /\ mixins = 0
    /\ row = [i \in Ids |-> [state |-> "unused", t |-> NoTemplate]]
    /\ inst = [x \in Insts |-> NoInst]
    /\ sync = [p \in Syncs |-> IdleSync]
    /\ call = IdleCall
    /\ phase = "down" /\ armed = FALSE
    /\ events = 0 /\ dirty = FALSE /\ disturbed = FALSE

-----------------------------------------------------------------------------
(* The table.                                                              *)

Fresh(i) == row[i].state = "unused" /\ \A j \in Ids : j < i => row[j].state # "unused"
BySlug(s) == {i \in Ids : Live(i) /\ row[i].t.slug = s}
Taken(s, i) == BySlug(s) \ {i} # {}

\* UNIQUE(slug).
CreateTemplate(t) ==
    IF BySlug(t.slug) # {} THEN UNCHANGED row
    ELSE \E i \in Ids : Fresh(i) /\ row' = [row EXCEPT ![i] = [state |-> "live", t |-> t]]

\* Mutant: the statement does not set is_active.
UpdateTemplateText(i, t) ==
    row' = IF Live(i) /\ ~Taken(t.slug, i)
             THEN [row EXCEPT ![i].t = [t EXCEPT !.active = row[i].t.active]] ELSE row
UpdateTemplate(i, t) ==
    row' = IF Live(i) /\ ~Taken(t.slug, i) THEN [row EXCEPT ![i].t = t] ELSE row

DeactivateTemplate(i) ==
    row' = IF Live(i) THEN [row EXCEPT ![i].t.active = FALSE] ELSE row

\* Mutant: foreign keys are not enforced.
DeleteTemplateUsed(i) ==
    row' = IF Live(i) THEN [row EXCEPT ![i] = Gone] ELSE row
\* The foreign key of instances.template_id refuses the template of an instance.
DeleteTemplate(i) ==
    row' = IF Live(i) /\ ~Used(i) THEN [row EXCEPT ![i] = Gone] ELSE row

\* templateFromYAML, with the mixins in memory now.
Parse(c) == [slug |-> c.slug, edition |-> c.edition, saved |-> c.saved, mix |-> mixins,
             active |-> TRUE]
Export(t) == [kind |-> "yaml", slug |-> t.slug, edition |-> t.edition,
              saved |-> IF t.saved < MaxSaved THEN t.saved + 1 ELSE MaxSaved]

-----------------------------------------------------------------------------
(* Events.                                                                 *)

Running == {p \in Syncs : sync[p].pc # "idle"}
\* The first that is free: which one it is does not matter.
Free(p) == p \notin Running /\ \A q \in Syncs : q < p => q \in Running
Event == events < MaxEvents /\ events' = events + 1
Edit == Event /\ events < MaxEdits /\ disturbed' = TRUE /\ UNCHANGED dirty   \* by the API, not a file

\* Mutant: a change during a reload does not start the timer.
ArmWhenIdle(d) == armed' = (armed \/ (d \in watched /\ Running = {}))
\* The watcher sees a change in a directory that it watches: it stops the timer
\* and starts another.
Arm(d) == armed' = (armed \/ d \in watched)
Change(d) ==
    /\ Arm(d)
    /\ dirty' = (dirty \/ d \in watched)
    /\ disturbed' = (disturbed \/ d \notin watched)
Unseen == disturbed' = TRUE /\ UNCHANGED <<armed, dirty>>

EditFile(f, c) ==
    /\ Event /\ "templates" \in there /\ Change("templates")
    /\ c # file[f] /\ file' = [file EXCEPT ![f] = c]
    /\ UNCHANGED <<mixfile, there, watched, mixins, row, inst, sync, call, phase>>

EditMixins(e) ==
    /\ Event /\ "mixins" \in there /\ Change("mixins")
    /\ e # mixfile /\ mixfile' = e
    /\ UNCHANGED <<file, there, watched, mixins, row, inst, sync, call, phase>>

\* A directory that is made is not watched, and its name has no .yaml.
MakeDir(d) ==
    /\ Event /\ d \notin there /\ (d = "mixins" => "templates" \in there)
    /\ there' = there \cup {d}
    /\ IF d = "templates" THEN Unseen ELSE UNCHANGED <<armed, dirty, disturbed>>
    /\ UNCHANGED <<file, mixfile, watched, mixins, row, inst, sync, call, phase>>

Filled(d) == IF d = "templates" THEN \E f \in Files : file[f].kind # "absent" ELSE mixfile # 0
\* It is removed file by file, or moved away, which no event with .yaml tells.
\* The watch goes with it.
RemoveDir(d) ==
    /\ Event /\ d \in there
    /\ LET gone == IF d = "templates" THEN there ELSE {d} IN
         /\ there' = there \ gone /\ watched' = watched \ gone
         /\ Unseen \/ \E x \in gone : Filled(x) /\ Change(x)
    /\ file' = IF d = "templates" THEN [f \in Files |-> Absent] ELSE file
    /\ mixfile' = 0
    /\ UNCHANGED <<mixins, row, inst, sync, call, phase>>

\* main: the first sync, and only then the watcher.
Boot(p) ==
    /\ phase = "down" /\ Free(p)
    /\ phase' = "starting"
    /\ sync' = [sync EXCEPT ![p].pc = "stat"]
    /\ dirty' = FALSE /\ disturbed' = FALSE
    /\ UNCHANGED <<disk, mixins, row, inst, call, armed, events>>

\* The directories that are not there are not waited for.
WatchDir ==
    /\ phase = "started"
    /\ phase' = "watching" /\ watched' = there
    /\ UNCHANGED <<file, mixfile, there, mixins, row, inst, sync, call, armed, history>>

\* A restart: the goroutines, the timer and the mixins are gone.
Crash ==
    /\ phase = "watching" /\ Event
    /\ phase' = "down" /\ armed' = FALSE /\ mixins' = 0 /\ watched' = {}
    /\ sync' = [p \in Syncs |-> IdleSync] /\ call' = IdleCall
    /\ inst' = [x \in Insts |-> IF inst[x].pc = "creating" THEN NoInst ELSE inst[x]]
    /\ UNCHANGED <<file, mixfile, there, row, dirty, disturbed>>

\* The timer fires: the reload runs in a goroutine of its own.
Fire(p) ==
    /\ armed /\ Free(p)
    /\ armed' = FALSE
    /\ sync' = [sync EXCEPT ![p].pc = "stat"]
    /\ dirty' = FALSE /\ disturbed' = (Running # {})
    /\ UNCHANGED <<disk, mixins, row, inst, call, phase, events>>

-----------------------------------------------------------------------------
(* SyncFromDir.                                                            *)

Others == <<disk, inst, call, armed>>
Return(p) ==
    /\ sync' = [sync EXCEPT ![p] = IdleSync]
    /\ phase' = IF phase = "starting" THEN "started" ELSE phase

\* Without the directory the rows are left as they are.
StatDir(p) ==
    /\ sync[p].pc = "stat"
    /\ IF "templates" \in there THEN sync' = [sync EXCEPT ![p].pc = "load"] /\ UNCHANGED phase
       ELSE Return(p)
    /\ UNCHANGED <<Others, mixins, row, history>>

\* LoadMixinsFromDir, which replaces the whole map, and Glob.
LoadMixins(p) ==
    /\ sync[p].pc = "load"
    /\ mixins' = mixfile
    /\ sync' = [sync EXCEPT ![p].pc = "file",
                            ![p].files = {f \in Files : file[f].kind # "absent"}]
    /\ UNCHANGED <<Others, row, phase, history>>

\* The next file; one that cannot be read or parsed is as good as absent.  The
\* row is looked up by the slug in the text, whatever the file is called.
ReadFile(p) ==
    /\ sync[p].pc = "file"
    /\ \E f \in sync[p].files :
         /\ \A g \in sync[p].files : f <= g
         /\ LET rest  == sync[p].files \ {f}
                found == BySlug(file[f].slug)
            IN IF file[f].kind # "yaml" THEN sync' = [sync EXCEPT ![p].files = rest]
               ELSE \E i \in IF found = {} THEN {0} ELSE found :
                      sync' = [sync EXCEPT ![p].files = rest, ![p].pc = "write",
                                           ![p].t = Parse(file[f]), ![p].id = i,
                                           ![p].seen = @ \cup {file[f].slug}]
    /\ UNCHANGED <<Others, mixins, row, phase, history>>

WriteTemplate(p) ==
    /\ sync[p].pc = "write"
    /\ IF sync[p].id = 0 THEN CreateTemplate(sync[p].t) ELSE UpdateTemplate(sync[p].id, sync[p].t)
    /\ sync' = [sync EXCEPT ![p].pc = "file", ![p].t = NoTemplate, ![p].id = 0]
    /\ UNCHANGED <<Others, mixins, phase, history>>

ListTemplates(p) ==
    /\ sync[p].pc = "file" /\ sync[p].files = {}
    /\ LET stale == {i \in Ids : Live(i) /\ row[i].t.slug \notin sync[p].seen} IN
       sync' = [sync EXCEPT ![p].pc = "clean", ![p].seen = {},
                            ![p].todo = {[id |-> i, active |-> row[i].t.active] : i \in stale}]
    /\ UNCHANGED <<Others, mixins, row, phase, history>>

\* CountInstancesForTemplate decides; the instance may come or go after it.
CountInstances(p, e) ==
    /\ sync[p].pc = "clean" /\ e \in sync[p].todo
    /\ LET next == IF ~Used(e.id) THEN "delete" ELSE IF e.active THEN "deactivate" ELSE "clean" IN
       sync' = [sync EXCEPT ![p].todo = @ \ {e}, ![p].pc = next,
                            ![p].cur = IF next = "clean" THEN NoListed ELSE e]
    /\ UNCHANGED <<Others, mixins, row, phase, history>>

Deactivate(p) ==
    /\ sync[p].pc = "deactivate"
    /\ DeactivateTemplate(sync[p].cur.id)
    /\ sync' = [sync EXCEPT ![p].pc = "clean", ![p].cur = NoListed]
    /\ UNCHANGED <<Others, mixins, phase, history>>

\* A refused deletion is a line in the log.
Remove(p) ==
    /\ sync[p].pc = "delete"
    /\ DeleteTemplate(sync[p].cur.id)
    /\ disturbed' = (disturbed \/ Used(sync[p].cur.id))
    /\ sync' = [sync EXCEPT ![p].pc = "clean", ![p].cur = NoListed]
    /\ UNCHANGED <<Others, mixins, phase, events, dirty>>

Finish(p) ==
    /\ sync[p].pc = "clean" /\ sync[p].todo = {}
    /\ Return(p)
    /\ UNCHANGED <<Others, mixins, row, history>>

-----------------------------------------------------------------------------
(* The API.                                                                *)

Serving == phase = "watching"
Api == Serving /\ Edit /\ UNCHANGED <<disk, mixins, inst, sync, call, phase, armed>>

\* Create, with is_active set; Import parses a text.
Create(s, e) == Api /\ CreateTemplate([NoTemplate EXCEPT !.slug = s, !.edition = e, !.active = TRUE])
ImportYAML(c) == Api /\ CreateTemplate(Parse(c))
\* Update takes every column from the request.
Update(i, s, e, a) ==
    /\ Api /\ Live(i)
    /\ UpdateTemplate(i, [row[i].t EXCEPT !.slug = s, !.edition = e, !.active = a])
UpdateFromYAML(i, c) == Api /\ Live(i) /\ UpdateTemplate(i, Parse(c))
Delete(i) == Api /\ Live(i) /\ DeleteTemplate(i)
DuplicateTemplate(i, s) == Api /\ Live(i) /\ CreateTemplate([row[i].t EXCEPT !.slug = s])

\* SaveToDisk reads the row for the file's name, once more for the text, and
\* truncates the file before it writes it.
SaveToDisk(i) ==
    /\ Serving /\ call.pc = "idle" /\ Live(i) /\ row[i].t.slug \in Slugs
    /\ Event
    /\ call' = [IdleCall EXCEPT !.pc = "export", !.id = i, !.slug = row[i].t.slug]
    /\ UNCHANGED <<disk, mixins, row, inst, sync, phase, armed, dirty, disturbed>>

ExportYAML ==
    /\ call.pc = "export"
    /\ IF Live(call.id) /\ "templates" \in there
         THEN /\ call' = [call EXCEPT !.pc = "save", !.text = Export(row[call.id].t)]
              /\ file' = [file EXCEPT ![FileOf[call.slug]] = Empty]
              /\ Change("templates")
         ELSE call' = IdleCall /\ UNCHANGED <<file, armed, dirty, disturbed>>
    /\ UNCHANGED <<mixfile, there, watched, mixins, row, inst, sync, phase, events>>

\* What is written to a file that was removed meanwhile is lost.
WriteFile ==
    /\ call.pc = "save"
    /\ IF file[FileOf[call.slug]].kind # "absent"
         THEN file' = [file EXCEPT ![FileOf[call.slug]] = call.text] /\ Change("templates")
         ELSE UNCHANGED <<file, armed, dirty, disturbed>>
    /\ call' = IdleCall
    /\ UNCHANGED <<mixfile, there, watched, mixins, row, inst, sync, phase, events>>

\* ReloadFromDisk: the row's slug names the file, whose own slug may differ.
ReloadFromDisk(i) ==
    /\ Serving /\ call.pc = "idle" /\ Live(i) /\ row[i].t.slug \in Slugs
    /\ Event
    /\ call' = [IdleCall EXCEPT !.pc = "read", !.id = i, !.slug = row[i].t.slug]
    /\ UNCHANGED <<disk, mixins, row, inst, sync, phase, armed, dirty, disturbed>>

ReadYAML ==
    /\ call.pc = "read"
    /\ LET c == file[FileOf[call.slug]] IN
       call' = IF c.kind = "yaml" THEN [call EXCEPT !.pc = "update", !.t = Parse(c)] ELSE IdleCall
    /\ UNCHANGED <<disk, mixins, row, inst, sync, phase, armed, history>>

UpdateReloaded ==
    /\ call.pc = "update"
    /\ UpdateTemplate(call.id, call.t)
    /\ call' = IdleCall
    /\ disturbed' = TRUE
    /\ UNCHANGED <<disk, mixins, inst, sync, phase, armed, events, dirty>>

-----------------------------------------------------------------------------
(* Instances: a creation reads its template, then inserts its row.         *)

GetTemplate(x, i) ==
    /\ Serving /\ inst[x].pc = "none" /\ Live(i)
    /\ Event /\ UNCHANGED <<dirty, disturbed>>
    /\ inst' = [inst EXCEPT ![x] = [pc |-> "creating", id |-> i]]
    /\ UNCHANGED <<disk, mixins, row, sync, call, phase, armed>>

CreateInstance(x) ==
    /\ inst[x].pc = "creating"
    /\ inst' = [inst EXCEPT ![x] = IF Live(@.id) THEN [@ EXCEPT !.pc = "row"] ELSE NoInst]
    /\ UNCHANGED <<disk, mixins, row, sync, call, phase, armed, history>>

DeleteInstance(x) ==
    /\ Serving /\ inst[x].pc = "row"
    /\ Event /\ UNCHANGED <<dirty, disturbed>>
    /\ inst' = [inst EXCEPT ![x] = NoInst]
    /\ UNCHANGED <<disk, mixins, row, sync, call, phase, armed>>

-----------------------------------------------------------------------------
SyncStep(p) ==
    \/ StatDir(p) \/ LoadMixins(p) \/ ReadFile(p) \/ WriteTemplate(p)
    \/ ListTemplates(p) \/ \E e \in Listed : CountInstances(p, e)
    \/ Deactivate(p) \/ Remove(p) \/ Finish(p)
CallStep == ExportYAML \/ WriteFile \/ ReadYAML \/ UpdateReloaded

Disk ==
    \/ \E f \in Files, c \in Texts \cup {Absent, Broken} : EditFile(f, c)
    \/ \E e \in Editions : EditMixins(e)
    \/ \E d \in Dirs : MakeDir(d) \/ RemoveDir(d)
Admin ==
    \/ \E s \in Slugs, e \in Editions \ {0} : Create(s, e)
    \/ \E c \in Texts : ImportYAML(c)
    \/ \E i \in Ids :
         \/ \E s \in Slugs, e \in Editions \ {0}, a \in BOOLEAN : Update(i, s, e, a)
         \/ \E c \in Texts : UpdateFromYAML(i, c)
         \/ \E s \in Slugs : DuplicateTemplate(i, s)
         \/ Delete(i) \/ SaveToDisk(i) \/ ReloadFromDisk(i)
User ==
    \E x \in Insts :
      \/ \E i \in Ids : GetTemplate(x, i)
      \/ CreateInstance(x) \/ DeleteInstance(x)

\* All events that the bound admits have happened.
Quiet ==
    /\ events = MaxEvents /\ phase = "watching" /\ ~armed /\ Running = {}
    /\ call.pc = "idle" /\ \A x \in Insts : inst[x].pc # "creating"
    /\ UNCHANGED vars

Next ==
    \/ Disk \/ Admin \/ User \/ Crash
    \/ \E p \in Syncs : Boot(p) \/ Fire(p) \/ SyncStep(p)
    \/ WatchDir \/ CallStep \/ Quiet

Spec == Init /\ [][Next]_vars

-----------------------------------------------------------------------------
\* Nothing is under way, and nothing has happened that the last sync could not
\* see: an edit by the API, a change between the first sync and the watcher or
\* in a directory that was made or put back later, a sync that overlapped
\* another, or a deletion refused for a new instance.  A sync without the
\* directory has not looked at anything.
Settled ==
    /\ phase = "watching" /\ ~armed /\ Running = {} /\ call.pc = "idle"
    /\ ~disturbed /\ "templates" \in there

\* The files that decide: the last one of its slug, which replaces the others.
Deciding == {f \in Files : file[f].kind = "yaml"
                /\ \A g \in Files : g > f /\ file[g].kind = "yaml" => file[g].slug # file[f].slug}

\* At rest the rows follow the files: the mixins in memory are those on disk,
\* every readable file has its template, active, with that text and those
\* mixins, also one that was deactivated while its file was gone; and every
\* other template is inactive.
RowsFollowFiles ==
    Settled =>
      /\ mixins = mixfile
      /\ \A f \in Deciding : \E i \in BySlug(file[f].slug) : row[i].t = Parse(file[f])
      /\ \A i \in Ids : Live(i) /\ row[i].t.active =>
           \E f \in Deciding : file[f].slug = row[i].t.slug

\* A change that the watcher saw is never lost: the timer runs until a sync
\* starts that will read it, also when it came during another sync.
ChangeIsPending == dirty /\ phase = "watching" => armed

=============================================================================
