-------------------------- MODULE TemplateSyncProofs --------------------------
(***************************************************************************)
(* Theorems about TemplateSync, for any files, slugs, instances, syncs and *)
(* bounds.                                                                 *)
(***************************************************************************)
EXTENDS TemplateSync, TLAPS

\* Before the watcher runs, every change is one that nobody saw.
Watched ==
    /\ ChangeIsPending
    /\ phase \in {"starting", "started"} => ~dirty
    /\ phase # "watching" => watched = {}

DiskTyped ==
    /\ file \in [Files -> Content] /\ mixfile \in Editions /\ mixins \in Editions
    /\ watched \subseteq there /\ there \subseteq Dirs
RowsTyped ==
    /\ row \in [Ids -> Row] /\ inst \in [Insts -> Inst]
    /\ \A i, j \in Ids : Live(i) /\ Live(j) /\ row[i].t.slug = row[j].t.slug => i = j
    /\ \A i \in Ids : Used(i) => Live(i)
SyncsTyped == sync \in [Syncs -> Sync]
CallTyped == call \in Call /\ (call.pc # "idle" => call.slug \in Slugs)
RestTyped ==
    /\ phase \in Phases /\ armed \in BOOLEAN
    /\ events \in 0..MaxEvents /\ dirty \in BOOLEAN /\ disturbed \in BOOLEAN
LEMMA TypeParts ==
    /\ DiskTyped /\ RowsTyped /\ SyncsTyped /\ CallTyped /\ RestTyped => TypeOK
    /\ TypeOK /\ CallTyped => DiskTyped /\ RowsTyped /\ SyncsTyped /\ CallTyped /\ RestTyped
BY DEF TypeOK, DiskTyped, RowsTyped, SyncsTyped, CallTyped, RestTyped
Inv == TypeOK /\ CallTyped /\ Watched
LEMMA TypePartsNext ==
    ASSUME DiskTyped', RowsTyped', SyncsTyped', CallTyped', RestTyped' PROVE TypeOK'
BY DEF TypeOK, DiskTyped, RowsTyped, SyncsTyped, CallTyped, RestTyped

LEMMA Sets ==
    /\ FileOf \in [Slugs -> Files] /\ 0 \in Editions /\ 1 \in Editions /\ 0 \in Saved /\ 1 \in Ids
    /\ MaxSaved \in Nat /\ MaxEvents \in Nat
BY FilesAssumption, BoundsAssumption DEF Saved, Ids

LEMMA Records ==
    /\ Absent \in Content /\ Broken \in Content /\ Empty \in Content
    /\ (\A s \in AnySlug, e \in Editions : Text(s, e) \in Content) /\ Texts \subseteq Content
    /\ NoTemplate \in Parsed /\ Gone \in Row /\ NoListed \in Listed /\ NoInst \in Inst
    /\ IdleSync \in Sync /\ IdleCall \in Call
<1>1. Absent \in Content
  BY Sets DEF Absent, Content, AnySlug
<1>2. Blank \in AnySlug
  BY DEF AnySlug
<1>3. Absent \in Content /\ Broken \in Content /\ Empty \in Content
  BY <1>1 DEF Content, Broken, Empty
<1>4. \A s \in AnySlug, e \in Editions : Text(s, e) \in Content
  BY <1>3 DEF Content, Text
<1>5. Texts \subseteq Content
  BY <1>4 DEF Texts, AnySlug
<1>6. NoTemplate \in Parsed
  BY <1>2, Sets DEF NoTemplate, Parsed
<1>7. Gone \in Row
  BY <1>6 DEF Gone, Row
<1>8. NoListed \in Listed /\ NoInst \in Inst
  BY Sets DEF NoListed, Listed, NoInst, Inst
<1>9. IdleSync \in Sync
  BY <1>6, <1>8 DEF IdleSync, Sync
<1>10. IdleCall \in Call
  BY <1>2, <1>3, <1>6, Sets DEF IdleCall, Call
<1>11. QED
  BY <1>3, <1>4, <1>5, <1>6, <1>7, <1>8, <1>9, <1>10

LEMMA ParseTyped == ASSUME TypeOK, NEW c \in Content PROVE Parse(c) \in Parsed
BY DEF Parse, Parsed, Content, TypeOK

LEMMA ExportTyped == ASSUME NEW t \in Parsed PROVE Export(t) \in Content
<1>1. t.slug \in AnySlug /\ t.edition \in Editions /\ t.saved \in 0..MaxSaved
  BY DEF Parsed, Saved
<1>2. (IF t.saved < MaxSaved THEN t.saved + 1 ELSE MaxSaved) \in Saved
  BY <1>1, Sets DEF Saved
<1>3. QED
  BY <1>1, <1>2 DEF Export, Content

-----------------------------------------------------------------------------
(* The table.                                                              *)

LEMMA CreateTyped ==
    ASSUME TypeOK, inst' = inst, NEW t \in Parsed, CreateTemplate(t) PROVE RowsTyped'
<1>1. CASE UNCHANGED row
  BY <1>1 DEF TypeOK, RowsTyped, Live, Used
<1>2. ASSUME NEW i \in Ids, Fresh(i), row' = [row EXCEPT ![i] = [state |-> "live", t |-> t]],
             BySlug(t.slug) = {}
      PROVE  RowsTyped'
  <2>1. PICK r : r = [state |-> "live", t |-> t] /\ r \in Row /\ r.state = "live" /\ r.t = t
    <3>1. [state |-> "live", t |-> t] \in Row
      BY DEF Row
    <3>2. QED
      BY <3>1
  <2>2. row \in [Ids -> Row]
    BY DEF TypeOK
  <2>3. row' \in [Ids -> Row] /\ row'[i] = r /\ \A k \in Ids : k # i => row'[k] = row[k]
    BY <1>2, <2>1, <2>2
  <2>4. \A k \in Ids : Live(k) => row[k].t.slug # t.slug
    BY <1>2 DEF BySlug
  <2>5. \A k \in Ids : Used(k) => Live(k) /\ k # i
    BY <1>2 DEF TypeOK, Live, Fresh
  <2>6. \A k, l \in Ids : Live(k)' /\ Live(l)' /\ row'[k].t.slug = row'[l].t.slug => k = l
    BY <2>1, <2>3, <2>4 DEF TypeOK, Live
  <2>7. \A k \in Ids : Used(k)' => Live(k)'
    BY <2>3, <2>5 DEF Used, Live
  <2>8. QED
    BY <2>3, <2>6, <2>7 DEF RowsTyped, TypeOK
<1>3. QED
  BY <1>1, <1>2 DEF CreateTemplate

LEMMA UpdateTyped ==
    ASSUME TypeOK, inst' = inst, NEW i \in Ids, NEW t \in Parsed, UpdateTemplate(i, t) PROVE RowsTyped'
<1>1. CASE row' = row
  BY <1>1 DEF TypeOK, RowsTyped, Live, Used
<1>2. CASE Live(i) /\ ~Taken(t.slug, i) /\ row' = [row EXCEPT ![i].t = t]
  <2>1. row \in [Ids -> Row] /\ row[i] \in Row
    BY DEF TypeOK
  <2>2. row'[i] = [row[i] EXCEPT !.t = t] /\ \A k \in Ids : k # i => row'[k] = row[k]
    BY <1>2, <2>1
  <2>3. row'[i] \in Row /\ row'[i].state = row[i].state /\ row'[i].t = t
    BY <2>1, <2>2 DEF Row
  <2>4. row' \in [Ids -> Row]
    BY <1>2, <2>1, <2>3
  <2>5. \A k \in Ids : Live(k) /\ k # i => row[k].t.slug # t.slug
    BY <1>2 DEF Taken, BySlug
  <2>6. \A k \in Ids : Live(k)' <=> Live(k)
    BY <2>2, <2>3 DEF Live
  <2>7. \A k, l \in Ids : Live(k)' /\ Live(l)' /\ row'[k].t.slug = row'[l].t.slug => k = l
    BY <2>2, <2>3, <2>5, <2>6 DEF TypeOK
  <2>8. QED
    BY <2>4, <2>6, <2>7 DEF RowsTyped, TypeOK, Used
<1>3. QED
  BY <1>1, <1>2 DEF UpdateTemplate

LEMMA DeactivateTyped ==
    ASSUME TypeOK, inst' = inst, NEW i \in Ids, DeactivateTemplate(i) PROVE RowsTyped'
<1>1. CASE row' = row
  BY <1>1 DEF TypeOK, RowsTyped, Live, Used
<1>2. CASE row' = [row EXCEPT ![i].t.active = FALSE]
  <2>1. row \in [Ids -> Row] /\ row[i] \in Row /\ row[i].t \in Parsed
    BY DEF TypeOK, Row
  <2>2. [row[i].t EXCEPT !.active = FALSE] \in Parsed /\ [row[i].t EXCEPT !.active = FALSE].slug = row[i].t.slug
    BY <2>1 DEF Parsed
  <2>3. row'[i] = [row[i] EXCEPT !.t = [row[i].t EXCEPT !.active = FALSE]] /\ \A k \in Ids : k # i => row'[k] = row[k]
    BY <1>2, <2>1
  <2>4. row'[i] \in Row /\ row'[i].state = row[i].state /\ row'[i].t.slug = row[i].t.slug
    BY <2>1, <2>2, <2>3 DEF Row
  <2>5. row' \in [Ids -> Row]
    BY <1>2, <2>1, <2>4
  <2>6. \A k \in Ids : (Live(k)' <=> Live(k)) /\ row'[k].t.slug = row[k].t.slug
    BY <2>3, <2>4 DEF Live
  <2>7. QED
    BY <2>5, <2>6 DEF RowsTyped, TypeOK, Used
<1>3. QED
  BY <1>1, <1>2 DEF DeactivateTemplate

LEMMA DeleteTyped ==
    ASSUME TypeOK, inst' = inst, NEW i \in Ids, DeleteTemplate(i) PROVE RowsTyped'
<1>1. CASE row' = row
  BY <1>1 DEF TypeOK, RowsTyped, Live, Used
<1>2. CASE ~Used(i) /\ row' = [row EXCEPT ![i] = Gone]
  <2>1. row \in [Ids -> Row] /\ row' \in [Ids -> Row]
    BY <1>2, Records DEF TypeOK
  <2>2. ~Live(i)' /\ \A k \in Ids : k # i => row'[k] = row[k]
    BY <1>2, <2>1 DEF Live, Gone
  <2>3. \A k \in Ids : Live(k)' => Live(k) /\ k # i /\ row'[k] = row[k]
    BY <2>2 DEF Live
  <2>4. \A k \in Ids : Used(k)' => Live(k)'
    BY <1>2, <2>2 DEF Used, Live, TypeOK
  <2>5. QED
    BY <2>1, <2>3, <2>4 DEF RowsTyped, TypeOK
<1>3. QED
  BY <1>1, <1>2 DEF DeleteTemplate

LEMMA RowsSame == ASSUME TypeOK, row' = row, inst' = inst PROVE RowsTyped'
BY DEF TypeOK, RowsTyped, Live, Used

-----------------------------------------------------------------------------
(* A step of SyncFromDir.                                                  *)

\* Nothing but the timer and the watcher bears on the changes that are seen.
LEMMA WatchedSame ==
    ASSUME Watched, UNCHANGED <<armed, dirty>>, phase' = phase, watched' \subseteq watched PROVE Watched'
BY DEF Watched, ChangeIsPending

LEMMA SyncKeeps == ASSUME Inv, NEW p \in Syncs, SyncStep(p) PROVE Inv'
<1>1. /\ TypeOK /\ sync[p] \in Sync /\ row \in [Ids -> Row] /\ sync \in [Syncs -> Sync]
      /\ file \in [Files -> Content] /\ Watched
  BY DEF Inv, TypeOK
<1>2. /\ sync[p].t \in Parsed /\ sync[p].id \in Ids \cup {0} /\ sync[p].cur.id \in Ids
      /\ sync[p].todo \subseteq Listed /\ sync[p].files \subseteq Files
  BY <1>1 DEF Sync, Listed
<1>3. UNCHANGED <<file, mixfile, there, watched, inst, call, armed, events, dirty>>
  BY DEF SyncStep, StatDir, Return, LoadMixins, ReadFile, WriteTemplate, ListTemplates, CountInstances, Deactivate,
         Remove, Finish, Others, disk, history
<1>4. RowsTyped'
  <2>1. CASE WriteTemplate(p)
    BY <1>1, <1>2, <1>3, <2>1, CreateTyped, UpdateTyped DEF WriteTemplate
  <2>2. CASE Deactivate(p)
    BY <1>1, <1>2, <1>3, <2>2, DeactivateTyped DEF Deactivate
  <2>3. CASE Remove(p)
    BY <1>1, <1>2, <1>3, <2>3, DeleteTyped DEF Remove
  <2>4. CASE row' = row
    BY <1>1, <1>3, <2>4, RowsSame
  <2>5. QED
    BY <2>1, <2>2, <2>3, <2>4 DEF SyncStep, StatDir, Return, LoadMixins, ReadFile, ListTemplates, CountInstances, Finish
<1>5. SyncsTyped'
  <2>1. ASSUME NEW r \in Sync, sync' = [sync EXCEPT ![p] = r] PROVE SyncsTyped'
    BY <1>1, <2>1 DEF SyncsTyped
  <2>2. CASE LoadMixins(p)
    <3>1. [sync[p] EXCEPT !.pc = "file", !.files = {f \in Files : file[f].kind # "absent"}] \in Sync
      BY <1>1 DEF Sync
    <3>2. QED
      BY <1>1, <2>1, <2>2, <3>1 DEF LoadMixins
  <2>3. CASE ReadFile(p)
    <3>1. PICK f \in sync[p].files :
            \/ sync' = [sync EXCEPT ![p].files = sync[p].files \ {f}]
            \/ \E i \in {0} \cup BySlug(file[f].slug) :
                 sync' = [sync EXCEPT ![p].files = sync[p].files \ {f}, ![p].pc = "write",
                                      ![p].t = Parse(file[f]), ![p].id = i,
                                      ![p].seen = @ \cup {file[f].slug}]
      BY <2>3 DEF ReadFile
    <3>2. f \in Files /\ file[f] \in Content /\ file[f].slug \in AnySlug /\ Parse(file[f]) \in Parsed
      <4>1. f \in Files /\ file[f] \in Content
        BY <1>1, <1>2
      <4>2. QED
        BY <1>1, <4>1, ParseTyped DEF Content
    <3>3. CASE sync' = [sync EXCEPT ![p].files = sync[p].files \ {f}]
      <4>1. [sync[p] EXCEPT !.files = sync[p].files \ {f}] \in Sync
        BY <1>1 DEF Sync
      <4>2. QED
        BY <1>1, <2>1, <3>3, <4>1
    <3>4. ASSUME NEW i \in {0} \cup BySlug(file[f].slug),
                 sync' = [sync EXCEPT ![p].files = sync[p].files \ {f}, ![p].pc = "write",
                                      ![p].t = Parse(file[f]), ![p].id = i,
                                      ![p].seen = @ \cup {file[f].slug}]
          PROVE  SyncsTyped'
      <4>1. i \in Ids \cup {0}
        BY DEF BySlug
      <4>2. PICK t : t = Parse(file[f]) /\ t \in Parsed
        BY <3>2
      <4>3. [sync[p] EXCEPT !.files = sync[p].files \ {f}, !.pc = "write", !.t = t, !.id = i,
                            !.seen = @ \cup {file[f].slug}] \in Sync
        BY <1>1, <3>2, <4>1, <4>2 DEF Sync
      <4>4. QED
        BY <1>1, <2>1, <3>4, <4>2, <4>3
    <3>5. QED
      BY <3>1, <3>3, <3>4
  <2>4. CASE WriteTemplate(p)
    <3>1. [sync[p] EXCEPT !.pc = "file", !.t = NoTemplate, !.id = 0] \in Sync
      BY <1>1, Records DEF Sync
    <3>2. QED
      BY <1>1, <2>1, <2>4, <3>1 DEF WriteTemplate
  <2>5. CASE ListTemplates(p)
    <3>1. PICK d : /\ d = {[id |-> i, active |-> row[i].t.active] :
                              i \in {k \in Ids : Live(k) /\ row[k].t.slug \notin sync[p].seen}}
                   /\ sync' = [sync EXCEPT ![p].pc = "clean", ![p].seen = {}, ![p].todo = d]
      BY <2>5 DEF ListTemplates
    <3>2. ASSUME NEW i \in Ids PROVE [id |-> i, active |-> row[i].t.active] \in Listed
      BY <1>1 DEF Row, Parsed, Listed
    <3>3. d \subseteq Listed
      BY <3>1, <3>2
    <3>4. [sync[p] EXCEPT !.pc = "clean", !.seen = {}, !.todo = d] \in Sync
      BY <1>1, <3>3 DEF Sync
    <3>5. QED
      BY <1>1, <2>1, <3>1, <3>4
  <2>6. ASSUME NEW e \in Listed, CountInstances(p, e) PROVE SyncsTyped'
    <3>1. PICK next \in {"delete", "deactivate", "clean"}, c \in Listed :
            sync' = [sync EXCEPT ![p].todo = @ \ {e}, ![p].pc = next, ![p].cur = c]
      <4>1. PICK next : /\ next = IF ~Used(e.id) THEN "delete" ELSE IF e.active THEN "deactivate" ELSE "clean"
                        /\ sync' = [sync EXCEPT ![p].todo = @ \ {e}, ![p].pc = next,
                                                ![p].cur = IF next = "clean" THEN NoListed ELSE e]
        BY <2>6 DEF CountInstances
      <4>2. next \in {"delete", "deactivate", "clean"}
        BY <4>1
      <4>3. (IF next = "clean" THEN NoListed ELSE e) \in Listed
        BY Records
      <4>4. QED
        BY <4>1, <4>2, <4>3
    <3>2. [sync[p] EXCEPT !.todo = @ \ {e}, !.pc = next, !.cur = c] \in Sync
      BY <1>1 DEF Sync
    <3>3. QED
      BY <1>1, <2>1, <3>1, <3>2
  <2>7. CASE Deactivate(p) \/ Remove(p)
    <3>1. [sync[p] EXCEPT !.pc = "clean", !.cur = NoListed] \in Sync
      BY <1>1, Records DEF Sync
    <3>2. QED
      BY <1>1, <2>1, <2>7, <3>1 DEF Deactivate, Remove
  <2>8. CASE Return(p)
    BY <2>1, <2>8, Records DEF Return
  <2>10. CASE sync' = [sync EXCEPT ![p].pc = "load"]
    <3>1. [sync[p] EXCEPT !.pc = "load"] \in Sync
      BY <1>1 DEF Sync
    <3>2. QED
      BY <1>1, <2>1, <2>10, <3>1
  <2>9. QED
    BY <2>2, <2>3, <2>4, <2>5, <2>6, <2>7, <2>8, <2>10 DEF SyncStep, Finish, StatDir
<1>6. DiskTyped'
  <2>1. mixins' \in {mixins, mixfile}
    BY DEF SyncStep, StatDir, Return, LoadMixins, ReadFile, WriteTemplate, ListTemplates, CountInstances, Deactivate, Remove, Finish
  <2>2. QED
    BY <1>1, <1>3, <2>1 DEF TypeOK, DiskTyped
<1>7. phase' = phase \/ (phase = "starting" /\ phase' = "started")
  BY DEF SyncStep, StatDir, Return, LoadMixins, ReadFile, WriteTemplate, ListTemplates, CountInstances, Deactivate, Remove, Finish
<1>8. RestTyped'
  <2>1. disturbed' = disturbed \/ disturbed' = (disturbed \/ Used(sync[p].cur.id))
    BY DEF SyncStep, StatDir, Return, LoadMixins, ReadFile, WriteTemplate, ListTemplates, CountInstances, Deactivate, Remove,
           Finish, history
  <2>2. disturbed' \in BOOLEAN
    BY <1>1, <2>1 DEF TypeOK
  <2>3. QED
    BY <1>1, <1>3, <1>7, <2>2 DEF TypeOK, RestTyped, Phases
<1>9. Watched'
  BY <1>1, <1>3, <1>7 DEF Watched, ChangeIsPending
<1>10. CallTyped'
  BY <1>1, <1>3 DEF Inv, TypeOK, CallTyped
<1>11. QED
  BY <1>4, <1>5, <1>6, <1>8, <1>9, <1>10, TypePartsNext DEF Inv
-----------------------------------------------------------------------------
(* The other actions.                                                      *)

\* What all the events have in common.
LEMMA Restful ==
    ASSUME TypeOK, events' = events \/ Event,
           dirty' \in {dirty, FALSE} \/ \E d \in Dirs : Change(d),
           disturbed' \in {disturbed, TRUE, FALSE, Running # {}} \/ \E d \in Dirs : Change(d),
           armed' \in {armed, FALSE} \/ \E d \in Dirs : Arm(d), phase' \in Phases
    PROVE  RestTyped'
<1>1. events' \in 0..MaxEvents
  BY Sets DEF TypeOK, Event
<1>2. dirty' \in BOOLEAN /\ disturbed' \in BOOLEAN /\ armed' \in BOOLEAN
  BY DEF TypeOK, Change, Arm
<1>3. QED
  BY <1>1, <1>2 DEF RestTyped

\* A change is pending as soon as it is seen.
LEMMA ChangeWatched ==
    ASSUME Watched, NEW d, Change(d), phase' = phase, watched' \subseteq watched PROVE Watched'
BY DEF Watched, ChangeIsPending, Change, Arm

\* What the events on the disk do: the watcher sees them or it does not.
LEMMA DiskEffects ==
    ASSUME Disk, DiskTyped
    PROVE  /\ Event /\ UNCHANGED <<mixins, row, inst, sync, call, phase>> /\ watched' \subseteq watched
           /\ \/ \E d \in Dirs : Change(d)
              \/ Unseen
              \/ /\ UNCHANGED <<file, mixfile, watched, armed, dirty, disturbed>>
                 /\ there' = there \cup {"mixins"}
<1>1. ASSUME NEW d \in Dirs, RemoveDir(d)
      PROVE  /\ Event /\ UNCHANGED <<mixins, row, inst, sync, call, phase>> /\ watched' \subseteq watched
             /\ Unseen \/ \E x \in Dirs : Change(x)
  <2>1. PICK gone : /\ gone = IF d = "templates" THEN there ELSE {d}
                    /\ watched' = watched \ gone
                    /\ Unseen \/ \E x \in gone : Filled(x) /\ Change(x)
    BY <1>1 DEF RemoveDir
  <2>2. \A x \in gone : Change(x) => Unseen \/ \E y \in Dirs : Change(y)
    <3>1. SUFFICES ASSUME NEW x \in gone, Change(x), x \notin Dirs PROVE Unseen \/ \E y \in Dirs : Change(y)
      OBVIOUS
    <3>2. there \subseteq Dirs
      BY DEF DiskTyped
    <3>3. QED
      BY <2>1, <3>1, <3>2
  <2>3. QED
    BY <1>1, <2>1, <2>2 DEF RemoveDir
<1>2. ASSUME NEW d \in Dirs, MakeDir(d)
      PROVE  /\ Event /\ UNCHANGED <<mixins, row, inst, sync, call, phase>> /\ watched' \subseteq watched
             /\ \/ Unseen
                \/ /\ UNCHANGED <<file, mixfile, watched, armed, dirty, disturbed>>
                   /\ there' = there \cup {"mixins"}
  BY <1>2 DEF MakeDir, Dirs
<1>3. QED
  BY <1>1, <1>2 DEF Disk, EditFile, EditMixins, Dirs

LEMMA DiskKeeps == ASSUME Inv, Disk PROVE Inv'
<1>1. TypeOK /\ Watched /\ Event /\ UNCHANGED <<mixins, row, inst, sync, call, phase>>
      /\ watched' \subseteq watched
      /\ \/ \E d \in Dirs : Change(d)
         \/ Unseen
         \/ UNCHANGED <<armed, dirty, disturbed>>
  BY DiskEffects DEF Inv, TypeOK, DiskTyped
<1>2. DiskTyped'
  <2>1. ASSUME NEW f \in Files, NEW c \in Texts \cup {Absent, Broken}, EditFile(f, c) PROVE DiskTyped'
    BY <1>1, <2>1, Records DEF EditFile, TypeOK, DiskTyped
  <2>2. ASSUME NEW e \in Editions, EditMixins(e) PROVE DiskTyped'
    BY <1>1, <2>2 DEF EditMixins, TypeOK, DiskTyped
  <2>4. ASSUME NEW d \in Dirs, MakeDir(d) PROVE DiskTyped'
    BY <1>1, <2>4 DEF MakeDir, TypeOK, DiskTyped
  <2>5. ASSUME NEW d \in Dirs, RemoveDir(d) PROVE DiskTyped'
    <3>1. PICK gone : there' = there \ gone /\ watched' = watched \ gone
      BY <2>5 DEF RemoveDir
    <3>2. mixfile' = 0 /\ 0 \in Editions /\ mixins' = mixins /\ Absent \in Content
      BY <1>1, <2>5, Records, Sets DEF RemoveDir
    <3>4. file' = file \/ file' = [f \in Files |-> Absent]
      BY <2>5 DEF RemoveDir
    <3>5. file' \in [Files -> Content]
      BY <1>1, <3>2, <3>4 DEF TypeOK
    <3>3. QED
      BY <1>1, <3>1, <3>2, <3>5 DEF TypeOK, DiskTyped
  <2>3. QED
    BY <2>1, <2>2, <2>4, <2>5 DEF Disk
<1>3. RestTyped'
  BY <1>1, Restful DEF TypeOK, Change, Unseen
<1>4. SyncsTyped' /\ CallTyped'
  BY <1>1 DEF Inv, TypeOK, SyncsTyped, CallTyped
<1>5. Watched'
  BY <1>1, ChangeWatched, WatchedSame DEF Unseen
<1>6. QED
  BY <1>1, <1>2, <1>3, <1>4, <1>5, RowsSame, TypePartsNext DEF Inv

LEMMA ServerKeeps ==
    ASSUME Inv, WatchDir \/ Crash \/ \E p \in Syncs : Boot(p) \/ Fire(p) PROVE Inv'
<1>1. TypeOK /\ Watched /\ sync \in [Syncs -> Sync] /\ UNCHANGED <<file, mixfile, there, row>>
  BY DEF Inv, TypeOK, WatchDir, Crash, Boot, Fire, disk
<1>2. ASSUME NEW p \in Syncs PROVE [sync EXCEPT ![p].pc = "stat"] \in [Syncs -> Sync]
  <2>1. [sync[p] EXCEPT !.pc = "stat"] \in Sync
    BY <1>1 DEF Sync
  <2>2. QED
    BY <1>1, <2>1
<1>3. CASE WatchDir
  <2>1. UNCHANGED <<mixins, inst, sync, call, armed, events, dirty, disturbed>> /\ phase' = "watching"
       /\ watched' = there
    BY <1>3 DEF WatchDir, history
  <2>2. RestTyped'
    BY <1>1, <2>1, Restful DEF Phases
  <2>3. DiskTyped' /\ SyncsTyped' /\ CallTyped'
    BY <1>1, <2>1 DEF Inv, TypeOK, DiskTyped, SyncsTyped, CallTyped
  <2>4. Watched'
    BY <1>1, <1>3, <2>1 DEF WatchDir, Watched, ChangeIsPending
  <2>5. QED
    BY <1>1, <2>1, <2>2, <2>3, <2>4, RowsSame, TypePartsNext DEF Inv
<1>4. ASSUME NEW p \in Syncs, Boot(p) \/ Fire(p) PROVE Inv'
  <2>1. UNCHANGED <<watched, mixins, inst, call, events>> /\ dirty' = FALSE
        /\ sync' = [sync EXCEPT ![p].pc = "stat"]
    BY <1>4 DEF Boot, Fire, disk
  <2>2. phase' \in Phases /\ armed' \in {armed, FALSE} /\ disturbed' \in {FALSE, Running # {}}
    BY <1>1, <1>4 DEF Boot, Fire, Phases, TypeOK
  <2>3. RestTyped'
    BY <1>1, <2>1, <2>2, Restful
  <2>4. DiskTyped' /\ SyncsTyped' /\ CallTyped'
    BY <1>1, <1>2, <2>1 DEF Inv, TypeOK, DiskTyped, SyncsTyped, CallTyped
  <2>5. Watched'
    <3>1. phase' # "watching" => phase # "watching"
      BY <1>4 DEF Boot, Fire
    <3>2. QED
      BY <1>1, <2>1, <3>1 DEF Watched, ChangeIsPending
  <2>6. QED
    BY <1>1, <2>1, <2>3, <2>4, <2>5, RowsSame, TypePartsNext DEF Inv
<1>5. CASE Crash
  <2>1. /\ Event /\ phase' = "down" /\ armed' = FALSE /\ mixins' = 0 /\ dirty' = dirty /\ disturbed' = disturbed
        /\ sync' = [p \in Syncs |-> IdleSync] /\ call' = IdleCall /\ watched' = {}
        /\ inst' = [x \in Insts |-> IF inst[x].pc = "creating" THEN NoInst ELSE inst[x]]
    BY <1>5 DEF Crash
  <2>2. RestTyped'
    BY <1>1, <2>1, Restful DEF Phases
  <2>3. DiskTyped' /\ SyncsTyped' /\ CallTyped'
    BY <1>1, <2>1, Sets, Records DEF IdleCall, Inv, TypeOK, DiskTyped, SyncsTyped, CallTyped
  <2>4. RowsTyped'
    <3>1. \A i \in Ids : Used(i)' => Used(i)
      BY <2>1 DEF Used, NoInst
    <3>2. inst' \in [Insts -> Inst]
      BY <1>1, <2>1, Records DEF TypeOK
    <3>3. QED
      BY <1>1, <3>1, <3>2 DEF RowsTyped, TypeOK, Live
  <2>5. Watched'
    BY <2>1 DEF Watched, ChangeIsPending
  <2>6. QED
    BY <2>2, <2>3, <2>4, <2>5, TypePartsNext DEF Inv
<1>6. QED
  BY <1>3, <1>4, <1>5

LEMMA ApiKeeps == ASSUME Inv, Api, RowsTyped' PROVE Inv'
<1>1. TypeOK /\ Watched /\ Event /\ disturbed' = TRUE
      /\ UNCHANGED <<file, mixfile, there, watched, mixins, inst, sync, call, phase, armed, dirty>>
  BY DEF Inv, Api, Edit, disk
<1>2. RestTyped'
  BY <1>1, Restful DEF TypeOK
<1>3. DiskTyped' /\ SyncsTyped' /\ CallTyped'
  BY <1>1 DEF Inv, TypeOK, DiskTyped, SyncsTyped, CallTyped
<1>4. QED
  BY <1>1, <1>2, <1>3, WatchedSame, TypePartsNext DEF Inv

\* A call of SaveToDisk or ReloadFromDisk moves on.
LEMMA CallKeeps ==
    ASSUME Inv, UNCHANGED <<mixfile, there, watched, mixins, inst, sync, phase>>, RowsTyped', CallTyped',
           file' \in [Files -> Content], events' = events \/ Event,
           Change("templates") \/ (dirty' = dirty /\ armed' = armed /\ disturbed' \in {disturbed, TRUE})
    PROVE  Inv'
<1>1. TypeOK /\ Watched
  BY DEF Inv
<1>2. RestTyped'
  BY <1>1, Restful DEF TypeOK, Change, Dirs
<1>3. DiskTyped' /\ SyncsTyped'
  BY <1>1 DEF TypeOK, DiskTyped, SyncsTyped
<1>4. Watched'
  BY <1>1, WatchedSame, ChangeWatched
<1>5. QED
  BY <1>2, <1>3, <1>4, TypePartsNext DEF Inv

LEMMA AdminKeeps == ASSUME Inv, Admin PROVE Inv'
<1>1. TypeOK /\ row \in [Ids -> Row] /\ call \in Call /\ file \in [Files -> Content]
  BY DEF Inv, TypeOK
<1>2. \A i \in Ids : row[i].t \in Parsed
  BY <1>1 DEF Row
<1>3. Api => inst' = inst
  BY DEF Api
<1>4. ASSUME NEW s \in Slugs, NEW e \in Editions \ {0}, Create(s, e) PROVE Inv'
  <2>1. [NoTemplate EXCEPT !.slug = s, !.edition = e, !.active = TRUE] \in Parsed
    BY Records DEF Parsed, AnySlug
  <2>2. QED
    BY <1>1, <1>3, <1>4, <2>1, CreateTyped, ApiKeeps DEF Create
<1>5. ASSUME NEW c \in Texts, ImportYAML(c) PROVE Inv'
  <2>1. Parse(c) \in Parsed
    BY <1>1, Records, ParseTyped
  <2>2. QED
    BY <1>1, <1>3, <1>5, <2>1, CreateTyped, ApiKeeps DEF ImportYAML
<1>6. ASSUME NEW i \in Ids, NEW s \in Slugs, NEW e \in Editions \ {0}, NEW a \in BOOLEAN, Update(i, s, e, a)
      PROVE  Inv'
  <2>1. [row[i].t EXCEPT !.slug = s, !.edition = e, !.active = a] \in Parsed
    BY <1>2 DEF Parsed, AnySlug
  <2>2. QED
    BY <1>1, <1>3, <1>6, <2>1, UpdateTyped, ApiKeeps DEF Update
<1>7. ASSUME NEW i \in Ids, NEW c \in Texts, UpdateFromYAML(i, c) PROVE Inv'
  <2>1. Parse(c) \in Parsed
    BY <1>1, Records, ParseTyped
  <2>2. QED
    BY <1>1, <1>3, <1>7, <2>1, UpdateTyped, ApiKeeps DEF UpdateFromYAML
<1>8. ASSUME NEW i \in Ids, NEW s \in Slugs, DuplicateTemplate(i, s) PROVE Inv'
  <2>1. [row[i].t EXCEPT !.slug = s] \in Parsed
    BY <1>2 DEF Parsed, AnySlug
  <2>2. QED
    BY <1>1, <1>3, <1>8, <2>1, CreateTyped, ApiKeeps DEF DuplicateTemplate
<1>9. ASSUME NEW i \in Ids, Delete(i) PROVE Inv'
  BY <1>1, <1>3, <1>9, DeleteTyped, ApiKeeps DEF Delete
<1>10. ASSUME NEW i \in Ids, NEW l \in {"export", "read"},
              call' = [IdleCall EXCEPT !.pc = l, !.id = i, !.slug = row[i].t.slug], row[i].t.slug \in Slugs,
              Event, UNCHANGED <<disk, mixins, row, inst, sync, phase, armed, dirty, disturbed>>
       PROVE  Inv'
  <2>1. row[i].t.slug \in AnySlug
    BY <1>2 DEF Parsed
  <2>2. CallTyped'
    <3>1. /\ [IdleCall EXCEPT !.pc = l, !.id = i, !.slug = row[i].t.slug] \in Call
          /\ [IdleCall EXCEPT !.pc = l, !.id = i, !.slug = row[i].t.slug].slug = row[i].t.slug
      BY <2>1, Records DEF Call
    <3>2. QED
      BY <1>10, <3>1 DEF CallTyped
  <2>3. QED
    BY <1>1, <1>10, <2>2, RowsSame, CallKeeps DEF disk
<1>11. ASSUME NEW i \in Ids, SaveToDisk(i) PROVE Inv'
  BY <1>10, <1>11 DEF SaveToDisk
<1>12. ASSUME NEW i \in Ids, ReloadFromDisk(i) PROVE Inv'
  BY <1>10, <1>12 DEF ReloadFromDisk
<1>13. QED
  BY <1>4, <1>5, <1>6, <1>7, <1>8, <1>9, <1>11, <1>12 DEF Admin

LEMMA CallStepKeeps == ASSUME Inv, CallStep PROVE Inv'
<1>1. TypeOK /\ row \in [Ids -> Row] /\ call \in Call /\ file \in [Files -> Content]
      /\ call.id \in Ids /\ call.t \in Parsed /\ call.text \in Content
  BY DEF Inv, TypeOK, Call
<1>2. CASE ExportYAML
  <2>1. UNCHANGED <<mixfile, there, watched, mixins, row, inst, sync, phase, events>>
    BY <1>2 DEF ExportYAML
  <2>2. Export(row[call.id].t) \in Content
    BY <1>1, ExportTyped DEF Row
  <2>3. /\ [call EXCEPT !.pc = "save", !.text = Export(row[call.id].t)] \in Call
        /\ [call EXCEPT !.pc = "save", !.text = Export(row[call.id].t)].slug = call.slug
    BY <1>1, <2>2 DEF Call
  <2>4. call.slug \in Slugs
    BY <1>2 DEF ExportYAML, Inv, CallTyped
  <2>8. CallTyped'
    <3>1. call' = [call EXCEPT !.pc = "save", !.text = Export(row[call.id].t)] \/ call' = IdleCall
      BY <1>2 DEF ExportYAML
    <3>2. IdleCall.pc = "idle"
      BY DEF IdleCall
    <3>3. QED
      BY <2>3, <2>4, <3>1, <3>2, Records DEF CallTyped
  <2>5. file' \in [Files -> Content]
    BY <1>1, <1>2, Records DEF ExportYAML
  <2>6. Change("templates") \/ (dirty' = dirty /\ armed' = armed /\ disturbed' = disturbed)
    BY <1>2 DEF ExportYAML
  <2>7. QED
    BY <1>1, <2>1, <2>8, <2>5, <2>6, RowsSame, CallKeeps
<1>3. CASE WriteFile
  <2>1. UNCHANGED <<mixfile, there, watched, mixins, row, inst, sync, phase, events>> /\ call' = IdleCall
        /\ (Change("templates") \/ (dirty' = dirty /\ armed' = armed /\ disturbed' = disturbed))
    BY <1>3 DEF WriteFile
  <2>2. file' \in [Files -> Content]
    BY <1>1, <1>3 DEF WriteFile
  <2>3. QED
    BY <1>1, <2>1, <2>2, RowsSame, CallKeeps, Records DEF CallTyped, IdleCall
<1>4. CASE ReadYAML
  <2>1. UNCHANGED <<file, mixfile, there, watched, mixins, row, inst, sync, phase, armed, events, dirty, disturbed>>
    BY <1>4 DEF ReadYAML, disk, history
  <2>2. CallTyped'
    <3>1. PICK c : /\ c = file[FileOf[call.slug]]
                   /\ call' = IF c.kind = "yaml" THEN [call EXCEPT !.pc = "update", !.t = Parse(c)] ELSE IdleCall
      BY <1>4 DEF ReadYAML
    <3>2. CASE call' = IdleCall
      BY <3>2, Records DEF CallTyped, IdleCall
    <3>3. CASE call' = [call EXCEPT !.pc = "update", !.t = Parse(c)]
      <4>1. Parse(c) \in Parsed
        <5>1. call.slug \in Slugs
          BY <1>4 DEF ReadYAML, Inv, CallTyped
        <5>2. QED
          BY <1>1, <3>1, <5>1, Sets, ParseTyped
      <4>2. QED
        <5>1. /\ [call EXCEPT !.pc = "update", !.t = Parse(c)] \in Call
              /\ [call EXCEPT !.pc = "update", !.t = Parse(c)].slug = call.slug
          BY <1>1, <4>1 DEF Call
        <5>2. call.slug \in Slugs
          BY <1>4 DEF ReadYAML, Inv, CallTyped
        <5>3. QED
          BY <3>3, <5>1, <5>2 DEF CallTyped
    <3>4. QED
      BY <3>1, <3>2, <3>3
  <2>3. QED
    BY <1>1, <2>1, <2>2, RowsSame, CallKeeps
<1>5. CASE UpdateReloaded
  <2>1. UNCHANGED <<file, mixfile, there, watched, mixins, inst, sync, phase, armed, events, dirty>> /\ disturbed' = TRUE
        /\ call' = IdleCall
    BY <1>5 DEF UpdateReloaded, disk
  <2>2. RowsTyped'
    BY <1>1, <1>5, <2>1, UpdateTyped DEF UpdateReloaded
  <2>3. QED
    BY <1>1, <2>1, <2>2, CallKeeps, Records DEF CallTyped, IdleCall
<1>6. QED
  BY <1>2, <1>3, <1>4, <1>5 DEF CallStep

LEMMA UserKeeps == ASSUME Inv, User PROVE Inv'
<1>1. TypeOK /\ Watched /\ inst \in [Insts -> Inst]
      /\ UNCHANGED <<file, mixfile, there, watched, mixins, row, sync, call, phase, armed, dirty, disturbed>>
      /\ (events' = events \/ Event)
  BY DEF Inv, TypeOK, User, GetTemplate, CreateInstance, DeleteInstance, disk, history
<1>2. PICK x \in Insts : (\E i \in Ids : GetTemplate(x, i)) \/ CreateInstance(x) \/ DeleteInstance(x)
  BY DEF User
<1>3. inst' \in [Insts -> Inst] /\ \A i \in Ids : Used(i)' => Live(i)
  <2>1. ASSUME NEW i \in Ids, GetTemplate(x, i) PROVE inst' \in [Insts -> Inst] /\ \A k \in Ids : Used(k)' => Used(k)
    <3>1. [pc |-> "creating", id |-> i] \in Inst
      BY DEF Inst
    <3>2. QED
      BY <1>1, <2>1, <3>1 DEF GetTemplate, Used
  <2>2. CASE CreateInstance(x)
    <3>1. inst[x] \in Inst
      BY <1>1
    <3>2. inst' = [inst EXCEPT ![x] = IF Live(inst[x].id) THEN [inst[x] EXCEPT !.pc = "row"] ELSE NoInst]
      BY <2>2 DEF CreateInstance
    <3>3. PICK r \in Inst : /\ inst' = [inst EXCEPT ![x] = r] /\ (r.pc = "row" => Live(r.id))
      <4>1. CASE Live(inst[x].id)
        <5>1. [inst[x] EXCEPT !.pc = "row"] \in Inst /\ [inst[x] EXCEPT !.pc = "row"].id = inst[x].id
          BY <3>1 DEF Inst
        <5>2. QED
          BY <3>2, <4>1, <5>1
      <4>2. CASE ~Live(inst[x].id)
        BY <3>2, <4>2, Records DEF NoInst
      <4>3. QED
        BY <4>1, <4>2
    <3>4. QED
      BY <1>1, <3>3 DEF Used, TypeOK
  <2>3. CASE DeleteInstance(x)
    BY <1>1, <2>3, Records DEF DeleteInstance, Used, TypeOK, NoInst
  <2>4. QED
    BY <1>1, <1>2, <2>1, <2>2, <2>3 DEF TypeOK
<1>4. RowsTyped'
  BY <1>1, <1>3 DEF TypeOK, RowsTyped, Live
<1>5. RestTyped'
  BY <1>1, Restful DEF TypeOK
<1>6. DiskTyped' /\ SyncsTyped' /\ CallTyped'
  BY <1>1 DEF Inv, TypeOK, DiskTyped, SyncsTyped, CallTyped
<1>7. QED
  BY <1>1, <1>4, <1>5, <1>6, WatchedSame, TypePartsNext DEF Inv

LEMMA StutterKeeps == ASSUME Inv, UNCHANGED vars PROVE Inv'
BY DEF Inv, vars, TypeOK, CallTyped, Live, Used, Watched, ChangeIsPending

LEMMA InitInv == Init => Inv
<1> SUFFICES ASSUME Init PROVE Inv
  OBVIOUS
<1>1. file \in [Files -> Content]
  <2>1. {Absent} \cup {Text(s, 1) : s \in Slugs} \subseteq Content
    BY Records, Sets DEF AnySlug
  <2>2. QED
    BY <2>1 DEF Init
<1>2. RowsTyped
  <2>1. [state |-> "unused", t |-> NoTemplate] \in Row
    BY Records DEF Row
  <2>2. \A i \in Ids : row[i].state = "unused"
    BY DEF Init
  <2>3. \A x \in Insts : inst[x].pc = "none"
    BY DEF Init, NoInst
  <2>4. QED
    BY <2>1, <2>2, <2>3, Records DEF Init, RowsTyped, Live, Used
<1>3. DiskTyped /\ SyncsTyped /\ CallTyped
  <2>1. there \subseteq Dirs /\ watched \subseteq there
    BY FilesAssumption DEF Init, Dirs
  <2>2. mixfile \in Editions /\ mixins \in Editions
    BY Sets DEF Init
  <2>3. SyncsTyped /\ CallTyped
    BY Records DEF IdleCall, Init, SyncsTyped, CallTyped
  <2>4. QED
    BY <1>1, <2>1, <2>2, <2>3 DEF DiskTyped
<1>4. RestTyped
  <2>1. events \in 0..MaxEvents
    BY Sets DEF Init
  <2>2. armed = FALSE /\ dirty = FALSE /\ disturbed = FALSE /\ phase = "down"
    BY DEF Init
  <2>3. QED
    BY <2>1, <2>2 DEF RestTyped, Phases
<1>5. QED
  BY <1>2, <1>3, <1>4, TypeParts DEF Inv, Watched, ChangeIsPending, Init

LEMMA NextInv == Inv /\ [Next]_vars => Inv'
<1> SUFFICES ASSUME Inv, [Next]_vars PROVE Inv'
  OBVIOUS
<1>1. CASE Quiet \/ UNCHANGED vars
  BY <1>1, StutterKeeps DEF Quiet
<1>2. QED
  BY <1>1, SyncKeeps, DiskKeeps, ServerKeeps, AdminKeeps, CallStepKeeps, UserKeeps DEF Next

LEMMA SpecInv == Spec => []Inv
BY InitInv, NextInv, PTL DEF Spec

\* The state is well typed: slugs stay unique whatever overlaps, and no sync
\* and no request deletes the template of an instance.
THEOREM TypeCorrect == Spec => []TypeOK
<1>1. Inv => TypeOK
  BY DEF Inv
<1>2. QED
  BY <1>1, SpecInv, PTL

\* WatchDir loses no change that it sees: the timer runs until a sync starts.
THEOREM ChangesArePending == Spec => []ChangeIsPending
<1>1. Inv => ChangeIsPending
  BY DEF Inv, Watched
<1>2. QED
  BY <1>1, SpecInv, PTL

-----------------------------------------------------------------------------
(* The rows follow the files.  Of an undisturbed sync the invariant says   *)
(* how far the rows are: each file that was read has its template, if no   *)
(* later one has the slug, and each template without a file is still to be *)
(* looked at.                                                              *)

YamlIn(F) == {f \in F : file[f].kind = "yaml"}
LastIn(F) == {f \in YamlIn(F) : \A g \in YamlIn(F) : g > f => file[g].slug # file[f].slug}
\* Every slug has a last file.
Witnessed(F) == \A f \in YamlIn(F) : \E g \in LastIn(F) : file[g].slug = file[f].slug
Held(f) == \E i \in BySlug(file[f].slug) : row[i].t = Parse(file[f])
All == {f \in Files : file[f].kind # "absent"}
Seen(p) == All \ sync[p].files

Reading(p) ==
    /\ mixins = mixfile
    /\ sync[p].files \subseteq All
    /\ \A f \in Seen(p), g \in sync[p].files : f < g
    /\ sync[p].seen = {file[f].slug : f \in YamlIn(Seen(p))}
AtFile(p) == Reading(p) /\ Witnessed(Seen(p)) /\ \A f \in LastIn(Seen(p)) : Held(f)
\* c is the file that is being written, s what had been read before it.
AtWrite(p) ==
    /\ Reading(p)
    /\ \E c \in YamlIn(Seen(p)), s \in SUBSET Seen(p) :
         /\ Seen(p) = s \cup {c} /\ \A f \in s : f < c
         /\ Witnessed(s) /\ \A f \in LastIn(s) : Held(f)
         /\ sync[p].t = Parse(file[c])
         /\ sync[p].id = 0 => BySlug(file[c].slug) = {}
         /\ sync[p].id # 0 => sync[p].id \in BySlug(file[c].slug)
Stale(i) == \A f \in YamlIn(Files) : file[f].slug # row[i].t.slug
AtClean(p) ==
    /\ mixins = mixfile /\ Witnessed(Files) /\ \A f \in LastIn(Files) : Held(f)
    /\ \A e \in sync[p].todo : Live(e.id) => Stale(e.id)
    /\ sync[p].pc # "clean" /\ Live(sync[p].cur.id) => Stale(sync[p].cur.id)
    /\ \A i \in Ids : Live(i) /\ row[i].t.active /\ Stale(i) =>
          \/ [id |-> i, active |-> TRUE] \in sync[p].todo
          \/ sync[p].pc # "clean" /\ sync[p].cur.id = i
Progress(p) ==
    /\ sync[p].pc = "file" => AtFile(p)
    /\ sync[p].pc = "write" => AtWrite(p)
    /\ sync[p].pc \in {"clean", "deactivate", "delete"} => AtClean(p)
Followed ==
    /\ mixins = mixfile /\ \A f \in LastIn(Files) : Held(f)
    /\ \A i \in Ids : Live(i) /\ row[i].t.active =>
         \E f \in LastIn(Files) : file[f].slug = row[i].t.slug

\* The last sync has been able to see everything so far.
Clear == ~disturbed /\ ~armed /\ phase # "down" /\ "templates" \in there
Follows ==
    Clear => /\ \A p, q \in Running : p = q
             /\ \A p \in Running : Progress(p)
             /\ Running = {} => Followed
Begins ==
    /\ phase = "down" => Running = {}
    /\ armed => phase = "watching"
    /\ \A p \in Syncs : sync[p].pc \in {"idle", "stat", "load"} => sync[p].seen = {}
SyncInv == Begins /\ Follows

LEMMA FilesSame ==
    ASSUME file' = file
    PROVE  All' = All /\ \A F : YamlIn(F)' = YamlIn(F) /\ LastIn(F)' = LastIn(F) /\ (Witnessed(F)' <=> Witnessed(F))
BY DEF All, YamlIn, LastIn, Witnessed

LEMMA SeenFiles == LastIn(All) = LastIn(Files) /\ YamlIn(All) = YamlIn(Files) /\ (Witnessed(All) <=> Witnessed(Files))
<1>1. YamlIn(All) = YamlIn(Files)
  BY DEF YamlIn, All
<1>2. QED
  BY <1>1 DEF LastIn, Witnessed

\* One more file at the end: it is the last of its slug.
LEMMA AppendYaml ==
    ASSUME NEW F, NEW c \in Files, F \subseteq Files, file[c].kind = "yaml"
    PROVE  YamlIn(F \cup {c}) = YamlIn(F) \cup {c}
BY DEF YamlIn

LEMMA AppendLast ==
    ASSUME NEW F, NEW c \in Files, F \subseteq Files, file[c].kind = "yaml", \A x \in F : x < c
    PROVE  /\ c \in LastIn(F \cup {c})
           /\ \A f \in LastIn(F) : file[f].slug # file[c].slug => f \in LastIn(F \cup {c})
           /\ \A f \in LastIn(F \cup {c}) \ {c} : f \in LastIn(F) /\ file[f].slug # file[c].slug
<1>1. c \in Nat /\ F \subseteq Nat /\ c \notin F
  BY FilesAssumption
<1>2. YamlIn(F \cup {c}) = YamlIn(F) \cup {c} /\ YamlIn(F) \subseteq F
  BY AppendYaml DEF YamlIn
<1>3. c \in LastIn(F \cup {c})
  <2>1. ASSUME NEW g \in YamlIn(F) \cup {c} PROVE ~(g > c)
    <3>1. g = c \/ (g < c /\ g \in Nat)
      BY <1>1, <1>2, <2>1
    <3>2. QED
      BY <1>1, <3>1
  <2>2. QED
    BY <1>2, <2>1 DEF LastIn
<1>4. ASSUME NEW f \in LastIn(F), file[f].slug # file[c].slug PROVE f \in LastIn(F \cup {c})
  BY <1>2, <1>4 DEF LastIn
<1>5. ASSUME NEW f \in LastIn(F \cup {c}) \ {c} PROVE f \in LastIn(F) /\ file[f].slug # file[c].slug
  <2>1. f \in YamlIn(F) /\ c > f
    BY <1>1, <1>2, <1>5 DEF LastIn
  <2>2. QED
    BY <1>2, <1>5, <2>1 DEF LastIn
<1>6. QED
  BY <1>3, <1>4, <1>5

LEMMA AppendWitnessed ==
    ASSUME NEW F, NEW c \in Files, F \subseteq Files, file[c].kind = "yaml", \A x \in F : x < c, Witnessed(F)
    PROVE  Witnessed(F \cup {c})
<1>1. ASSUME NEW f \in YamlIn(F \cup {c}) PROVE \E g \in LastIn(F \cup {c}) : file[g].slug = file[f].slug
  <2>1. CASE file[f].slug = file[c].slug
    BY <2>1, AppendLast
  <2>2. CASE file[f].slug # file[c].slug
    <3>1. f \in YamlIn(F)
      <4>1. YamlIn(F \cup {c}) = YamlIn(F) \cup {c}
        BY AppendYaml
      <4>2. QED
        BY <1>1, <2>2, <4>1
    <3>2. PICK g \in LastIn(F) : file[g].slug = file[f].slug
      BY <3>1 DEF Witnessed
    <3>3. g \in LastIn(F \cup {c})
      BY <2>2, <3>2, AppendLast
    <3>4. QED
      BY <3>2, <3>3
  <2>3. QED
    BY <2>1, <2>2
<1>2. QED
  BY <1>1 DEF Witnessed

\* Where nothing that counts has changed.
LEMMA FollowsSame ==
    ASSUME SyncInv, UNCHANGED <<file, mixfile, mixins, row, sync, armed, disturbed>>,
           "templates" \in there' => "templates" \in there,
           phase' = phase \/ (phase = "started" /\ phase' = "watching")
    PROVE  SyncInv'
<1>1. \A p : /\ Running' = Running
             /\ (AtFile(p)' <=> AtFile(p)) /\ (AtWrite(p)' <=> AtWrite(p)) /\ (AtClean(p)' <=> AtClean(p))
  BY DEF Running, AtFile, AtWrite, AtClean, Reading, Seen, All, Witnessed, LastIn, YamlIn, Held, Stale, BySlug,
         Live, Parse
<1>2. \A p : Progress(p)' <=> Progress(p)
  BY <1>1 DEF Progress
<1>3. Followed' <=> Followed
  BY DEF Followed, LastIn, YamlIn, Held, BySlug, Live, Parse
<1>4. QED
  BY <1>1, <1>2, <1>3 DEF SyncInv, Begins, Follows, Clear

\* Where the next sync, or a restart, is to make good what has changed.
LEMMA FollowsLater ==
    ASSUME SyncInv, sync' = sync, phase' = phase, disturbed' \/ armed', armed' => phase = "watching"
    PROVE  SyncInv'
BY DEF SyncInv, Begins, Follows, Clear, Running

LEMMA ChangeFollows ==
    ASSUME Watched, SyncInv, NEW d, Change(d), sync' = sync, phase' = phase PROVE SyncInv'
<1>1. /\ d \in watched => armed'
      /\ d \notin watched => disturbed'
      /\ armed' => phase = "watching"
  BY DEF Change, Arm, Watched, SyncInv, Begins
<1>2. QED
  BY <1>1, FollowsLater

LEMMA StartFollows ==
    ASSUME TypeOK, SyncInv, NEW p \in Syncs, Free(p), sync' = [sync EXCEPT ![p].pc = "stat"], phase' # "down",
           ~disturbed' => Running = {}, armed' => phase' = "watching"
    PROVE  SyncInv'
<1>1. sync[p] \in Sync /\ sync[p].pc = "idle" /\ sync[p].seen = {} /\ sync \in [Syncs -> Sync]
  BY DEF TypeOK, SyncInv, Begins, Free, Running
<1>2. sync'[p].pc = "stat" /\ sync'[p].seen = {}
  BY <1>1 DEF Sync
<1>3. \A q \in Syncs : q # p => sync'[q] = sync[q]
  BY <1>1
<1>4. Begins'
  BY <1>2, <1>3 DEF SyncInv, Begins
<1>5. Running = {} => Running' = {p}
  BY <1>2, <1>3 DEF Running
<1>6. QED
  BY <1>2, <1>4, <1>5 DEF SyncInv, Follows, Clear, Progress

\* A step of an undisturbed sync, which is alone.
LEMMA SyncFollows == ASSUME Inv, SyncInv, NEW p \in Syncs, SyncStep(p) PROVE SyncInv'
<1>1. /\ TypeOK /\ sync[p] \in Sync /\ row \in [Ids -> Row] /\ sync \in [Syncs -> Sync]
      /\ file \in [Files -> Content] /\ sync[p].pc # "idle" /\ p \in Running
      /\ \A q \in Syncs : q # p => sync'[q] = sync[q]
  BY DEF Inv, TypeOK, SyncStep, StatDir, Return, LoadMixins, ReadFile, WriteTemplate, ListTemplates, CountInstances, Deactivate,
         Remove, Finish, Running
<1>2. UNCHANGED <<file, mixfile, there, inst, call, armed>>
  BY DEF SyncStep, StatDir, Return, LoadMixins, ReadFile, WriteTemplate, ListTemplates, CountInstances, Deactivate,
         Remove, Finish, Others, disk
<1>3. (disturbed => disturbed') /\ phase # "down" /\ phase' # "down"
  <2>1. phase # "down"
    BY <1>1 DEF SyncInv, Begins
  <2>2. phase' = phase \/ phase' = "started"
    BY DEF SyncStep, StatDir, Return, LoadMixins, ReadFile, WriteTemplate, ListTemplates, CountInstances, Deactivate, Remove, Finish
  <2>3. disturbed => disturbed'
    BY DEF SyncStep, StatDir, Return, LoadMixins, ReadFile, WriteTemplate, ListTemplates, CountInstances, Deactivate, Remove, Finish,
           history
  <2>4. QED
    BY <2>1, <2>2, <2>3
\* What it suffices to show.
<1>4. /\ SyncsTyped'
      /\ \E r \in Sync : sync'[p] = r
  <2>1. TypeOK'
    BY SyncKeeps DEF Inv
  <2>2. sync' \in [Syncs -> Sync]
    BY <2>1 DEF TypeOK
  <2>3. QED
    BY <2>2 DEF SyncsTyped
<1>5. ASSUME sync'[p].pc \in {"idle", "stat", "load"} => sync'[p].seen = {} PROVE Begins'
  <2>1. phase = "watching" => phase' = "watching"
    BY DEF SyncStep, StatDir, Return, LoadMixins, ReadFile, WriteTemplate, ListTemplates, CountInstances, Deactivate, Remove, Finish
  <2>2. QED
    BY <1>1, <1>2, <1>3, <1>5, <2>1 DEF SyncInv, Begins
<1>6. ASSUME sync'[p].pc \notin {"idle"}, sync'[p].pc \in {"stat", "load"} => sync'[p].seen = {}, ~disturbed' /\ ~armed /\ "templates" \in there => Progress(p)' PROVE SyncInv'
  <2>1. Begins'
    BY <1>5, <1>6
  <2>2. ASSUME Clear' PROVE Running = {p} /\ Progress(p)'
    BY <1>1, <1>2, <1>3, <1>6, <2>2 DEF SyncInv, Follows, Clear
  <2>3. Running = {p} => Running' = {p}
    BY <1>1, <1>6 DEF Running
  <2>4. QED
    BY <2>1, <2>2, <2>3 DEF SyncInv, Follows
\* The files stay; the step finds the rows as far as its label says.
<1>7. All' = All /\ \A F : YamlIn(F)' = YamlIn(F) /\ LastIn(F)' = LastIn(F) /\ (Witnessed(F)' <=> Witnessed(F))
  BY <1>2, FilesSame
<1>8. ASSUME ~disturbed', ~armed, "templates" \in there PROVE Progress(p)
  BY <1>1, <1>3, <1>8 DEF SyncInv, Follows, Clear
<1>9. ASSUME row' = row, mixins' = mixins
      PROVE  (\A f : Held(f)' <=> Held(f)) /\ (\A i : (Stale(i)' <=> Stale(i)) /\ (Live(i)' <=> Live(i)))
             /\ \A c : Parse(c)' = Parse(c) /\ \A s : BySlug(s)' = BySlug(s)
  BY <1>2, <1>9 DEF Held, Stale, BySlug, Live, Parse, YamlIn
<1>10. CASE LoadMixins(p)
  <2>1. /\ sync' = [sync EXCEPT ![p] = [sync[p] EXCEPT !.pc = "file", !.files = All]] /\ sync[p].pc = "load"
        /\ mixins' = mixfile
    BY <1>1, <1>10 DEF LoadMixins, All
  <2>2. sync'[p].pc = "file" /\ sync'[p].files = All /\ sync'[p].seen = {}
    BY <1>1, <2>1 DEF Sync, SyncInv, Begins
  <2>3. Seen(p)' = {} /\ YamlIn({}) = {} /\ LastIn({}) = {}
    BY <1>7, <2>2 DEF Seen, YamlIn, LastIn
  <2>4. Reading(p)'
    BY <1>2, <1>7, <2>1, <2>2, <2>3 DEF Reading
  <2>5. AtFile(p)'
    BY <1>7, <2>3, <2>4 DEF AtFile, Witnessed
  <2>6. QED
    BY <1>6, <2>2, <2>5 DEF Progress
<1>11. CASE ReadFile(p)
  <2>1. sync[p].pc = "file" /\ row' = row /\ mixins' = mixins
    BY <1>11 DEF ReadFile
  <2>2. PICK f \in sync[p].files :
          /\ \A g \in sync[p].files : f <= g
          /\ \/ file[f].kind # "yaml" /\ sync' = [sync EXCEPT ![p].files = sync[p].files \ {f}]
             \/ /\ file[f].kind = "yaml"
                /\ \E i \in IF BySlug(file[f].slug) = {} THEN {0} ELSE BySlug(file[f].slug) :
                     sync' = [sync EXCEPT ![p].files = sync[p].files \ {f}, ![p].pc = "write",
                                          ![p].t = Parse(file[f]), ![p].id = i,
                                          ![p].seen = @ \cup {file[f].slug}]
    BY <1>11 DEF ReadFile
  <2>3. sync'[p].files = sync[p].files \ {f} /\ sync'[p].pc \in {"file", "write"}
    <3>1. CASE sync' = [sync EXCEPT ![p].files = sync[p].files \ {f}]
      BY <1>1, <2>1, <3>1 DEF Sync
    <3>2. ASSUME NEW i, sync' = [sync EXCEPT ![p].files = sync[p].files \ {f}, ![p].pc = "write",
                                             ![p].t = Parse(file[f]), ![p].id = i,
                                             ![p].seen = @ \cup {file[f].slug}]
          PROVE  sync'[p].files = sync[p].files \ {f} /\ sync'[p].pc = "write"
      BY <1>1, <3>2 DEF Sync
    <3>3. QED
      BY <2>2, <3>1, <3>2
  <2>4. SUFFICES ASSUME ~disturbed', ~armed, "templates" \in there PROVE Progress(p)'
    BY <1>6, <2>3
  <2>5. AtFile(p) /\ Reading(p)
    BY <1>8, <2>1, <2>4 DEF Progress, AtFile
  <2>6. f \in All /\ f \in Files /\ sync[p].files \subseteq Files /\ All \subseteq Files /\ f \notin Seen(p)
    BY <2>5 DEF Reading, All, Seen
  <2>7. Seen(p)' = Seen(p) \cup {f}
    BY <1>7, <2>3, <2>5, <2>6 DEF Seen, Reading
  <2>8. \A x \in Seen(p) : x < f
    BY <2>2, <2>5 DEF Reading
  <2>9. \A x \in Seen(p)', g \in sync'[p].files : x < g
    <3>1. ASSUME NEW g \in sync[p].files \ {f} PROVE f < g
      <4>1. f <= g /\ f # g
        BY <2>2, <3>1
      <4>2. f \in Nat /\ g \in Nat
        BY <2>6, <3>1, FilesAssumption
      <4>3. QED
        BY <4>1, <4>2
    <3>2. QED
      BY <2>3, <2>5, <2>7, <3>1 DEF Reading
  <2>10. CASE file[f].kind # "yaml"
    <3>1. YamlIn(Seen(p) \cup {f}) = YamlIn(Seen(p))
      BY <2>10 DEF YamlIn
    <3>2. LastIn(Seen(p) \cup {f}) = LastIn(Seen(p)) /\ (Witnessed(Seen(p) \cup {f}) <=> Witnessed(Seen(p)))
      BY <3>1 DEF LastIn, Witnessed
    <3>3. sync'[p].pc = "file" /\ sync'[p].seen = sync[p].seen
      <4>1. sync' = [sync EXCEPT ![p].files = sync[p].files \ {f}]
        BY <2>2, <2>10
      <4>2. QED
        BY <1>1, <2>1, <4>1 DEF Sync
    <3>4. Reading(p)'
      BY <1>2, <1>7, <2>1, <2>3, <2>5, <2>7, <2>9, <3>1, <3>3 DEF Reading
    <3>5. AtFile(p)'
      BY <1>7, <1>9, <2>1, <2>5, <2>7, <3>2, <3>4 DEF AtFile
    <3>6. QED
      BY <3>3, <3>5 DEF Progress
  <2>11. CASE file[f].kind = "yaml"
    <3>1. PICK i \in IF BySlug(file[f].slug) = {} THEN {0} ELSE BySlug(file[f].slug) :
            sync' = [sync EXCEPT ![p].files = sync[p].files \ {f}, ![p].pc = "write",
                                 ![p].t = Parse(file[f]), ![p].id = i,
                                 ![p].seen = @ \cup {file[f].slug}]
      BY <2>2, <2>11
    <3>2. PICK t : t = Parse(file[f])
      OBVIOUS
    <3>3. sync'[p].pc = "write" /\ sync'[p].t = t /\ sync'[p].id = i /\ sync'[p].seen = sync[p].seen \cup {file[f].slug}
      BY <1>1, <3>1, <3>2 DEF Sync
    <3>4. YamlIn(Seen(p) \cup {f}) = YamlIn(Seen(p)) \cup {f}
      BY <2>11 DEF YamlIn
    <3>5. Reading(p)'
      <4>1. \A x \in YamlIn(Seen(p))' : x \in YamlIn(Seen(p)) \/ x = f
        BY <1>7, <2>7, <3>4
      <4>2. YamlIn(Seen(p))' = YamlIn(Seen(p)) \cup {f}
        BY <1>7, <2>7, <3>4
      <4>3. sync'[p].seen = {file[x].slug : x \in YamlIn(Seen(p)) \cup {f}}
        BY <2>5, <3>3 DEF Reading
      <4>4. sync'[p].files \subseteq All'
        BY <1>7, <2>3, <2>5 DEF Reading
      <4>5. QED
        BY <1>2, <2>1, <2>5, <2>9, <4>2, <4>3, <4>4 DEF Reading
    <3>6. AtWrite(p)'
      <4>1. f \in YamlIn(Seen(p))' /\ Seen(p) \in SUBSET Seen(p)'
        BY <1>7, <2>7, <3>4
      <4>2. PICK s : s = Seen(p)
        OBVIOUS
      <4>3. Witnessed(s)' /\ \A x \in LastIn(s)' : Held(x)'
        BY <1>7, <1>9, <2>1, <2>5, <4>2 DEF AtFile
      <4>4. /\ sync'[p].t = Parse(file[f])'
            /\ sync'[p].id = 0 => BySlug(file[f].slug)' = {}
            /\ sync'[p].id # 0 => sync'[p].id \in BySlug(file[f].slug)'
        <5>1. PICK c : c = file[f]
          OBVIOUS
        <5>2. Parse(c)' = Parse(c) /\ BySlug(c.slug)' = BySlug(c.slug) /\ file'[f] = c
          BY <1>2, <1>9, <2>1, <5>1
        <5>3. i = 0 => BySlug(c.slug) = {}
          BY <5>1 DEF BySlug, Ids
        <5>4. i # 0 => i \in BySlug(c.slug)
          BY <5>1
        <5>5. QED
          BY <1>2, <3>2, <3>3, <5>1, <5>2, <5>3, <5>4
      <4>5. Seen(p)' = s \cup {f} /\ \A x \in s : x < f
        BY <2>7, <2>8, <4>2
      <4>6. QED
        BY <3>5, <4>1, <4>2, <4>3, <4>4, <4>5 DEF AtWrite
    <3>7. QED
      BY <3>3, <3>6 DEF Progress
  <2>12. QED
    BY <2>10, <2>11
<1>12. CASE WriteTemplate(p)
  <2>1. sync[p].pc = "write" /\ mixins' = mixins
    BY <1>12 DEF WriteTemplate
  <2>2. sync'[p].pc = "file" /\ sync'[p].files = sync[p].files /\ sync'[p].seen = sync[p].seen
    BY <1>1, <1>12 DEF WriteTemplate, Sync
  <2>3. SUFFICES ASSUME ~disturbed', ~armed, "templates" \in there PROVE Progress(p)'
    BY <1>6, <2>2
  <2>4. Reading(p) /\ AtWrite(p)
    BY <1>8, <2>1, <2>3 DEF Progress, AtWrite
  <2>5. PICK c \in YamlIn(Seen(p)), s \in SUBSET Seen(p) :
         /\ Seen(p) = s \cup {c} /\ \A f \in s : f < c
         /\ Witnessed(s) /\ \A f \in LastIn(s) : Held(f)
         /\ sync[p].t = Parse(file[c])
         /\ sync[p].id = 0 => BySlug(file[c].slug) = {}
         /\ sync[p].id # 0 => sync[p].id \in BySlug(file[c].slug)
    BY <2>4 DEF AtWrite
  <2>6. c \in Files /\ file[c].kind = "yaml" /\ s \subseteq Files
    BY <2>5 DEF YamlIn, Seen, All
  <2>7. Seen(p)' = Seen(p)
    BY <1>7, <2>2 DEF Seen
  <2>8. Reading(p)'
    BY <1>2, <1>7, <2>1, <2>2, <2>4, <2>7 DEF Reading
  <2>9. /\ Witnessed(Seen(p))
        /\ \A f \in LastIn(Seen(p)) \ {c} : f \in LastIn(s) /\ file[f].slug # file[c].slug
    <3>1. Witnessed(s \cup {c})
      BY <2>5, <2>6, AppendWitnessed
    <3>2. \A f \in LastIn(s \cup {c}) \ {c} : f \in LastIn(s) /\ file[f].slug # file[c].slug
      BY <2>5, <2>6, AppendLast
    <3>3. QED
      BY <2>5, <3>1, <3>2
  <2>10. PICK v, t : v = file[c].slug /\ t = Parse(file[c]) /\ t.slug = v
    <3>1. Parse(file[c]).slug = file[c].slug
      BY DEF Parse
    <3>2. QED
      BY <3>1
  <2>11. /\ \E i \in BySlug(v)' : row'[i].t = t
         /\ \A i \in Ids : Live(i) /\ row[i].t.slug # v => row'[i] = row[i]
    <3>1. CASE sync[p].id = 0
      <4>1. BySlug(v) = {}
        BY <2>5, <2>10, <3>1
      <4>2. PICK i \in Ids : Fresh(i) /\ row' = [row EXCEPT ![i] = [state |-> "live", t |-> t]]
        BY <1>12, <2>5, <2>10, <3>1, <4>1 DEF WriteTemplate, CreateTemplate
      <4>3. row'[i].state = "live" /\ row'[i].t = t /\ row[i].state = "unused"
            /\ \A k \in Ids : k # i => row'[k] = row[k]
        BY <1>1, <4>2 DEF Fresh
      <4>4. QED
        BY <2>10, <4>3 DEF BySlug, Live
    <3>2. CASE sync[p].id # 0
      <4>1. PICK i \in Ids : i = sync[p].id /\ Live(i) /\ row[i].t.slug = v
        BY <2>5, <2>10, <3>2 DEF BySlug
      <4>2. ~Taken(v, i)
        BY <1>1, <4>1 DEF Taken, BySlug, TypeOK
      <4>3. row' = [row EXCEPT ![i].t = t]
        BY <1>12, <2>5, <2>10, <3>2, <4>1, <4>2 DEF WriteTemplate, UpdateTemplate
      <4>4. row'[i] = [row[i] EXCEPT !.t = t] /\ row[i] \in Row /\ \A k \in Ids : k # i => row'[k] = row[k]
        BY <1>1, <4>3
      <4>5. row'[i].t = t /\ row'[i].state = row[i].state
        BY <4>4 DEF Row
      <4>6. QED
        BY <2>10, <4>1, <4>4, <4>5 DEF BySlug, Live
    <3>3. QED
      BY <3>1, <3>2
  <2>12. ASSUME NEW f \in LastIn(Seen(p)) PROVE Held(f)'
    <3>1. PICK w : w = Parse(file[f])
      OBVIOUS
    <3>2. Parse(file[f])' = w /\ file'[f] = file[f]
      BY <1>2, <2>1, <3>1 DEF Parse
    <3>3. CASE f = c
      BY <2>10, <2>11, <3>1, <3>2, <3>3 DEF Held
    <3>4. CASE f # c
      <4>1. PICK i \in Ids : Live(i) /\ row[i].t.slug = file[f].slug /\ row[i].t = w
        BY <2>5, <2>9, <3>1, <3>4 DEF Held, BySlug
      <4>2. row'[i] = row[i]
        BY <2>9, <2>10, <2>11, <3>4, <4>1
      <4>3. QED
        BY <3>2, <4>1, <4>2 DEF Held, BySlug, Live
    <3>5. QED
      BY <3>3, <3>4
  <2>13. AtFile(p)'
    BY <1>7, <2>7, <2>8, <2>9, <2>12 DEF AtFile
  <2>14. QED
    BY <2>2, <2>13 DEF Progress
<1>13. CASE ListTemplates(p)
  <2>1. /\ sync[p].pc = "file" /\ sync[p].files = {} /\ row' = row /\ mixins' = mixins
        /\ sync' = [sync EXCEPT ![p].pc = "clean", ![p].seen = {},
                                ![p].todo = {[id |-> i, active |-> row[i].t.active] :
                                               i \in {k \in Ids : Live(k) /\ row[k].t.slug \notin sync[p].seen}}]
    BY <1>13 DEF ListTemplates
  <2>2. PICK d : d = {[id |-> i, active |-> row[i].t.active] :
                        i \in {k \in Ids : Live(k) /\ row[k].t.slug \notin sync[p].seen}}
    OBVIOUS
  <2>3. sync'[p].pc = "clean" /\ sync'[p].todo = d
    BY <1>1, <2>1, <2>2 DEF Sync
  <2>4. SUFFICES ASSUME ~disturbed', ~armed, "templates" \in there PROVE Progress(p)'
    BY <1>6, <2>3
  <2>5. AtFile(p) /\ Seen(p) = All
    BY <1>8, <2>1, <2>4 DEF Progress, Seen
  <2>6. \A i : Stale(i) <=> row[i].t.slug \notin sync[p].seen
    BY <2>5, SeenFiles DEF AtFile, Reading, Stale
  <2>7. mixins' = mixfile' /\ Witnessed(Files)' /\ \A f \in LastIn(Files)' : Held(f)'
    BY <1>2, <1>7, <1>9, <2>1, <2>5, SeenFiles DEF AtFile, Reading
  <2>8. \A e \in d : Live(e.id) => Stale(e.id)
    BY <2>2, <2>6
  <2>9. \A i \in Ids : Live(i) /\ row[i].t.active /\ Stale(i) => [id |-> i, active |-> TRUE] \in d
    <3>1. ASSUME NEW i \in Ids, Live(i), row[i].t.active, Stale(i) PROVE [id |-> i, active |-> TRUE] \in d
      <4>1. row[i].t.active = TRUE
        BY <1>1, <3>1 DEF Row, Parsed
      <4>2. [id |-> i, active |-> row[i].t.active] \in d
        BY <2>2, <2>6, <3>1
      <4>3. QED
        BY <4>1, <4>2
    <3>2. QED
      BY <3>1
  <2>10. AtClean(p)'
    BY <1>9, <2>1, <2>3, <2>7, <2>8, <2>9 DEF AtClean
  <2>11. QED
    BY <2>3, <2>10 DEF Progress
<1>14. ASSUME NEW e \in Listed, CountInstances(p, e) PROVE SyncInv'
  <2>1. PICK next, c :
          /\ sync' = [sync EXCEPT ![p].todo = @ \ {e}, ![p].pc = next, ![p].cur = c]
          /\ next = IF ~Used(e.id) THEN "delete" ELSE IF e.active THEN "deactivate" ELSE "clean"
          /\ c = IF next = "clean" THEN NoListed ELSE e
    BY <1>14 DEF CountInstances
  <2>2. sync[p].pc = "clean" /\ e \in sync[p].todo /\ row' = row /\ mixins' = mixins
    BY <1>14 DEF CountInstances
  <2>3. sync'[p].pc = next /\ sync'[p].todo = sync[p].todo \ {e} /\ sync'[p].cur = c
    BY <1>1, <2>1 DEF Sync
  <2>4. SUFFICES ASSUME ~disturbed', ~armed, "templates" \in there PROVE Progress(p)'
    BY <1>6, <2>1, <2>3
  <2>5. AtClean(p)
    BY <1>8, <2>2, <2>4 DEF Progress
  <2>6. mixins' = mixfile' /\ Witnessed(Files)' /\ \A f \in LastIn(Files)' : Held(f)'
    BY <1>2, <1>7, <1>9, <2>2, <2>5 DEF AtClean
  <2>7. /\ \A x \in sync'[p].todo : Live(x.id) => Stale(x.id)
        /\ sync'[p].pc # "clean" /\ Live(sync'[p].cur.id) => Stale(sync'[p].cur.id)
    BY <2>1, <2>2, <2>3, <2>5 DEF AtClean
  <2>8. ASSUME NEW i \in Ids, Live(i), row[i].t.active, Stale(i)
        PROVE  \/ [id |-> i, active |-> TRUE] \in sync'[p].todo
               \/ sync'[p].pc # "clean" /\ sync'[p].cur.id = i
    <3>1. [id |-> i, active |-> TRUE] \in sync[p].todo
      BY <2>2, <2>5, <2>8 DEF AtClean
    <3>2. CASE e = [id |-> i, active |-> TRUE]
      <4>1. e.id = i /\ e.active
        BY <3>2
      <4>2. next # "clean"
        BY <2>1, <4>1
      <4>3. c = e
        BY <2>1, <4>2
      <4>4. QED
        BY <2>3, <4>1, <4>2, <4>3
    <3>3. CASE e # [id |-> i, active |-> TRUE]
      BY <2>3, <3>1, <3>3
    <3>4. QED
      BY <3>2, <3>3
  <2>9. AtClean(p)'
    BY <1>9, <2>2, <2>6, <2>7, <2>8 DEF AtClean
  <2>10. QED
    BY <2>1, <2>3, <2>9 DEF Progress
<1>15. CASE Deactivate(p) \/ Remove(p)
  <2>1. PICK k \in Ids : k = sync[p].cur.id
    BY <1>1 DEF Sync, Listed
  <2>2. sync[p].pc \in {"deactivate", "delete"} /\ mixins' = mixins
    BY <1>15 DEF Deactivate, Remove
  <2>3. sync'[p].pc = "clean" /\ sync'[p].todo = sync[p].todo
    BY <1>1, <1>15 DEF Deactivate, Remove, Sync
  <2>4. SUFFICES ASSUME ~disturbed', ~armed, "templates" \in there PROVE Progress(p)'
    BY <1>6, <2>3
  <2>5. AtClean(p) /\ (Live(k) => Stale(k))
    BY <1>8, <2>1, <2>2, <2>4 DEF Progress, AtClean
  <2>6. /\ \A i \in Ids : i # k => row'[i] = row[i]
        /\ Live(k)' => ~row'[k].t.active /\ Live(k) /\ row'[k].t.slug = row[k].t.slug
    <3>1. CASE Deactivate(p)
      <4>1. \/ row' = row /\ ~Live(k)
            \/ Live(k) /\ row' = [row EXCEPT ![k].t.active = FALSE]
        BY <2>1, <3>1 DEF Deactivate, DeactivateTemplate
      <4>2. CASE row' = row /\ ~Live(k)
        BY <4>2 DEF Live
      <4>3. CASE Live(k) /\ row' = [row EXCEPT ![k].t.active = FALSE]
        <5>1. row[k] \in Row /\ row[k].t \in Parsed
          BY <1>1 DEF Row
        <5>2. /\ [row[k].t EXCEPT !.active = FALSE].slug = row[k].t.slug
              /\ [row[k].t EXCEPT !.active = FALSE].active = FALSE
          BY <5>1 DEF Parsed
        <5>3. row'[k] = [row[k] EXCEPT !.t = [row[k].t EXCEPT !.active = FALSE]]
              /\ \A i \in Ids : i # k => row'[i] = row[i]
          BY <1>1, <4>3
        <5>4. row'[k].t = [row[k].t EXCEPT !.active = FALSE]
          BY <5>1, <5>3 DEF Row
        <5>5. QED
          BY <4>3, <5>2, <5>3, <5>4
      <4>4. QED
        BY <4>1, <4>2, <4>3
    <3>2. CASE Remove(p)
      <4>1. ~Used(k)
        BY <2>1, <2>4, <3>2 DEF Remove
      <4>2. (row' = row /\ ~Live(k)) \/ row' = [row EXCEPT ![k] = Gone]
        BY <2>1, <3>2, <4>1 DEF Remove, DeleteTemplate
      <4>3. QED
        BY <1>1, <4>2 DEF Live, Gone
    <3>3. QED
      BY <1>15, <3>1, <3>2
  <2>7. \A i \in Ids : /\ Live(i)' => Live(i) /\ row'[i].t.slug = row[i].t.slug
                       /\ Live(i)' /\ row'[i].t.active => i # k /\ row[i].t.active
    BY <2>6 DEF Live
  <2>8. \A i \in Ids : Live(i)' => (Stale(i)' <=> Stale(i))
    BY <1>2, <1>7, <2>7 DEF Stale
  <2>9. ASSUME NEW f \in LastIn(Files) PROVE Held(f)'
    <3>1. PICK i \in Ids : Live(i) /\ row[i].t.slug = file[f].slug /\ row[i].t = Parse(file[f])
      BY <2>5 DEF AtClean, Held, BySlug
    <3>2. i # k
      BY <2>5, <3>1 DEF Stale, LastIn
    <3>3. row'[i] = row[i]
      BY <2>6, <3>2
    <3>4. Parse(file[f])' = Parse(file[f]) /\ file'[f] = file[f]
      BY <1>2, <2>2 DEF Parse
    <3>5. QED
      BY <3>1, <3>3, <3>4 DEF Held, BySlug, Live
  <2>10. \A e \in sync'[p].todo : Live(e.id)' => Stale(e.id)'
    <3>1. \A e \in sync'[p].todo : e.id \in Ids /\ (Live(e.id) => Stale(e.id))
      BY <1>1, <2>3, <2>5 DEF AtClean, Sync, Listed
    <3>2. QED
      BY <2>7, <2>8, <3>1
  <2>11. \A i \in Ids : Live(i)' /\ row'[i].t.active /\ Stale(i)' => [id |-> i, active |-> TRUE] \in sync'[p].todo
    BY <2>1, <2>3, <2>5, <2>7, <2>8 DEF AtClean
  <2>12. mixins' = mixfile' /\ Witnessed(Files)' /\ \A f \in LastIn(Files)' : Held(f)'
    BY <1>2, <1>7, <2>2, <2>5, <2>9 DEF AtClean
  <2>13. AtClean(p)'
    BY <2>3, <2>10, <2>11, <2>12 DEF AtClean
  <2>14. QED
    BY <2>3, <2>13 DEF Progress
<1>16. CASE Finish(p)
  <2>1. sync[p].pc = "clean" /\ sync[p].todo = {} /\ row' = row /\ mixins' = mixins /\ sync'[p] = IdleSync
    BY <1>1, <1>16 DEF Finish, Return
  <2>2. sync'[p].pc = "idle" /\ sync'[p].seen = {}
    BY <2>1 DEF IdleSync
  <2>3. Begins'
    BY <1>5, <2>2
  <2>4. ASSUME Clear' PROVE Running' = {} /\ Followed'
    <3>1. Clear /\ Running = {p}
      BY <1>1, <1>2, <1>3, <2>4 DEF Clear, SyncInv, Follows
    <3>2. Running' = {}
      BY <1>1, <2>2, <3>1 DEF Running
    <3>3. AtClean(p)
      BY <1>8, <2>1, <2>4, <3>1 DEF Clear, Progress
    <3>4. \A i \in Ids : Live(i) /\ row[i].t.active => ~Stale(i)
      BY <2>1, <3>3 DEF AtClean
    <3>5. \A i \in Ids : Live(i) /\ row[i].t.active => \E f \in LastIn(Files) : file[f].slug = row[i].t.slug
      BY <3>3, <3>4 DEF AtClean, Stale, Witnessed
    <3>6. Followed
      BY <3>3, <3>5 DEF Followed, AtClean
    <3>7. Followed'
      BY <1>2, <1>7, <1>9, <2>1, <3>6 DEF Followed
    <3>8. QED
      BY <3>2, <3>7
  <2>5. QED
    BY <2>3, <2>4 DEF SyncInv, Follows
\* Without the directory there is nothing to follow; with it the sync begins.
<1>18. CASE StatDir(p)
  <2>1. CASE "templates" \in there
    <3>1. sync' = [sync EXCEPT ![p].pc = "load"] /\ sync[p].pc = "stat"
      BY <1>18, <2>1 DEF StatDir
    <3>2. sync'[p].pc = "load" /\ sync'[p].seen = {}
      BY <1>1, <3>1 DEF Sync, SyncInv, Begins
    <3>3. QED
      BY <1>6, <3>2 DEF Progress
  <2>2. CASE "templates" \notin there
    <3>1. sync'[p] = IdleSync
      BY <1>1, <1>18, <2>2 DEF StatDir, Return
    <3>2. Begins'
      BY <1>5, <3>1 DEF IdleSync
    <3>3. ~Clear'
      BY <1>2, <2>2 DEF Clear
    <3>4. QED
      BY <3>2, <3>3 DEF SyncInv, Follows
  <2>3. QED
    BY <2>1, <2>2
<1>17. QED
  BY <1>10, <1>11, <1>12, <1>13, <1>14, <1>15, <1>16, <1>18 DEF SyncStep

LEMMA SyncInvNext == Inv /\ SyncInv /\ [Next]_vars => SyncInv'
<1> SUFFICES ASSUME Inv, SyncInv, [Next]_vars PROVE SyncInv'
  OBVIOUS
<1>1. TypeOK /\ Watched
  BY DEF Inv
<1>2. CASE Disk
  <2>1. /\ UNCHANGED <<mixins, row, sync, phase>>
        /\ \/ \E d \in Dirs : Change(d)
           \/ Unseen
           \/ /\ UNCHANGED <<file, mixfile, armed, disturbed>>
              /\ there' = there \cup {"mixins"}
    BY <1>2, DiskEffects DEF Inv, TypeOK, DiskTyped
  <2>2. CASE Unseen
    BY <2>1, <2>2, FollowsLater DEF Unseen, SyncInv, Begins
  <2>3. CASE UNCHANGED <<file, mixfile, armed, disturbed>> /\ there' = there \cup {"mixins"}
    BY <2>1, <2>3, FollowsSame
  <2>4. QED
    BY <1>1, <2>1, <2>2, <2>3, ChangeFollows
<1>3. CASE Admin
  <2>1. CASE Api
    BY <2>1, FollowsLater DEF Api, Edit, SyncInv, Begins
  <2>2. CASE \E i \in Ids : SaveToDisk(i) \/ ReloadFromDisk(i)
    BY <2>2, FollowsSame DEF SaveToDisk, ReloadFromDisk, disk
  <2>3. QED
    BY <1>3, <2>1, <2>2 DEF Admin, Create, ImportYAML, Update, UpdateFromYAML, Delete, DuplicateTemplate
<1>4. CASE User
  BY <1>4, FollowsSame DEF User, GetTemplate, CreateInstance, DeleteInstance, disk, history
<1>5. CASE Crash
  BY <1>5 DEF Crash, SyncInv, Begins, Follows, Clear, Running, IdleSync
<1>6. ASSUME NEW p \in Syncs, Boot(p) PROVE SyncInv'
  BY <1>1, <1>6, StartFollows DEF Boot, SyncInv, Begins
<1>7. ASSUME NEW p \in Syncs, Fire(p) PROVE SyncInv'
  <2>1. (Running # {} => disturbed') /\ armed /\ ~armed' /\ phase' = phase
    BY <1>7 DEF Fire
  <2>2. phase = "watching"
    BY <2>1 DEF SyncInv, Begins
  <2>3. QED
    BY <1>1, <1>7, <2>1, <2>2, StartFollows DEF Fire
<1>8. ASSUME NEW p \in Syncs, SyncStep(p) PROVE SyncInv'
  BY <1>8, SyncFollows
<1>9. CASE WatchDir
  BY <1>9, FollowsSame DEF WatchDir, disk, history
<1>10. CASE CallStep
  <2>1. CASE ExportYAML
    <3>1. CASE Change("templates")
      BY <1>1, <2>1, <3>1, ChangeFollows DEF ExportYAML
    <3>2. CASE UNCHANGED <<file, armed, dirty, disturbed>>
      BY <2>1, <3>2, FollowsSame DEF ExportYAML
    <3>3. QED
      BY <2>1, <3>1, <3>2 DEF ExportYAML
  <2>2. CASE WriteFile
    <3>1. CASE Change("templates")
      BY <1>1, <2>2, <3>1, ChangeFollows DEF WriteFile
    <3>2. CASE UNCHANGED <<file, armed, dirty, disturbed>>
      BY <2>2, <3>2, FollowsSame DEF WriteFile
    <3>3. QED
      BY <2>2, <3>1, <3>2 DEF WriteFile
  <2>3. CASE ReadYAML
    BY <2>3, FollowsSame DEF ReadYAML, disk, history
  <2>4. CASE UpdateReloaded
    BY <2>4, FollowsLater DEF UpdateReloaded, SyncInv, Begins
  <2>5. QED
    BY <1>10, <2>1, <2>2, <2>3, <2>4 DEF CallStep
<1>11. CASE Quiet \/ UNCHANGED vars
  BY <1>11, FollowsSame DEF Quiet, vars
<1>12. QED
  BY <1>2, <1>3, <1>4, <1>5, <1>6, <1>7, <1>8, <1>9, <1>10, <1>11 DEF Next

LEMMA InitSync == Init => SyncInv
BY DEF Init, SyncInv, Begins, Follows, Clear, Running, IdleSync

\* After SyncFromDir, and as long as nothing disturbs them, the rows are those
\* of the files: whatever was edited, deactivated or deleted before.
THEOREM RowsFollow == Spec => []RowsFollowFiles
<1>1. SyncInv => RowsFollowFiles
  <2>1. SUFFICES ASSUME SyncInv, Settled PROVE Followed /\ Deciding = LastIn(Files)
    BY DEF RowsFollowFiles, Followed, Held
  <2>2. Followed
    BY <2>1 DEF Settled, SyncInv, Follows, Clear
  <2>3. Deciding = LastIn(Files)
    BY DEF Deciding, LastIn, YamlIn
  <2>4. QED
    BY <2>2, <2>3
<1>2. Spec => []SyncInv
  BY SpecInv, InitSync, SyncInvNext, PTL DEF Spec
<1>3. QED
  BY <1>1, <1>2, PTL
=============================================================================
