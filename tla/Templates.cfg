\* Two templates, two files and one instance; two reloads may overlap.
SPECIFICATION Spec
CONSTANTS
    Slugs = {sa, sb}
    sa = sa
    sb = sb
    Blank = Blank
    Starts = {{}, {"templates"}}
    Present = {sa}
    Files = {1, 2}
    FileOf <- MCFileOf
    Editions = {0, 1}
    MaxId = 8
    MaxSaved = 1
    Insts = {x1}
    Syncs = {1, 2}
    MaxEdits = 1
    MaxEvents = 3
INVARIANTS TypeOK  ChangeIsPending
