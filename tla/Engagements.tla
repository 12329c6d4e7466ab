------------------------------ MODULE Engagements ------------------------------
(***************************************************************************)
(* The engagements of The Void (engagement.py and EngagementDialog of      *)
(* darkos-terminal.py): a directory and a record each, which the windows,  *)
(* processes of their own, create, list, take as their engagement and give *)
(* new targets.                                                            *)
(***************************************************************************)
EXTENDS Naturals, FiniteSets

CONSTANTS
    VoidWindows, Slugs,  \* windows; directories, which several names may share
    MaxStamps            \* bound: engagements created and targets set

ASSUME EngagementsConstants == MaxStamps \in Nat

VARIABLES
    record,      \* engagement.json of each directory: its creation and its target
    myEngagement,\* of each window: none, or the directory with a copy of the record
    dialogRows,  \* of each window: the copies its dialog lists
    inDialog,    \* the windows whose dialog is there
    creating,    \* of each window: what it is about to write
    stamps,      \* creations and targets are numbered
    created,     \* history: what a window was told it created
    contested    \* history: directories two windows were creating at a time

engagementVars == <<record, myEngagement, dialogRows, inDialog, creating, stamps, created, contested>>

NoRecord == [made |-> 0, target |-> 0]
Records == [made : 0..MaxStamps, target : 0..MaxStamps]
Copies == [slug : Slugs, made : 0..MaxStamps, target : 0..MaxStamps]

EngagementsTypeOK ==
    /\ record \in [Slugs -> Records] /\ inDialog \subseteq VoidWindows /\ contested \subseteq Slugs
    /\ \A v \in VoidWindows :
           /\ myEngagement[v] \subseteq Copies /\ Cardinality(myEngagement[v]) <= 1
           /\ creating[v] \subseteq Copies /\ Cardinality(creating[v]) <= 1
           /\ dialogRows[v] \subseteq Copies
    /\ stamps \in 0..MaxStamps /\ created \subseteq [slug : Slugs, made : 1..MaxStamps]

EngagementsInit ==
    /\ record = [s \in Slugs |-> NoRecord] /\ inDialog = {} /\ contested = {}
    /\ myEngagement = [v \in VoidWindows |-> {}] /\ creating = [v \in VoidWindows |-> {}]
    /\ dialogRows = [v \in VoidWindows |-> {}] /\ stamps = 0 /\ created = {}

-----------------------------------------------------------------------------
Exists(s) == record[s] # NoRecord

\* list_engagements.
Listing(rec) ==
    {[slug |-> s, made |-> rec[s].made, target |-> rec[s].target] : s \in {t \in Slugs : rec[t] # NoRecord}}

DialogRefreshes(v) == dialogRows' = [dialogRows EXCEPT ![v] = Listing(record')]

Quiet(v) == creating[v] = {}

OpensEngagements(v) ==
    /\ v \notin inDialog /\ inDialog' = inDialog \cup {v}
    /\ UNCHANGED record /\ DialogRefreshes(v)
    /\ UNCHANGED <<myEngagement, creating, stamps, created, contested>>

\* Its Close button only ends run(): the dialog stays, and works, until it is
\* closed as a window.
DialogDestroyed(v) ==
    /\ v \in inDialog /\ Quiet(v) /\ inDialog' = inDialog \ {v}
    /\ UNCHANGED <<record, myEngagement, dialogRows, creating, stamps, created, contested>>

\* A row has the copy it was listed with.
RowActivated(v, row) ==
    /\ v \in inDialog /\ Quiet(v) /\ row \in dialogRows[v]
    /\ myEngagement' = [myEngagement EXCEPT ![v] = {row}]
    /\ UNCHANGED record /\ DialogRefreshes(v)
    /\ UNCHANGED <<inDialog, creating, stamps, created, contested>>

EngagementCleared(v) ==
    /\ v \in inDialog /\ Quiet(v) /\ myEngagement' = [myEngagement EXCEPT ![v] = {}]
    /\ UNCHANGED record /\ DialogRefreshes(v)
    /\ UNCHANGED <<inDialog, creating, stamps, created, contested>>

\* Seeded bug: the directories are made with exist_ok, and so is the record.
MayReplace(s) == TRUE

NotThere(s) == ~Exists(s)

\* create_engagement up to its look at the record.
CreateLooks(v, s) ==
    /\ v \in inDialog /\ Quiet(v) /\ stamps < MaxStamps /\ NotThere(s) /\ stamps' = stamps + 1
    /\ creating' = [creating EXCEPT ![v] = {[slug |-> s, made |-> stamps', target |-> stamps']}]
    /\ contested' = IF \E w \in VoidWindows : \E c \in creating[w] : c.slug = s
                    THEN contested \cup {s} ELSE contested
    /\ UNCHANGED <<record, myEngagement, dialogRows, inDialog, created>>

\* The rest of it, and _on_create; the window may be gone before, and the
\* record may not be written.
CreateWrites(v) ==
    \E c \in creating[v] :
        /\ creating' = [creating EXCEPT ![v] = {}]
        /\ \/ /\ record' = [record EXCEPT ![c.slug] = [made |-> c.made, target |-> c.target]]
              /\ myEngagement' = [myEngagement EXCEPT ![v] = {c}] /\ DialogRefreshes(v)
              /\ created' = created \cup {[slug |-> c.slug, made |-> c.made]}
           \/ UNCHANGED <<record, myEngagement, dialogRows, created>>
        /\ UNCHANGED <<inDialog, stamps, contested>>

\* update_target changes the copy, then writes it over the record.
TargetUpdated(v) ==
    \E c \in myEngagement[v] :
        /\ v \notin inDialog /\ stamps < MaxStamps /\ stamps' = stamps + 1
        /\ myEngagement' = [myEngagement EXCEPT ![v] = {[c EXCEPT !.target = stamps']}]
        /\ \/ record' = [record EXCEPT ![c.slug] = [made |-> c.made, target |-> stamps']]
           \/ UNCHANGED record
        /\ UNCHANGED <<dialogRows, inDialog, creating, created, contested>>

EngagementsNext ==
    \E v \in VoidWindows :
        \/ OpensEngagements(v) \/ DialogDestroyed(v) \/ EngagementCleared(v)
        \/ \E row \in dialogRows[v] : RowActivated(v, row)
        \/ \E s \in Slugs : CreateLooks(v, s)
        \/ CreateWrites(v) \/ TargetUpdated(v)

EngagementsSpec == EngagementsInit /\ [][EngagementsNext]_engagementVars

-----------------------------------------------------------------------------
\* "This never silently overwrites an existing engagement's metadata": a record a
\* window was told it created stays that one, whatever names share its
\* directory and whatever targets are set from copies of it, unless two windows
\* were creating it at a time.
MetadataKept ==
    \A e \in created : e.slug \notin contested => record[e.slug].made = e.made
=============================================================================
