------------------------------- MODULE Netwatch -------------------------------
(***************************************************************************)
(* The network sampler (darkos-netwatch.py), which publishes who talks to  *)
(* whom and marks what was never seen before, and the Activity tab of the  *)
(* Network Center (darkos-network.py), which shows what is published.      *)
(*                                                                         *)
(* A talk is a <<process, destination>>; a socket that has no process any  *)
(* more when /proc is walked belongs to "unknown".                         *)
(***************************************************************************)
EXTENDS Naturals, FiniteSets, Functions

CONSTANTS
    Processes, Destinations,
    MaxAge,       \* HISTORY_MAX_AGE_DAYS
    MaxEntries,   \* HISTORY_MAX_ENTRIES_PER_PROCESS
    Stale,        \* NETWATCH_STALE_SECONDS, in the unit of the clock
    MaxDays,      \* bound
    MaxMishaps    \* bound: kills and writes that fail

ASSUME NetwatchConstants ==
    /\ "unknown" \in Processes /\ MaxEntries \in Nat \ {0}
    /\ MaxAge \in Nat /\ Stale \in Nat /\ MaxDays \in Nat \ {0} /\ MaxMishaps \in Nat

VARIABLES
    day,
    memory,       \* history: last_seen of each talk
    historyFile,  \* netwatch-history.json
    published,    \* network-activity.json: sampled_at, and the talks, first ones apart
    sample,       \* where main's loop is, and the snapshot it has taken
    activity,     \* what the tab says of the snapshot it shows
    mishaps,
    announced,    \* history: talks that a published snapshot marked as first
    missed        \* history: talks first seen in a snapshot that could not be written

netwatchVars == <<day, memory, historyFile, published, sample, activity, mishaps, announced, missed>>

Talks == Processes \X Destinations
Histories == UNION {[S -> 1..MaxDays] : S \in SUBSET Talks}
NoHistory == [t \in {} |-> 1]
Empty == [at |-> 0, talks |-> {}, first |-> {}]
NetwatchStep == [at : 0..MaxDays, talks : SUBSET Talks, first : SUBSET Talks]

NetwatchTypeOK ==
    /\ day \in 1..MaxDays /\ memory \in Histories /\ historyFile \in Histories
    /\ published \in NetwatchStep /\ sample.snapshot \in NetwatchStep
    /\ sample.step \in {"idle", "publish", "keep", "down"}
    /\ activity \in {"no snapshot", "fresh", "stale"}
    /\ mishaps \in 0..MaxMishaps /\ announced \subseteq Talks /\ missed \subseteq Talks

NetwatchInit ==
    /\ day = 1 /\ memory = NoHistory /\ historyFile = NoHistory
    /\ published = Empty /\ sample = [step |-> "idle", snapshot |-> Empty]
    /\ activity = "no snapshot"
    /\ mishaps = 0 /\ announced = {} /\ missed = {}

SampleAt(step) == sample.step = step
Mishap == mishaps < MaxMishaps /\ mishaps' = mishaps + 1

DayPasses ==
    /\ day < MaxDays /\ day' = day + 1
    /\ UNCHANGED <<memory, historyFile, published, sample, activity, mishaps, announced, missed>>

\* The entries of h that are recent, at most MaxEntries for each process, and
\* the latest of them; which of two equally old ones goes is left open.
Pruned(h) ==
    LET recent == {t \in DOMAIN h : h[t] + MaxAge >= day}
        Of(p, S) == {t \in S : t[1] = p}
        Kept(S) == \A p \in Processes :
            /\ Cardinality(Of(p, S)) =
                   IF Cardinality(Of(p, recent)) > MaxEntries THEN MaxEntries
                   ELSE Cardinality(Of(p, recent))
            /\ \A t \in Of(p, S), u \in Of(p, recent \ S) : h[t] >= h[u]
    IN {Restrict(h, S) : S \in {R \in SUBSET recent : Kept(R)}}

\* sample_once: T is what /proc has, a name for every socket where there is
\* one.  The history changes in place.
TakesSample(T) ==
    /\ SampleAt("idle")
    /\ LET h == [t \in DOMAIN memory \cup T |-> IF t \in T THEN day ELSE memory[t]]
       IN memory' \in Pruned(h)
    /\ sample' = [step |-> "publish",
                  snapshot |-> [at |-> day, talks |-> T, first |-> T \ DOMAIN memory]]
    /\ UNCHANGED <<day, historyFile, published, activity, mishaps, announced, missed>>

\* Seeded bug: the history is kept before the snapshot is published.
HistoryBeforeSnapshot == <<"keep", "publish">>

SnapshotFirst == <<"publish", "keep">>

Publishes ==
    /\ published' = sample.snapshot /\ announced' = announced \cup sample.snapshot.first
    /\ UNCHANGED historyFile

Keeps == historyFile' = memory /\ UNCHANGED <<published, announced>>

\* Each of the two writes: atomic, or it fails and the rest of the sample with
\* it, or the service is killed.
Writes ==
    /\ SampleAt("publish") \/ SampleAt("keep")
    /\ \/ /\ IF SnapshotFirst[IF SampleAt("publish") THEN 1 ELSE 2] = "publish" THEN Publishes ELSE Keeps
          /\ sample' = IF SampleAt("publish") THEN [sample EXCEPT !.step = "keep"]
                       ELSE [step |-> "idle", snapshot |-> Empty]
          /\ UNCHANGED <<mishaps, missed>>
       \/ /\ Mishap /\ sample' = [step |-> "idle", snapshot |-> Empty]
          /\ missed' = IF SampleAt("publish") THEN missed \cup sample.snapshot.first ELSE missed
          /\ UNCHANGED <<historyFile, published, announced>>
    /\ UNCHANGED <<day, memory, activity>>

\* Killed, or a power cut, after which the file may be empty (neither write is
\* synced) ...
NetwatchDies ==
    /\ ~SampleAt("down") /\ Mishap /\ sample' = [step |-> "down", snapshot |-> Empty]
    /\ memory' = NoHistory
    /\ historyFile' \in {historyFile, NoHistory}
    /\ UNCHANGED <<day, published, activity, announced, missed>>

\* ... and _load_history makes of an empty or missing file an empty history.
NetwatchStarts ==
    /\ SampleAt("down") /\ sample' = [step |-> "idle", snapshot |-> Empty] /\ memory' = historyFile
    /\ UNCHANGED <<day, historyFile, published, activity, mishaps, announced, missed>>

\* _refresh_activity, every five seconds: first-time destinations on top.
RefreshActivity ==
    /\ activity' =
           IF published.at = 0 THEN "no snapshot"
           ELSE IF day - published.at > Stale THEN "stale" ELSE "fresh"
    /\ UNCHANGED <<day, memory, historyFile, published, sample, mishaps, announced, missed>>

NetwatchNext ==
    \/ DayPasses \/ Writes \/ NetwatchDies \/ NetwatchStarts \/ RefreshActivity
    \/ \E T \in SUBSET Talks : TakesSample(T)

NetwatchSpec == NetwatchInit /\ [][NetwatchNext]_netwatchVars

-----------------------------------------------------------------------------
\* The history never takes a destination as known that nobody was shown: what
\* it holds was once published as seen for the first time, whenever the service
\* was killed between its two files, except what was first seen in a sample
\* whose snapshot could not be written.
KnownWasAnnounced == DOMAIN historyFile \subseteq announced \cup missed
=============================================================================
