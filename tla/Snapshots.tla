------------------------------ MODULE Snapshots ------------------------------
(***************************************************************************)
(* Btrfs snapshots (darkos-snapshot.py): --take on a timer or by hand, of  *)
(* one subvolume after the other, with pruning; --restore, which stages a  *)
(* writable copy; and the snapshots that the assistant's helper            *)
(* (darkos-ai-snapshot) puts into the same directory of the root.          *)
(*                                                                         *)
(* A name is <<series, second>>: "darkos-ai-..." sorts after any digits.   *)
(***************************************************************************)
EXTENDS Integers, Sequences, FiniteSets, SequencesExt

CONSTANTS
    Takers,       \* runs of --take
    Retention,    \* SNAPSHOT_RETENTION
    MaxSeconds,   \* bound
    MaxAi,        \* bound: snapshots of the assistant
    MaxRefusals   \* bound: commands btrfs refuses

ASSUME SnapshotsConstants ==
    /\ Retention \in Nat \ {0} /\ MaxSeconds \in Nat \ {0}
    /\ MaxAi \in Nat /\ MaxRefusals \in Nat

SUBVOLUMES == <<"root", "home">>
Subvolumes == {"root", "home"}

VARIABLES
    second,          \* the clock
    snaps,           \* the read-only snapshots of each subvolume
    stagedSnapshot,  \* those with a "-restored" copy
    taker,           \* each run: the subvolumes it has left, and what it will prune
    ai, refusals,
    seen             \* history: every snapshot there was

snapVars == <<second, snaps, stagedSnapshot, taker, ai, refusals, seen>>

Names == {"timed", "ai"} \X (1..MaxSeconds)
Timed(S) == {s \in S : s[1] = "timed"}
Idler == [left |-> <<>>, doomed |-> <<>>]

SnapshotsTypeOK ==
    /\ second \in 1..MaxSeconds /\ ai \in 0..MaxAi /\ refusals \in 0..MaxRefusals
    /\ snaps \in [Subvolumes -> SUBSET Names] /\ seen \in [Subvolumes -> SUBSET Names]
    /\ stagedSnapshot \in [Subvolumes -> SUBSET Names]
    /\ taker \in [Takers -> [left : {<<>>, <<"home">>, SUBVOLUMES}, doomed : Seq(Names)]]

SnapshotsInit ==
    /\ second = 1 /\ ai = 0 /\ refusals = 0
    /\ snaps = [v \in Subvolumes |-> {}] /\ seen = snaps /\ stagedSnapshot = snaps
    /\ taker = [r \in Takers |-> Idler]

SecondPasses ==
    /\ second < MaxSeconds /\ second' = second + 1
    /\ UNCHANGED <<snaps, stagedSnapshot, taker, ai, refusals, seen>>

\* The timer fires, or somebody runs --take.
TakeStarts(r) ==
    /\ taker[r] = Idler /\ taker' = [taker EXCEPT ![r].left = SUBVOLUMES]
    /\ UNCHANGED <<second, snaps, stagedSnapshot, ai, refusals, seen>>

\* Lexical order of the names.
Before(s, t) == IF s[1] = t[1] THEN s[2] < t[2] ELSE s[1] = "timed"

\* list_snapshots, by name: what is staged has a name it leaves out.
ListSnapshots(S) ==
    [k \in 1..Cardinality(S) |->
         CHOOSE s \in S : Cardinality({t \in S : Before(t, s)}) = k - 1]

Excess(S) == Cardinality(S) - Retention

\* Seeded bug: the tail of the list goes.
LatestOf(S) == SubSeq(ListSnapshots(S), Retention + 1, Cardinality(S))

\* The head of the list.
Oldest(S) == SubSeq(ListSnapshots(S), 1, Excess(S))

Doomed(S) == IF Excess(S) <= 0 THEN <<>> ELSE Oldest(S)

\* An error skips what is left of this subvolume, and the next one follows.
GivesUp(r) == taker' = [taker EXCEPT ![r] = [left |-> Tail(@.left), doomed |-> <<>>]]

Refused == refusals < MaxRefusals /\ refusals' = refusals + 1

\* take_snapshot, and the list prune_old goes by.  The name of this second may
\* be taken.
TakesSnapshot(r) ==
    /\ taker[r].left # <<>> /\ taker[r].doomed = <<>>
    /\ LET v == Head(taker[r].left)
           s == <<"timed", second>>
           now == snaps[v] \cup {s}
       IN \/ /\ IF s \in snaps[v] THEN UNCHANGED refusals ELSE Refused
             /\ GivesUp(r) /\ UNCHANGED <<snaps, seen>>
          \/ /\ s \notin snaps[v]
             /\ snaps' = [snaps EXCEPT ![v] = now] /\ seen' = [seen EXCEPT ![v] = @ \cup {s}]
             /\ IF Doomed(now) = <<>> THEN GivesUp(r)
                ELSE taker' = [taker EXCEPT ![r].doomed = Doomed(now)]
             /\ UNCHANGED refusals
    /\ UNCHANGED <<second, stagedSnapshot, ai>>

\* One turn of prune_old: what another run has deleted is an error.
Prunes(r) ==
    /\ taker[r].doomed # <<>>
    /\ LET v == Head(taker[r].left)
           s == Head(taker[r].doomed)
           rest == Tail(taker[r].doomed)
       IN \/ /\ IF s \in snaps[v] THEN Refused ELSE UNCHANGED refusals
             /\ GivesUp(r) /\ UNCHANGED snaps
          \/ /\ s \in snaps[v] /\ snaps' = [snaps EXCEPT ![v] = @ \ {s}]
             /\ IF rest = <<>> THEN GivesUp(r) ELSE taker' = [taker EXCEPT ![r].doomed = rest]
             /\ UNCHANGED refusals
    /\ UNCHANGED <<second, stagedSnapshot, ai, seen>>

\* The service is stopped, or the power fails.
TakerKilled(r) ==
    /\ taker[r] # Idler /\ Refused
    /\ taker' = [taker EXCEPT ![r] = Idler]
    /\ UNCHANGED <<second, snaps, stagedSnapshot, ai, seen>>

\* cmd_restore, of a snapshot that is there and has no staged copy yet.
Restores(v, s) ==
    /\ s \in snaps[v] \ stagedSnapshot[v] /\ stagedSnapshot' = [stagedSnapshot EXCEPT ![v] = @ \cup {s}]
    /\ UNCHANGED <<second, snaps, taker, ai, refusals, seen>>

\* darkos-ai-snapshot, before the assistant acts.
AiSnapshot ==
    LET s == <<"ai", second>>
    IN /\ ai < MaxAi /\ ai' = ai + 1 /\ s \notin snaps["root"]
       /\ snaps' = [snaps EXCEPT !["root"] = @ \cup {s}]
       /\ seen' = [seen EXCEPT !["root"] = @ \cup {s}]
       /\ UNCHANGED <<second, stagedSnapshot, taker, refusals>>

SnapshotsNext ==
    \/ SecondPasses \/ AiSnapshot
    \/ \E r \in Takers : TakeStarts(r) \/ TakesSnapshot(r) \/ Prunes(r) \/ TakerKilled(r)
    \/ \E v \in Subvolumes : \E s \in snaps[v] : Restores(v, s)

SnapshotsSpec == SnapshotsInit /\ [][SnapshotsNext]_snapVars

-----------------------------------------------------------------------------
\* The names decide what goes: a snapshot is there until as many names that sort
\* after its own have been taken as are kept, whatever two runs prune at once and
\* wherever one stops.  For names of the timer alone these are the newer ones, and
\* the last N are kept; every name of the assistant sorts after those of the timer,
\* so that each takes the place of one for good.
LastByNameKept ==
    \A v \in Subvolumes : \A s \in seen[v] :
        Cardinality({t \in seen[v] : Before(s, t)}) < Retention => s \in snaps[v]

\* "last N snapshots kept per subvolume", where "lexical sort is chronological": a
\* snapshot of the timer is there until N others have been taken in its second or
\* later, by anybody.
NewestAreKept ==
    \A v \in Subvolumes : \A s \in Timed(seen[v]) :
        Cardinality({t \in seen[v] \ {s} : t[2] >= s[2]}) < Retention => s \in snaps[v]
=============================================================================
