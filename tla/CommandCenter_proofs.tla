------------------------- MODULE CommandCenter_proofs -------------------------
(***************************************************************************)
(* Two promises of the overlays, proved for any number of installers,      *)
(* notifications, failures, key presses and threads.                       *)
(***************************************************************************)
EXTENDS CommandCenter, FiniteSetTheorems, WellFoundedInduction, TLAPS

(* The dock.  Only the installers hide it, and what it was before them is  *)
(* what the first of those still open saw.                                 *)

DockTypes ==
    /\ dock \in Shown /\ center \in Shown
    /\ installerVisibility \in {<<>>} \cup (Shown \X Shown)
    /\ installer \in [Installers -> {"new", "open", "done"}]

SavedShown == installerVisibility # <<>> => installerVisibility[1] = "shown"

DockInv == DockTypes /\ SavedShown /\ DockRemembered

LEMMA DockStep == DockInv /\ [CenterNext]_centerVars => DockInv'
<1> SUFFICES ASSUME DockInv, [CenterNext]_centerVars PROVE DockInv'
  OBVIOUS
<1> USE DEF DockInv, DockTypes, SavedShown, DockRemembered, Shown
<1>1. CASE ToggleCenter
  BY <1>1 DEF ToggleCenter, CenterBecomes
<1>2. ASSUME NEW i \in Installers, InstallerStarts(i) PROVE DockInv'
  <2>1. installer'[i] = "open" /\ dock' = "hidden" /\ center' = "hidden"
    BY <1>2 DEF InstallerStarts, CenterBecomes
  <2>2. installer' \in [Installers -> {"new", "open", "done"}]
    BY <1>2 DEF InstallerStarts
  <2>3. CASE installerVisibility = <<>>
    <3>1. dock = "shown"
      BY <2>3
    <3>2. installerVisibility' = <<dock, center>>
      BY <1>2, <2>3 DEF InstallerStarts, SavedOnce
    <3> QED BY <2>1, <2>2, <3>1, <3>2
  <2>4. CASE installerVisibility # <<>>
    <3>1. installerVisibility' = installerVisibility
      BY <1>2, <2>4 DEF InstallerStarts, SavedOnce
    <3>2. installerVisibility[1] = "shown"
      BY <2>4
    <3> QED BY <2>1, <2>2, <2>4, <3>1, <3>2
  <2> QED BY <2>3, <2>4
<1>3. ASSUME NEW i \in Installers, InstallerExits(i) PROVE DockInv'
  <2>1. installer' \in [Installers -> {"new", "open", "done"}] /\ installerVisibility' = <<>>
    BY <1>3 DEF InstallerExits
  <2>2. CASE installerVisibility = <<>>
    BY <1>3, <2>1, <2>2 DEF InstallerExits
  <2>3. CASE installerVisibility # <<>>
    <3>1. dock' = "shown" /\ center' = installerVisibility[2]
      BY <1>3, <2>3 DEF InstallerExits, CenterBecomes
    <3>2. installerVisibility[2] \in Shown
      BY <2>3
    <3> QED BY <2>1, <3>1, <3>2
  <2> QED BY <2>2, <2>3
<1>4. CASE UNCHANGED overlayVars
  BY <1>4 DEF overlayVars
<1>5. CASE Tick \/ Worker \/ ApplyMedia \/ ApplyNotifications \/ ClearNotifications
           \/ NoteArrives \/ Dismissed \/ PlayerChanges \/ \E n \in Notes : NoteExpires(n)
  BY <1>4, <1>5 DEF Tick, Worker, FetchMedia, ReadList, ReadHistory, Ends, ApplyMedia,
     ApplyNotifications, ClearNotifications, NoteArrives, Dismissed, PlayerChanges, NoteExpires
<1> QED BY <1>1, <1>2, <1>3, <1>4, <1>5 DEF CenterNext, centerVars

\* The dock: a hidden dock is one that an open installer hid, and what it was
\* is remembered.
THEOREM DockIsRemembered == CenterSpec => []DockRemembered
<1>1. CenterInit => DockInv
  BY DEF CenterInit, DockInv, DockTypes, SavedShown, DockRemembered, Shown
<1> QED BY <1>1, DockStep, PTL DEF CenterSpec, DockInv

-----------------------------------------------------------------------------
(* The list.  Between the two commands a notification that was there at    *)
(* the start is in what was read or in the history, and stays there.       *)

FetchTypes ==
    /\ fetcher \in [Fetches -> Threads]
    /\ lagging \in [Fetches -> SUBSET Result]
    /\ active \subseteq Notes /\ past \subseteq Notes

NothingSkipped ==
    LET t == fetcher["notes"]
    IN  /\ t.at = "reading" => t.since \subseteq Known
        /\ t.at = "second" /\ t.fine => t.since \subseteq t.seen \cup past

ListInv == FetchTypes /\ player \in {"on", "off"} /\ NothingSkipped /\ ListComplete

LEMMA NextNote ==
    ASSUME CenterConstants, Known \subseteq Notes, Cardinality(Known) < MaxNotes
    PROVE  Cardinality(Known) + 1 \in Notes
<1>0. IsFiniteSet(1..MaxNotes)
  <2>1. 1 \in Int /\ MaxNotes \in Int
    BY DEF CenterConstants
  <2> QED BY <2>1, FS_Interval
<1>1. IsFiniteSet(Known)
  BY <1>0, FS_Subset DEF Notes
<1>2. Cardinality(Known) \in Nat
  BY <1>1, FS_CardinalityType
<1> QED BY <1>2 DEF Notes, CenterConstants

\* Starting fetches, whatever was read so far, keeps the invariant.
LEMMA StartKeeps ==
    ASSUME ListInv, NEW K, StartFetches(K), UNCHANGED <<player, active, past>>
    PROVE  ListInv'
<1> USE DEF ListInv, FetchTypes
<1>1. Started \in Threads /\ Started.since = Known /\ Started.at = "reading"
  BY DEF Started, NoThread, Threads, Known
<1>2. FetchTypes'
  BY <1>1 DEF StartFetches
<1>3. fetcher'["notes"] = fetcher["notes"] \/ fetcher'["notes"] = Started
  BY DEF StartFetches, Fetches
<1>4. NothingSkipped'
  BY <1>1, <1>3 DEF NothingSkipped, Known
<1>5. ListComplete'
  BY DEF ListComplete, StartFetches
<1> QED BY <1>2, <1>4, <1>5

LEMMA ListStep == CenterConstants /\ ListInv /\ [CenterNext]_centerVars => ListInv'
<1> SUFFICES ASSUME CenterConstants, ListInv, [CenterNext]_centerVars PROVE ListInv'
  OBVIOUS
<1> USE DEF ListInv, FetchTypes, Fetches
<1>1. CASE UNCHANGED <<fetcher, lagging, player, active, past>>
  BY <1>1 DEF NothingSkipped, ListComplete, Known
<1>2. ASSUME NEW v, CenterBecomes(v), UNCHANGED <<player, active, past>> PROVE ListInv'
  BY <1>1, <1>2, StartKeeps DEF CenterBecomes, fetchVars
<1>3. CASE Tick
  BY <1>3, StartKeeps DEF Tick, makoVars
<1>4. CASE FetchMedia
  <2>1. fetcher' = [fetcher EXCEPT !["media"] = NoThread]
    BY <1>4 DEF FetchMedia, Ends
  <2>2. fetcher' \in [Fetches -> Threads]
    BY <2>1 DEF NoThread, Threads
  <2>3. PICK r \in Result : lagging' = [lagging EXCEPT !["media"] = @ \cup {r}]
    BY <1>4 DEF FetchMedia, Ends, Result
  <2>4. lagging' \in [Fetches -> SUBSET Result] /\ lagging'["notes"] = lagging["notes"]
    BY <2>3
  <2>5. player' = player /\ active' = active /\ past' = past
    BY <1>4 DEF FetchMedia, Ends, makoVars
  <2>6. NothingSkipped' /\ ListComplete'
    BY <2>1, <2>4, <2>5 DEF NothingSkipped, ListComplete, Known
  <2> QED BY <2>2, <2>4, <2>5, <2>6
<1>5. CASE ReadList
  <2> DEFINE t == fetcher["notes"]
  <2>1. PICK fine \in BOOLEAN :
          fetcher' = [fetcher EXCEPT
             !["notes"] = [@ EXCEPT !.at = "second", !.fine = fine,
                                    !.seen = IF fine THEN active ELSE {}]]
    BY <1>5 DEF ReadList, FirstCommand
  <2>2. t \in Threads
    OBVIOUS
  <2>3. /\ [t EXCEPT !.at = "second", !.fine = fine, !.seen = IF fine THEN active ELSE {}] \in Threads
        /\ fetcher'["notes"] = [t EXCEPT !.at = "second", !.fine = fine,
                                        !.seen = IF fine THEN active ELSE {}]
    BY <2>1, <2>2 DEF Threads
  <2>4. fetcher'["notes"].since = t.since /\ fetcher'["notes"].at = "second"
        /\ fetcher'["notes"].fine = fine /\ (fine => fetcher'["notes"].seen = active)
    BY <2>2, <2>3 DEF Threads
  <2>5. fetcher' \in [Fetches -> Threads]
    BY <2>1, <2>3
  <2>6. UNCHANGED <<lagging, player, active, past>> /\ t.at = "reading"
    BY <1>5 DEF ReadList, makoVars
  <2>7. NothingSkipped' /\ ListComplete'
    BY <2>4, <2>6 DEF NothingSkipped, ListComplete, Known
  <2> QED BY <2>5, <2>6, <2>7
<1>6. CASE ReadHistory
  <2> DEFINE t == fetcher["notes"]
             R(f) == [media |-> "off", fine |-> t.fine /\ f,
                      ids |-> t.seen \cup (IF f THEN past ELSE {}),
                      since |-> IF t.fine /\ f THEN t.since ELSE Known]
  <2>1. PICK f \in BOOLEAN :
          /\ t.at = "second" /\ fetcher' = [fetcher EXCEPT !["notes"] = NoThread]
          /\ lagging' = [lagging EXCEPT !["notes"] = @ \cup {R(f)}]
          /\ UNCHANGED <<player, active, past>>
    BY <1>6 DEF ReadHistory, Ends, SecondCommand, makoVars
  <2>2. t \in Threads
    OBVIOUS
  <2>3. R(f) \in Result /\ (R(f).fine => R(f).since \subseteq R(f).ids)
    BY <2>1, <2>2 DEF Result, Threads, NothingSkipped, Known
  <2>4. lagging'["notes"] = lagging["notes"] \cup {R(f)}
        /\ lagging' \in [Fetches -> SUBSET Result]
    BY <2>1, <2>3
  <2>5. NoThread \in Threads /\ NoThread.at = "none"
    BY DEF NoThread, Threads
  <2>6. fetcher' \in [Fetches -> Threads] /\ fetcher'["notes"].at = "none"
    BY <2>1, <2>5
  <2> HIDE DEF R, t
  <2>7. NothingSkipped' /\ ListComplete'
    BY <2>3, <2>4, <2>6 DEF NothingSkipped, ListComplete
  <2> QED BY <2>1, <2>4, <2>6, <2>7
<1>7. CASE ApplyMedia \/ ApplyNotifications
  BY <1>7 DEF ApplyMedia, ApplyNotifications, makoVars, NothingSkipped, ListComplete, Known
<1>8. CASE ToggleCenter
  BY <1>2, <1>8 DEF ToggleCenter, makoVars
<1>9. ASSUME NEW i \in Installers, InstallerStarts(i) PROVE ListInv'
  BY <1>2, <1>9 DEF InstallerStarts, makoVars
<1>10. ASSUME NEW i \in Installers, InstallerExits(i) PROVE ListInv'
  BY <1>1, <1>2, <1>10 DEF InstallerExits, makoVars, fetchVars
<1>11. CASE ClearNotifications
  BY <1>1, <1>11 DEF ClearNotifications, fetchVars
<1>12. CASE NoteArrives
  <2>1. Cardinality(Known) + 1 \in Notes
    BY <1>12, NextNote DEF NoteArrives, Known
  <2>2. UNCHANGED <<fetcher, lagging, player, past>> /\ active' = active \cup {Cardinality(Known) + 1}
    BY <1>12 DEF NoteArrives, fetchVars
  <2> QED BY <2>1, <2>2 DEF NothingSkipped, ListComplete, Known
<1>13. ASSUME NEW n \in Notes, NoteExpires(n) PROVE ListInv'
  BY <1>13 DEF NoteExpires, fetchVars, NothingSkipped, ListComplete, Known
<1>14. CASE Dismissed
  BY <1>14 DEF Dismissed, fetchVars, NothingSkipped, ListComplete, Known
<1>15. CASE PlayerChanges
  BY <1>15 DEF PlayerChanges, fetchVars, makoVars, NothingSkipped, ListComplete, Known
<1>16. CASE UNCHANGED centerVars
  BY <1>1, <1>16 DEF centerVars, fetchVars, makoVars
<1> QED BY <1>3, <1>4, <1>5, <1>6, <1>7, <1>8, <1>9, <1>10, <1>11, <1>12, <1>13, <1>14, <1>15,
        <1>16 DEF CenterNext, Worker

LEMMA ListInit == CenterInit => ListInv
<1> SUFFICES ASSUME CenterInit PROVE ListInv
  OBVIOUS
<1> DEFINE t == [NoThread EXCEPT !.at = "reading"]
<1>1. t \in Threads /\ t.at = "reading" /\ t.since = {}
  BY DEF NoThread, Threads
<1>2. fetcher = [k \in Fetches |-> t]
  BY DEF CenterInit
<1> HIDE DEF t
<1>3. FetchTypes /\ fetcher["notes"] = t
  BY <1>1, <1>2 DEF CenterInit, FetchTypes, Fetches
<1> QED BY <1>1, <1>3 DEF CenterInit, ListInv, Fetches, NothingSkipped, ListComplete, Known

\* The list: whatever moves from mako's list to its history while a fetch runs,
\* the fetch names every notification that existed when it began, if neither of
\* its commands failed.
THEOREM ListsAreComplete == CenterSpec => []ListComplete
<1>1. CenterInit => ListInv
  BY ListInit
<1> QED BY <1>1, ListStep, CenterConstants, PTL DEF CenterSpec, ListInv

-----------------------------------------------------------------------------
(* Clearing.  Everything the panel may be given by a fetch that worked is  *)
(* an initial segment of mako's numbers: the notes that expire during a    *)
(* fetch were there at its start, and dismissing moves all there are.      *)
(* What a fetch that failed does not name it accounts for, so that below   *)
(* the newest of a list everything is listed or accounted for.             *)

Segment(S) == \E m \in Nat : S = 1..m
Below(S, T) == \A n \in S : 1..n \subseteq T

HiddenInv ==
    /\ Segment(Known)
    /\ LET t == fetcher["notes"]
       IN  t.at = "second" => /\ t.seen \subseteq Known
                              /\ t.fine => Segment(t.seen \cup past)
    /\ \A r \in lagging["notes"] : r.ids \subseteq Notes /\ Below(r.ids, r.ids \cup r.since)
    /\ list \subseteq Notes /\ Below(list, listed \cup unread)
    /\ clearBefore \in Nat /\ 1..clearBefore \subseteq listed \cup unread

LEMMA HasGreatest ==
    ASSUME NEW N \in Nat, NEW S, S \subseteq 0..N, S # {}
    PROVE  \E x \in S : \A y \in S : x >= y
<1> DEFINE R == OpToRel(<, Nat)
           T == {N - x : x \in S}
<1>1. IsWellFoundedOn(R, Nat)
  BY NatLessThanWellFounded
<1>2. T \subseteq Nat /\ T # {}
  <2>1. \A x \in S : N - x \in Nat
    OBVIOUS
  <2>2. T \subseteq Nat
    BY <2>1
  <2>3. T # {}
    OBVIOUS
  <2> QED BY <2>2, <2>3
<1>3. PICK t \in T : \A u \in T : <<u, t>> \notin R
  <2> HIDE DEF R, T
  <2> QED BY <1>1, <1>2, WFMin
<1>4. \A u \in T : t <= u
  <2> SUFFICES ASSUME NEW u \in T, ~(t <= u) PROVE FALSE
    OBVIOUS
  <2>1. u < t /\ u \in Nat /\ t \in Nat
    BY <1>2
  <2>2. <<u, t>> \in R
    BY <2>1 DEF OpToRel
  <2> QED BY <1>3, <2>2
<1>5. PICK x \in S : t = N - x
  OBVIOUS
<1>6. \A y \in S : N - y >= N - x
  BY <1>4, <1>5
<1> QED BY <1>6

LEMMA NewestIsListed ==
    ASSUME CenterConstants, list \subseteq Notes
    PROVE  NewestListed \in Nat /\ NewestListed \in list \cup {0}
<1>1. list \cup {0} \subseteq 0..MaxNotes /\ MaxNotes \in Nat
  BY DEF CenterConstants, Notes
<1>2. \E x \in list \cup {0} : \A y \in list \cup {0} : x >= y
  BY <1>1, HasGreatest
<1>3. NewestListed \in list \cup {0}
  BY <1>2 DEF NewestListed, Max
<1> QED BY <1>1, <1>3

LEMMA SegmentBelow ==
    ASSUME NEW S, Segment(S)
    PROVE  Below(S, S)
BY DEF Segment, Below

LEMMA MaxOfTwo ==
    ASSUME NEW a \in Nat, NEW b \in Nat
    PROVE  Max({a, b}) \in {a, b}
<1>1. \E x \in {a, b} : \A y \in {a, b} : x >= y
  BY DEF Max
<1> QED BY <1>1 DEF Max

LEMMA ArrivesInOrder ==
    ASSUME Segment(Known), NoteArrives
    PROVE  Segment(Known') /\ Known \subseteq Known'
<1>1. PICK m \in Nat : Known = 1..m
  BY DEF Segment
<1>2. Cardinality(1..m) = m
  BY FS_Interval
<1>3. Known' = Known \cup {m + 1}
  BY <1>1, <1>2 DEF NoteArrives, Known
<1>4. Known' = 1..(m + 1)
  BY <1>1, <1>3
<1> QED BY <1>3, <1>4 DEF Segment

LEMMA HiddenStep == CenterConstants /\ ListInv /\ HiddenInv /\ [CenterNext]_centerVars => HiddenInv'
<1> SUFFICES ASSUME CenterConstants, ListInv, HiddenInv, [CenterNext]_centerVars PROVE HiddenInv'
  OBVIOUS
<1> USE DEF Fetches
<1>t. fetcher \in [Fetches -> Threads] /\ lagging \in [Fetches -> SUBSET Result]
  BY DEF ListInv, FetchTypes
<1>v. ASSUME UNCHANGED <<active, past>>, UNCHANGED <<list, listed, unread, clearBefore>>,
             fetcher'["notes"].at = "second" => fetcher'["notes"] = fetcher["notes"],
             lagging'["notes"] = lagging["notes"]
      PROVE  HiddenInv'
  BY <1>v DEF HiddenInv, Known
<1>1. CASE UNCHANGED <<fetcher, lagging, active, past, list, listed, unread, clearBefore>>
  BY <1>1, <1>v
<1>2. ASSUME NEW K, StartFetches(K), UNCHANGED <<active, past>>, UNCHANGED viewVars
      PROVE  HiddenInv'
  <2>1. fetcher'["notes"] = fetcher["notes"] \/ fetcher'["notes"] = Started
    BY <1>2 DEF StartFetches
  <2>2. Started.at = "reading"
    BY DEF Started, NoThread
  <2> QED BY <1>2, <1>v, <2>1, <2>2 DEF StartFetches, viewVars
<1>3. ASSUME NEW v, CenterBecomes(v), UNCHANGED <<active, past>>, UNCHANGED viewVars
      PROVE  HiddenInv'
  BY <1>1, <1>2, <1>3 DEF CenterBecomes, fetchVars, viewVars
<1>4. CASE Tick
  BY <1>2, <1>4 DEF Tick, makoVars
<1>5. CASE FetchMedia
  <2>1. fetcher'["notes"] = fetcher["notes"] /\ lagging'["notes"] = lagging["notes"]
    BY <1>5, <1>t DEF FetchMedia, Ends
  <2> QED BY <1>5, <1>v, <2>1 DEF FetchMedia, Ends, makoVars, viewVars
<1>6. CASE ReadList
  <2> DEFINE t == fetcher["notes"]
  <2>1. PICK fine \in BOOLEAN :
          fetcher' = [fetcher EXCEPT
             !["notes"] = [@ EXCEPT !.at = "second", !.fine = fine,
                                    !.seen = IF fine THEN active ELSE {}]]
    BY <1>6 DEF ReadList, FirstCommand
  <2>2. t \in Threads
    BY <1>t
  <2>3. fetcher'["notes"] = [t EXCEPT !.at = "second", !.fine = fine,
                                     !.seen = IF fine THEN active ELSE {}]
    BY <1>t, <2>1
  <2>4. fetcher'["notes"].fine = fine
        /\ fetcher'["notes"].seen = IF fine THEN active ELSE {}
    BY <2>2, <2>3 DEF Threads
  <2>5. UNCHANGED <<lagging, active, past>> /\ UNCHANGED viewVars
    BY <1>6 DEF ReadList, makoVars
  <2>6. /\ fetcher'["notes"].seen \subseteq Known'
        /\ fetcher'["notes"].fine => Segment(fetcher'["notes"].seen \cup past')
    BY <2>4, <2>5 DEF HiddenInv, Known
  <2> QED BY <2>5, <2>6 DEF HiddenInv, Known, viewVars
<1>7. CASE ReadHistory
  <2> DEFINE t == fetcher["notes"]
             R(f) == [media |-> "off", fine |-> t.fine /\ f,
                      ids |-> t.seen \cup (IF f THEN past ELSE {}),
                      since |-> IF t.fine /\ f THEN t.since ELSE Known]
  <2>1. PICK f \in BOOLEAN :
          /\ t.at = "second" /\ fetcher' = [fetcher EXCEPT !["notes"] = NoThread]
          /\ lagging' = [lagging EXCEPT !["notes"] = @ \cup {R(f)}]
          /\ UNCHANGED <<active, past>> /\ UNCHANGED viewVars
    BY <1>7 DEF ReadHistory, Ends, SecondCommand, makoVars
  <2>2. t \in Threads
    BY <1>t
  <2>3. R(f).ids \subseteq Known /\ R(f).ids \subseteq Notes
    BY <2>1, <2>2 DEF HiddenInv, Known, Threads, ListInv, FetchTypes
  <2>4. Below(R(f).ids, R(f).ids \cup R(f).since)
    <3>1. CASE t.fine /\ f
      <4>1. Segment(R(f).ids)
        BY <2>1, <3>1 DEF HiddenInv
      <4> HIDE DEF R
      <4> QED BY <4>1, SegmentBelow DEF Below
    <3>2. CASE ~(t.fine /\ f)
      <4>1. R(f).since = Known
        BY <3>2
      <4>2. Below(Known, Known)
        BY SegmentBelow DEF HiddenInv
      <4> HIDE DEF R
      <4> QED BY <2>3, <4>1, <4>2 DEF Below
    <3> QED BY <3>1, <3>2
  <2>5. fetcher'["notes"].at = "none"
    BY <1>t, <2>1 DEF NoThread
  <2>6. lagging'["notes"] = lagging["notes"] \cup {R(f)}
    BY <1>t, <2>1
  <2> HIDE DEF R, t
  <2>7. \A x \in lagging'["notes"] : x.ids \subseteq Notes /\ Below(x.ids, x.ids \cup x.since)
    BY <2>3, <2>4, <2>6 DEF HiddenInv
  <2> QED BY <2>1, <2>5, <2>7 DEF HiddenInv, Known, viewVars
<1>8. CASE ApplyMedia
  BY <1>8, <1>t, <1>v DEF ApplyMedia, makoVars
<1>9. CASE ApplyNotifications
  <2>1. PICK r \in lagging["notes"] : /\ lagging' = [lagging EXCEPT !["notes"] = @ \ {r}]
                                      /\ list' = r.ids /\ listed' = listed \cup r.ids
                                      /\ unread' = unread \cup (r.since \ r.ids)
                                      /\ UNCHANGED <<fetcher, active, past, clearBefore>>
    BY <1>9 DEF ApplyNotifications, makoVars
  <2>2. lagging'["notes"] \subseteq lagging["notes"]
    BY <1>t, <2>1
  <2>3. listed' \cup unread' = (listed \cup unread) \cup (r.ids \cup r.since)
    BY <2>1
  <2>4. r.ids \subseteq Notes /\ Below(r.ids, r.ids \cup r.since)
    BY DEF HiddenInv
  <2>5. Below(list', listed' \cup unread') /\ 1..clearBefore' \subseteq listed' \cup unread'
    BY <2>1, <2>3, <2>4 DEF Below, HiddenInv
  <2> QED BY <2>1, <2>2, <2>4, <2>5 DEF HiddenInv, Known
<1>10. CASE ToggleCenter
  BY <1>3, <1>10 DEF ToggleCenter, makoVars
<1>11. ASSUME NEW i \in Installers, InstallerStarts(i) PROVE HiddenInv'
  BY <1>3, <1>11 DEF InstallerStarts, makoVars
<1>12. ASSUME NEW i \in Installers, InstallerExits(i) PROVE HiddenInv'
  BY <1>1, <1>3, <1>12 DEF InstallerExits, makoVars, fetchVars, viewVars
<1>13. CASE ClearNotifications
  <2>1. NewestListed \in Nat /\ NewestListed \in list \cup {0}
    BY NewestIsListed DEF HiddenInv
  <2>2. clearBefore' \in {clearBefore, NewestListed}
    BY <1>13, <2>1, MaxOfTwo DEF ClearNotifications, HiddenInv
  <2>3. 1..NewestListed \subseteq listed \cup unread
    BY <2>1 DEF HiddenInv, Below
  <2>4. clearBefore' \in Nat /\ 1..clearBefore' \subseteq listed \cup unread
    BY <2>1, <2>2, <2>3 DEF HiddenInv
  <2> QED BY <1>13, <2>4 DEF ClearNotifications, HiddenInv, Known, fetchVars
<1>14. CASE NoteArrives
  <2>1. UNCHANGED <<fetcher, lagging, past>> /\ UNCHANGED viewVars
    BY <1>14 DEF NoteArrives, fetchVars
  <2>2. Segment(Known') /\ Known \subseteq Known'
    BY <1>14, ArrivesInOrder DEF HiddenInv
  <2> QED BY <2>1, <2>2 DEF HiddenInv, viewVars
<1>15. ASSUME NEW n \in Notes, NoteExpires(n) PROVE HiddenInv'
  <2>1. UNCHANGED <<fetcher, lagging>> /\ UNCHANGED viewVars /\ past' = past \cup {n} /\ Known' = Known
    BY <1>15 DEF NoteExpires, fetchVars, Known
  <2>2. fetcher["notes"].at = "second" /\ fetcher["notes"].fine => n \in fetcher["notes"].seen \cup past
    BY <1>15 DEF NoteExpires, ListInv, NothingSkipped
  <2>3. fetcher["notes"].at = "second" /\ fetcher["notes"].fine
            => fetcher["notes"].seen \cup past' = fetcher["notes"].seen \cup past
    BY <2>1, <2>2
  <2> QED BY <2>1, <2>3 DEF HiddenInv, viewVars
<1>16. CASE Dismissed
  <2>1. UNCHANGED <<fetcher, lagging>> /\ UNCHANGED viewVars /\ past' = Known /\ Known' = Known
    BY <1>16 DEF Dismissed, fetchVars, Known
  <2>2. fetcher["notes"].at = "second" => fetcher["notes"].seen \cup past' = Known
    BY <2>1 DEF HiddenInv
  <2> QED BY <2>1, <2>2 DEF HiddenInv, viewVars
<1>17. CASE PlayerChanges
  BY <1>1, <1>17 DEF PlayerChanges, fetchVars, makoVars, viewVars
<1>18. CASE UNCHANGED centerVars
  BY <1>1, <1>18 DEF centerVars, fetchVars, makoVars, viewVars
<1> QED BY <1>4, <1>5, <1>6, <1>7, <1>8, <1>9, <1>10, <1>11, <1>12, <1>13, <1>14, <1>15, <1>16,
        <1>17, <1>18 DEF CenterNext, Worker

\* Clearing: whatever arrives, expires or is dismissed between the commands of
\* overlapping fetches, and whichever list is on screen, clear_notifications
\* hides nothing the panel was never told of, but what was there when a makoctl
\* failed.
THEOREM NothingIsHiddenUnseen == CenterSpec => []NothingUnseenHidden
<1>1. CenterInit => ListInv /\ HiddenInv
  <2>1. Segment({}) /\ 1..0 = {} /\ \A T : Below({}, T)
    BY DEF Segment, Below
  <2>2. ASSUME CenterInit PROVE fetcher["notes"].at = "reading"
    BY <2>2 DEF CenterInit, Fetches, NoThread
  <2> QED BY <2>1, <2>2, ListInit DEF CenterInit, HiddenInv, Fetches, Known
<1>2. ListInv /\ HiddenInv => NothingUnseenHidden
  BY DEF ListInv, FetchTypes, HiddenInv, NothingUnseenHidden, Known, Notes
<1> QED BY <1>1, <1>2, ListStep, HiddenStep, CenterConstants, PTL DEF CenterSpec
=============================================================================
