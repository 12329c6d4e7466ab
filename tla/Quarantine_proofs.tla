-------------------------- MODULE Quarantine_proofs --------------------------
(***************************************************************************)
(* Proofs about Quarantine for any files, paths, scanners, kills and full  *)
(* disks, where no program writes at a path that is being moved and no two *)
(* scanners look at one removable medium: there the code's copy and unlink *)
(* do race.                                                                *)
(***************************************************************************)
EXTENDS Quarantine, TLAPS

Calm ==
    /\ ~Racing
    /\ \A p \in Removable, s, t \in Scanners : p \in Scanned[s] /\ p \in Scanned[t] => s = t

(* What is held at each step.  A scanner's identifier is its own and has   *)
(* no sidecar; a copied file is on its medium still; a path is free while  *)
(* an entry is restored to it, and what was copied back to it is there, or *)
(* in quarantine once more.                                                *)

Working(s) == scanner[s].at \in {"named", "copied", "moved"}

FilesWritten ==
    /\ \A p \in Paths : disk[p] # None => disk[p] \in written
    /\ \A n \in Ids : blob[n] # None => blob[n] \in written

ScannerInv ==
    \A s \in Scanners :
        /\ scanner[s].at # "idle" => scanner[s].path \in Scanned[s]
        /\ ~Working(s) => scanner[s].id = 0
        /\ Working(s) =>
               /\ scanner[s].id \in 1..lastId /\ meta[scanner[s].id] = None
               /\ \A t \in Scanners : scanner[t].id = scanner[s].id => t = s
        /\ scanner[s].at = "named" => blob[scanner[s].id] = None
        /\ scanner[s].at = "copied" =>
               /\ scanner[s].path \in Removable /\ disk[scanner[s].path] # None
               /\ blob[scanner[s].id] = disk[scanner[s].path]

FreshIds == \A n \in Ids : n > lastId => blob[n] = None /\ meta[n] = None

Elsewhere(n) == (\E p \in Paths : disk[p] = blob[n]) \/ (\E m \in Ids \ {n} : blob[m] = blob[n])

ButtonInv ==
    /\ button.at = "idle" => button.id = 0 /\ button.path = None
    /\ button.at # "idle" => button.id \in 1..lastId /\ meta[button.id] \in Paths
    /\ button.at \in {"restore", "copied", "restored"} => button.path \in Paths
    /\ button.at = "restore" => disk[button.path] = None /\ blob[button.id] # None
    /\ button.at = "copied" => blob[button.id] # None /\ Elsewhere(button.id)
    /\ button.at \in {"restored", "purged"} => blob[button.id] = None

ListInv ==
    crashes = 0 /\ full = 0 =>
        \A n \in Ids : blob[n] # None => meta[n] \in Paths \/ \E s \in Scanners : scanner[s].id = n

IInv == QuarantineTypeOK /\ FilesWritten /\ ScannerInv /\ FreshIds /\ ButtonInv /\ ListInv

ScannerType == [at : {"idle", "flagged", "named", "copied", "moved"},
                path : Paths \cup {None}, id : 0..MaxIds]

LEMMA Kinds == None \notin Items /\ None \notin Paths /\ Broken \notin Paths /\ None # Broken
               /\ Ids = 1..MaxIds /\ MaxIds \in Nat /\ Scanned \in [Scanners -> SUBSET Paths]
               /\ Removable \subseteq Paths
BY QuarantineConstants DEF Ids, None, Broken, Scanned

-----------------------------------------------------------------------------
(* The scanners.                                                           *)

\* What a scanner's step does to the scanners.
LEMMA StopsIdle ==
    ASSUME QuarantineTypeOK, NEW s \in Scanners, Stops(s)
    PROVE  /\ scanner' \in [Scanners -> ScannerType]
           /\ scanner'[s].at = "idle" /\ scanner'[s].id = 0
           /\ \A t \in Scanners : t # s => scanner'[t] = scanner[t]
<1>1. Idle \in ScannerType /\ Idle.at = "idle" /\ Idle.id = 0
  BY Kinds DEF Idle, ScannerType
<1>2. scanner \in [Scanners -> ScannerType]
  BY DEF QuarantineTypeOK, ScannerType
<1> QED BY <1>1, <1>2 DEF Stops

LEMMA GoesToKeeps ==
    ASSUME QuarantineTypeOK, NEW s \in Scanners, NEW a \in {"copied", "moved"}, GoesTo(s, a)
    PROVE  /\ scanner' \in [Scanners -> ScannerType]
           /\ scanner'[s].at = a /\ scanner'[s].id = scanner[s].id /\ scanner'[s].path = scanner[s].path
           /\ \A t \in Scanners : t # s => scanner'[t] = scanner[t]
<1>1. scanner \in [Scanners -> ScannerType] /\ scanner[s] \in ScannerType
  BY DEF QuarantineTypeOK, ScannerType
<1>2. scanner' = [scanner EXCEPT ![s] = [scanner[s] EXCEPT !.at = a]]
  BY DEF GoesTo
<1>3. [scanner[s] EXCEPT !.at = a] \in ScannerType
  BY <1>1 DEF ScannerType
<1> QED BY <1>1, <1>2, <1>3 DEF ScannerType

LEMMA FlagKeeps ==
    ASSUME IInv, NEW s \in Scanners, NEW p \in Paths, Flag(s, p)
    PROVE  IInv'
<1> DEFINE c == [at |-> "flagged", path |-> p, id |-> 0]
<1>1. c \in ScannerType
  BY Kinds DEF ScannerType
<1>2. scanner' = [scanner EXCEPT ![s] = c] /\ scanner[s].at = "idle" /\ p \in Scanned[s]
      /\ UNCHANGED <<storeVars, button, quarantineBounds, purged>>
  BY DEF Flag
<1>3. scanner \in [Scanners -> ScannerType]
  BY DEF IInv, QuarantineTypeOK, ScannerType
<1>4. scanner'[s].at = "flagged" /\ scanner'[s].path = p /\ scanner'[s].id = 0
      /\ \A t \in Scanners : t # s => scanner'[t] = scanner[t]
  BY <1>2, <1>3
<1>5. QuarantineTypeOK'
  BY <1>1, <1>2, <1>3 DEF IInv, QuarantineTypeOK, ScannerType, storeVars, quarantineBounds
<1>6. ScannerInv'
  BY <1>2, <1>4 DEF IInv, ScannerInv, Working, storeVars, quarantineBounds
<1>7. ListInv'
  <2>1. \A n \in Ids : n # 0
    BY Kinds
  <2>2. scanner[s].id = 0
    BY <1>2 DEF IInv, ScannerInv, Working
  <2> QED BY <1>2, <1>4, <2>1, <2>2 DEF IInv, ListInv, storeVars, quarantineBounds
<1> QED BY <1>2, <1>5, <1>6, <1>7 DEF IInv, FilesWritten, FreshIds, ButtonInv, Elsewhere, storeVars, quarantineBounds

LEMMA NameKeeps ==
    ASSUME IInv, NEW s \in Scanners, Name(s)
    PROVE  IInv'
<1> DEFINE c == [scanner[s] EXCEPT !.at = "named", !.id = lastId + 1]
<1>1. /\ scanner' = [scanner EXCEPT ![s].at = "named", ![s].id = lastId + 1]
      /\ scanner[s].at = "flagged" /\ lastId < MaxIds /\ lastId' = lastId + 1
      /\ UNCHANGED <<disk, blob, meta, button, crashes, full, written, purged>>
  BY DEF Name, storeVars
<1>2. scanner \in [Scanners -> ScannerType] /\ scanner[s] \in ScannerType /\ lastId \in Nat
  BY Kinds DEF IInv, QuarantineTypeOK, ScannerType
<1>3. lastId + 1 \in Ids /\ lastId + 1 \in 0..MaxIds
  BY <1>1, <1>2, Kinds
<1>4. scanner' = [scanner EXCEPT ![s] = c]
  BY <1>1
<1>5. c \in ScannerType /\ c.at = "named" /\ c.id = lastId + 1 /\ c.path = scanner[s].path
  BY <1>2, <1>3 DEF ScannerType
<1> HIDE DEF c
<1>6. scanner'[s].at = "named" /\ scanner'[s].path = scanner[s].path /\ scanner'[s].id = lastId + 1
      /\ \A t \in Scanners : t # s => scanner'[t] = scanner[t]
  BY <1>2, <1>4, <1>5
<1>7. QuarantineTypeOK'
  BY <1>1, <1>2, <1>3, <1>4, <1>5 DEF IInv, QuarantineTypeOK, ScannerType
<1>8. blob[lastId + 1] = None /\ meta[lastId + 1] = None
  BY <1>2, <1>3 DEF IInv, FreshIds
<1>9. \A t \in Scanners : scanner[t].id \in 0..lastId
  BY <1>2 DEF IInv, ScannerInv
<1>10. ScannerInv'
  <2>1. \A t \in Scanners : scanner'[t].id = lastId + 1 => t = s
    BY <1>2, <1>6, <1>9
  <2> QED BY <1>1, <1>2, <1>6, <1>8, <1>9, <2>1 DEF IInv, ScannerInv, Working
<1>11. FreshIds' /\ ButtonInv'
  BY <1>1, <1>2, Kinds DEF IInv, FreshIds, ButtonInv, Elsewhere
<1>12. ListInv'
  <2>1. scanner[s].id = 0 /\ \A n \in Ids : n # 0
    BY <1>1, Kinds DEF IInv, ScannerInv, Working
  <2>2. ASSUME NEW n \in Ids, \E t \in Scanners : scanner[t].id = n
        PROVE  \E t \in Scanners : scanner'[t].id = n
    BY <1>6, <2>1, <2>2
  <2> QED BY <1>1, <2>2 DEF IInv, ListInv
<1> QED BY <1>1, <1>7, <1>10, <1>11, <1>12 DEF IInv, FilesWritten

\* A scanner's identifier is not the one the handler works on.
LEMMA Separate ==
    ASSUME IInv, NEW s \in Scanners, Working(s)
    PROVE  scanner[s].id \in Ids /\ button.id # scanner[s].id /\ meta[scanner[s].id] = None
           /\ scanner[s].path \in Paths
<1>1. scanner[s].id \in 1..lastId /\ meta[scanner[s].id] = None /\ lastId \in 0..MaxIds
  BY DEF IInv, QuarantineTypeOK, ScannerInv
<1>2. scanner[s].id \in Ids
  BY <1>1, Kinds
<1>3. scanner[s].path \in Paths
  BY Kinds DEF IInv, ScannerInv, Working
<1>4. button.at = "idle" => button.id = 0
  BY DEF IInv, ButtonInv
<1>5. button.at # "idle" => meta[button.id] # None
  BY Kinds DEF IInv, ButtonInv
<1> QED BY <1>1, <1>2, <1>3, <1>4, <1>5

\* A scanner that stops having moved nothing leaves everything as it was.
LEMMA StopKeeps ==
    ASSUME IInv, NEW s \in Scanners, Stops(s), UNCHANGED <<storeVars, quarantineBounds, button, purged>>,
           Working(s) => blob[scanner[s].id] = None
    PROVE  IInv'
<1>1. /\ scanner' \in [Scanners -> ScannerType]
      /\ scanner'[s].at = "idle" /\ scanner'[s].id = 0
      /\ \A t \in Scanners : t # s => scanner'[t] = scanner[t]
  BY StopsIdle DEF IInv
<1>2. UNCHANGED <<disk, blob, meta, button, lastId, crashes, full, written, purged>>
  BY DEF storeVars, quarantineBounds
<1>3. QuarantineTypeOK'
  BY <1>1, <1>2 DEF IInv, QuarantineTypeOK, ScannerType
<1>4. ScannerInv'
  BY <1>1, <1>2 DEF IInv, ScannerInv, Working
<1>5. ListInv'
  <2>1. scanner[s].id \in Ids => blob[scanner[s].id] = None
    BY Kinds DEF IInv, ScannerInv
  <2>2. ASSUME NEW n \in Ids, blob[n] # None, \E t \in Scanners : scanner[t].id = n
        PROVE  \E t \in Scanners : scanner'[t].id = n
    BY <1>1, <2>1, <2>2
  <2> QED BY <1>2, <2>2 DEF IInv, ListInv
<1> QED BY <1>2, <1>3, <1>4, <1>5 DEF IInv, FilesWritten, FreshIds, ButtonInv, Elsewhere

LEMMA FileGoneKeeps ==
    ASSUME IInv, NEW s \in Scanners, FileGone(s)
    PROVE  IInv'
<1>1. Working(s) => blob[scanner[s].id] = None
  BY DEF FileGone, IInv, ScannerInv, Working
<1> QED BY <1>1, StopKeeps DEF FileGone

(* A file comes into quarantine: the blob was free, and nobody else's.     *)
LEMMA BlobFilled ==
    ASSUME IInv, NEW s \in Scanners, scanner[s].at = "named", NEW x \in Items, x \in written,
           blob' = [blob EXCEPT ![scanner[s].id] = x]
    PROVE  /\ blob' \in [Ids -> Items \cup {None}]
           /\ blob'[scanner[s].id] = x
           /\ \A n \in Ids : n # scanner[s].id => blob'[n] = blob[n]
           /\ \A n \in Ids : blob[n] # None => n # scanner[s].id
           /\ \A n \in Ids : blob'[n] # None => blob'[n] \in written
<1>1. scanner[s].id \in Ids /\ blob[scanner[s].id] = None
  BY Separate DEF IInv, ScannerInv, Working
<1>2. blob \in [Ids -> Items \cup {None}]
  BY DEF IInv, QuarantineTypeOK
<1> QED BY <1>1, <1>2 DEF IInv, FilesWritten

(* A scanner that goes on keeps its identifier and its path to itself.     *)
LEMMA ScannersKept ==
    ASSUME IInv, NEW s \in Scanners, Working(s), NEW a \in {"copied", "moved"}, GoesTo(s, a),
           UNCHANGED <<meta, lastId>>,
           \A n \in Ids : n # scanner[s].id => blob'[n] = blob[n],
           \A t \in Scanners : t # s /\ scanner[t].at = "copied"
               => disk'[scanner[t].path] = disk[scanner[t].path],
           a = "copied" => /\ scanner[s].path \in Removable /\ disk'[scanner[s].path] # None
                           /\ blob'[scanner[s].id] = disk'[scanner[s].path]
    PROVE  ScannerInv'
<1>1. /\ scanner'[s].at = a
      /\ \A t \in Scanners : t # s => scanner'[t] = scanner[t]
      /\ \A t \in Scanners : scanner'[t].id = scanner[t].id /\ scanner'[t].path = scanner[t].path
  BY GoesToKeeps DEF IInv
<1>2. \A t \in Scanners : Working(t)' <=> Working(t)
  BY <1>1 DEF Working
<1>3. \A t \in Scanners : t # s /\ Working(t) => scanner[t].id \in Ids /\ scanner[t].id # scanner[s].id
  BY Separate DEF IInv, ScannerInv
<1>4. \A t \in Scanners : Working(t)' =>
          /\ scanner'[t].id \in 1..lastId' /\ meta'[scanner'[t].id] = None
          /\ \A u \in Scanners : scanner'[u].id = scanner'[t].id => u = t
  BY <1>1, <1>2 DEF IInv, ScannerInv
<1>5. \A t \in Scanners : scanner'[t].at # "idle" => scanner'[t].path \in Scanned[t]
  BY <1>1 DEF IInv, ScannerInv, Working
<1>6. \A t \in Scanners : ~Working(t)' => scanner'[t].id = 0
  BY <1>1, <1>2 DEF IInv, ScannerInv
<1>7. ASSUME NEW t \in Scanners, scanner'[t].at = "named"
      PROVE  blob'[scanner'[t].id] = None
  <2>1. t # s /\ scanner[t].at = "named" /\ Working(t)
    BY <1>1, <1>7 DEF Working
  <2> QED BY <1>1, <1>3, <2>1 DEF IInv, ScannerInv
<1>8. ASSUME NEW t \in Scanners, scanner'[t].at = "copied"
      PROVE  /\ scanner'[t].path \in Removable /\ disk'[scanner'[t].path] # None
             /\ blob'[scanner'[t].id] = disk'[scanner'[t].path]
  <2>1. CASE t = s
    BY <1>1, <1>8, <2>1
  <2>2. CASE t # s
    <3>1. scanner[t].at = "copied" /\ Working(t)
      BY <1>1, <1>8, <2>2 DEF Working
    <3>2. blob'[scanner[t].id] = blob[scanner[t].id] /\ disk'[scanner[t].path] = disk[scanner[t].path]
      BY <1>3, <2>2, <3>1
    <3> QED BY <1>1, <3>1, <3>2 DEF IInv, ScannerInv
  <2> QED BY <2>1, <2>2
<1> HIDE DEF Working
<1> QED BY <1>4, <1>5, <1>6, <1>7, <1>8 DEF ScannerInv

(* A step of a scanner that takes nothing from the entry the handler works *)
(* on, and nothing off the disk that is not in another blob, is none of    *)
(* the handler's business.                                                 *)
LEMMA ButtonKept ==
    ASSUME IInv, UNCHANGED <<button, lastId>>,
           \A n \in Ids : n = button.id => meta'[n] = meta[n] /\ blob'[n] = blob[n],
           \A n \in Ids : blob[n] # None => blob'[n] = blob[n],
           \A q \in Paths : disk[q] = None => disk'[q] = None,
           \A q \in Paths : disk[q] # None
               => disk'[q] = disk[q] \/ \E m \in Ids \ {button.id} : blob'[m] = disk[q]
    PROVE  ButtonInv'
<1>1. button.at # "idle" => button.id \in Ids
  BY Kinds DEF IInv, QuarantineTypeOK, ButtonInv
<1>2. ASSUME button.at = "copied" PROVE Elsewhere(button.id)'
  <2>1. button.id \in Ids /\ blob[button.id] # None /\ Elsewhere(button.id)
    BY <1>1, <1>2 DEF IInv, ButtonInv
  <2>2. button' = button /\ blob'[button.id] = blob[button.id]
    BY <2>1
  <2>3. CASE \E q \in Paths : disk[q] = blob[button.id]
    <3>1. PICK q \in Paths : disk[q] = blob[button.id]
      BY <2>3
    <3>2. disk'[q] = disk[q] \/ \E m \in Ids \ {button.id} : blob'[m] = disk[q]
      BY <2>1, <3>1
    <3> QED BY <2>2, <3>1, <3>2 DEF Elsewhere
  <2>4. CASE \E m \in Ids \ {button.id} : blob[m] = blob[button.id]
    <3>1. PICK m \in Ids \ {button.id} : blob[m] = blob[button.id]
      BY <2>4
    <3>2. blob'[m] = blob[m]
      BY <2>1, <3>1
    <3> QED BY <2>2, <3>1, <3>2 DEF Elsewhere
  <2> QED BY <2>1, <2>3, <2>4 DEF Elsewhere
<1> QED BY <1>1, <1>2 DEF IInv, ButtonInv

(* While the identifiers stay where they are, a file that was listed or    *)
(* worked on is.                                                           *)
LEMMA ListKept ==
    ASSUME IInv, UNCHANGED <<crashes, full>>,
           \A n \in Ids : meta[n] \in Paths /\ blob'[n] # None => meta'[n] \in Paths,
           \A n \in Ids : blob'[n] # None => blob[n] # None \/ \E t \in Scanners : scanner'[t].id = n,
           \A t \in Scanners, n \in Ids : scanner[t].id = n /\ blob'[n] # None
               => meta'[n] \in Paths \/ \E u \in Scanners : scanner'[u].id = n
    PROVE  ListInv'
BY DEF IInv, ListInv

LEMMA RenameKeeps ==
    ASSUME IInv, Calm, NEW s \in Scanners, Rename(s)
    PROVE  IInv'
<1> DEFINE p == scanner[s].path
           id == scanner[s].id
           x == disk[p]
<1>1. /\ scanner[s].at = "named" /\ p \notin Removable /\ disk[p] # None
      /\ blob' = [blob EXCEPT ![id] = x] /\ disk' = [disk EXCEPT ![p] = None]
      /\ GoesTo(s, "moved")
      /\ UNCHANGED <<meta, button, lastId, crashes, full, written, purged>>
  BY DEF Rename, BlobId, quarantineBounds
<1>2. Working(s)
  BY <1>1 DEF Working
<1>3. id \in Ids /\ button.id # id /\ meta[id] = None /\ p \in Paths /\ blob[id] = None
      /\ id \in 1..lastId
  BY <1>1, <1>2, Separate DEF IInv, ScannerInv
<1>4. disk \in [Paths -> Items \cup {None}] /\ x \in Items /\ x \in written
  BY <1>1, <1>3 DEF IInv, QuarantineTypeOK, FilesWritten
<1> HIDE DEF x
<1>5. /\ blob' \in [Ids -> Items \cup {None}] /\ blob'[id] = x
      /\ \A n \in Ids : n # id => blob'[n] = blob[n]
      /\ \A n \in Ids : blob[n] # None => n # id
      /\ \A n \in Ids : blob'[n] # None => blob'[n] \in written
  BY <1>1, <1>4, BlobFilled
<1>6. /\ scanner' \in [Scanners -> ScannerType]
      /\ scanner'[s].id = id
      /\ \A t \in Scanners : t # s => scanner'[t] = scanner[t]
  BY <1>1, GoesToKeeps DEF IInv
<1>7. /\ disk' \in [Paths -> Items \cup {None}] /\ disk'[p] = None
      /\ \A q \in Paths : q # p => disk'[q] = disk[q]
  BY <1>1, <1>3, <1>4
<1>8. QuarantineTypeOK'
  BY <1>1, <1>5, <1>6, <1>7 DEF IInv, QuarantineTypeOK, ScannerType
<1>9. FilesWritten'
  BY <1>1, <1>5, <1>7 DEF IInv, FilesWritten
<1>10. ScannerInv'
  <2>1. \A t \in Scanners : scanner[t].at = "copied" => disk'[scanner[t].path] = disk[scanner[t].path]
    BY <1>1, <1>7, Kinds DEF IInv, ScannerInv
  <2> QED BY <1>1, <1>2, <1>5, <2>1, ScannersKept
<1>11. FreshIds'
  BY <1>1, <1>3, <1>5, Kinds DEF IInv, FreshIds, QuarantineTypeOK
<1>12. ButtonInv'
  <2>1. \A q \in Paths : disk[q] = None => disk'[q] = None
    BY <1>7
  <2>2. \A q \in Paths : disk[q] # None
            => disk'[q] = disk[q] \/ \E m \in Ids \ {button.id} : blob'[m] = disk[q]
    BY <1>3, <1>5, <1>7 DEF x
  <2> QED BY <1>1, <1>3, <1>5, <2>1, <2>2, ButtonKept
<1>13. ListInv'
  <2>1. ASSUME NEW n \in Ids, \E t \in Scanners : scanner[t].id = n
        PROVE  \E t \in Scanners : scanner'[t].id = n
    BY <1>6, <2>1
  <2> QED BY <1>1, <1>5, <1>6, <2>1, ListKept
<1> QED BY <1>8, <1>9, <1>10, <1>11, <1>12, <1>13 DEF IInv

LEMMA CopyKeeps ==
    ASSUME IInv, Calm, NEW s \in Scanners, Copy(s)
    PROVE  IInv'
<1> DEFINE p == scanner[s].path
           id == scanner[s].id
           x == disk[p]
<1>1. /\ scanner[s].at = "named" /\ p \in Removable /\ disk[p] # None
      /\ blob' = [blob EXCEPT ![id] = x] /\ GoesTo(s, "copied")
      /\ UNCHANGED <<disk, meta, button, lastId, crashes, full, written, purged>>
  BY DEF Copy, BlobId, quarantineBounds
<1>2. Working(s)
  BY <1>1 DEF Working
<1>3. id \in Ids /\ button.id # id /\ meta[id] = None /\ p \in Paths /\ blob[id] = None
      /\ id \in 1..lastId
  BY <1>1, <1>2, Separate DEF IInv, ScannerInv
<1>4. disk \in [Paths -> Items \cup {None}] /\ x \in Items /\ x \in written
  BY <1>1, <1>3 DEF IInv, QuarantineTypeOK, FilesWritten
<1> HIDE DEF x
<1>5. /\ blob' \in [Ids -> Items \cup {None}] /\ blob'[id] = x
      /\ \A n \in Ids : n # id => blob'[n] = blob[n]
      /\ \A n \in Ids : blob[n] # None => n # id
      /\ \A n \in Ids : blob'[n] # None => blob'[n] \in written
  BY <1>1, <1>4, BlobFilled
<1>6. /\ scanner' \in [Scanners -> ScannerType]
      /\ scanner'[s].id = id
      /\ \A t \in Scanners : t # s => scanner'[t] = scanner[t]
  BY <1>1, GoesToKeeps DEF IInv
<1>7. QuarantineTypeOK'
  BY <1>1, <1>5, <1>6 DEF IInv, QuarantineTypeOK, ScannerType
<1>8. FilesWritten'
  BY <1>1, <1>5 DEF IInv, FilesWritten
<1>9. ScannerInv'
  <2>1. disk'[p] # None /\ blob'[id] = disk'[p]
    BY <1>1, <1>5 DEF x
  <2> QED BY <1>1, <1>2, <1>5, <2>1, ScannersKept
<1>10. FreshIds'
  BY <1>1, <1>3, <1>5, Kinds DEF IInv, FreshIds, QuarantineTypeOK
<1>11. ButtonInv'
  BY <1>1, <1>3, <1>5, ButtonKept
<1>12. ListInv'
  <2>1. ASSUME NEW n \in Ids, \E t \in Scanners : scanner[t].id = n
        PROVE  \E t \in Scanners : scanner'[t].id = n
    BY <1>6, <2>1
  <2> QED BY <1>1, <1>5, <1>6, <2>1, ListKept
<1> QED BY <1>7, <1>8, <1>9, <1>10, <1>11, <1>12 DEF IInv

\* Only one scanner is at a removable medium: the original is there still.
LEMMA UnlinkKeeps ==
    ASSUME IInv, Calm, NEW s \in Scanners, Unlink(s)
    PROVE  IInv'
<1> DEFINE p == scanner[s].path
           id == scanner[s].id
<1>1. /\ scanner[s].at = "copied" /\ disk' = [disk EXCEPT ![p] = None]
      /\ UNCHANGED <<blob, meta, button, lastId, crashes, full, written, purged>>
  BY DEF Unlink, quarantineBounds
<1>2. Working(s)
  BY <1>1 DEF Working
<1>3. id \in Ids /\ button.id # id /\ p \in Paths /\ p \in Removable
      /\ disk[p] # None /\ blob[id] = disk[p]
  BY <1>1, <1>2, Separate DEF IInv, ScannerInv
<1>4. GoesTo(s, "moved")
  BY <1>3 DEF Unlink, OriginalGone
<1>5. /\ scanner' \in [Scanners -> ScannerType]
      /\ scanner'[s].id = id
      /\ \A t \in Scanners : t # s => scanner'[t] = scanner[t]
  BY <1>4, GoesToKeeps DEF IInv
<1>6. /\ disk' \in [Paths -> Items \cup {None}] /\ disk'[p] = None
      /\ \A q \in Paths : q # p => disk'[q] = disk[q]
  BY <1>1, <1>3 DEF IInv, QuarantineTypeOK
<1>7. QuarantineTypeOK'
  BY <1>1, <1>5, <1>6 DEF IInv, QuarantineTypeOK, ScannerType
<1>8. FilesWritten'
  BY <1>1, <1>6 DEF IInv, FilesWritten
<1>9. ScannerInv'
  <2>1. ASSUME NEW t \in Scanners, t # s, scanner[t].at = "copied"
        PROVE  disk'[scanner[t].path] = disk[scanner[t].path]
    <3>1. scanner[t].path \in Scanned[t] /\ scanner[t].path \in Paths /\ p \in Scanned[s]
      BY <1>1, <2>1, Separate DEF IInv, ScannerInv, Working
    <3>2. scanner[t].path # p
      BY <1>3, <2>1, <3>1 DEF Calm
    <3> QED BY <1>6, <3>1, <3>2
  <2> QED BY <1>1, <1>2, <1>4, <2>1, ScannersKept
<1>10. FreshIds'
  BY <1>1 DEF IInv, FreshIds
<1>11. ButtonInv'
  <2>1. \A q \in Paths : disk[q] = None => disk'[q] = None
    BY <1>6
  <2>2. \A q \in Paths : disk[q] # None
            => disk'[q] = disk[q] \/ \E m \in Ids \ {button.id} : blob'[m] = disk[q]
    BY <1>1, <1>3, <1>6
  <2> QED BY <1>1, <2>1, <2>2, ButtonKept
<1>12. ListInv'
  <2>1. ASSUME NEW n \in Ids, \E t \in Scanners : scanner[t].id = n
        PROVE  \E t \in Scanners : scanner'[t].id = n
    BY <1>5, <2>1
  <2> QED BY <1>1, <2>1, ListKept
<1> QED BY <1>7, <1>8, <1>9, <1>10, <1>11, <1>12 DEF IInv

(* The sidecar is written, in part, or not at all.                         *)
LEMMA SidecarKeeps ==
    ASSUME IInv, NEW s \in Scanners, scanner[s].at = "moved", Stops(s),
           NEW m \in Paths \cup {None, Broken}, meta' = [meta EXCEPT ![scanner[s].id] = m],
           UNCHANGED <<disk, blob, button, lastId, crashes, written, purged>>,
           full' \in 0..MaxFull, (full' = full /\ m \in Paths) \/ full' # 0
    PROVE  IInv'
<1> DEFINE id == scanner[s].id
<1>1. Working(s)
  BY DEF Working
<1>2. id \in Ids /\ button.id # id /\ id \in 1..lastId
  BY <1>1, Separate DEF IInv, ScannerInv
<1>3. /\ scanner' \in [Scanners -> ScannerType]
      /\ scanner'[s].at = "idle" /\ scanner'[s].id = 0
      /\ \A t \in Scanners : t # s => scanner'[t] = scanner[t]
  BY StopsIdle DEF IInv
<1>4. /\ meta' \in [Ids -> Paths \cup {None, Broken}] /\ meta'[id] = m
      /\ \A n \in Ids : n # id => meta'[n] = meta[n]
  BY <1>2 DEF IInv, QuarantineTypeOK
<1>5. QuarantineTypeOK'
  BY <1>3, <1>4 DEF IInv, QuarantineTypeOK, ScannerType
<1>6. FilesWritten'
  BY DEF IInv, FilesWritten
<1>7. ScannerInv'
  <2>1. \A t \in Scanners : t # s /\ Working(t) => scanner[t].id \in Ids /\ scanner[t].id # id
    BY <1>1, Separate DEF IInv, ScannerInv
  <2>2. ~Working(s)' /\ \A t \in Scanners : t # s => (Working(t)' <=> Working(t))
    BY <1>3 DEF Working
  <2>3. \A t \in Scanners : scanner'[t].id = scanner[t].id \/ (scanner'[t].id = 0 /\ t = s)
    BY <1>3
  <2>4. ASSUME NEW t \in Scanners, Working(t)'
        PROVE  /\ scanner'[t].id \in 1..lastId' /\ meta'[scanner'[t].id] = None
               /\ \A u \in Scanners : scanner'[u].id = scanner'[t].id => u = t
    <3>1. t # s /\ Working(t) /\ scanner'[t] = scanner[t]
      BY <1>3, <2>2, <2>4
    <3>2. scanner[t].id \in 1..lastId /\ meta[scanner[t].id] = None
          /\ \A u \in Scanners : scanner[u].id = scanner[t].id => u = t
      BY <3>1 DEF IInv, ScannerInv
    <3>3. scanner[t].id # 0 /\ meta'[scanner[t].id] = None
      BY <1>4, <2>1, <3>1, <3>2
    <3> QED BY <2>3, <3>1, <3>2, <3>3
  <2>5. \A t \in Scanners : t # s => scanner'[t] = scanner[t]
    BY <1>3
  <2> HIDE DEF Working
  <2> QED BY <1>3, <2>2, <2>4, <2>5 DEF IInv, ScannerInv
<1>8. FreshIds'
  BY <1>2, <1>4, Kinds DEF IInv, FreshIds, QuarantineTypeOK
<1>9. ButtonInv'
  BY <1>2, <1>4, ButtonKept
<1>10. ListInv'
  <2>1. CASE full' = full /\ m \in Paths
    <3>1. ASSUME NEW n \in Ids, n # id, \E t \in Scanners : scanner[t].id = n
          PROVE  \E t \in Scanners : scanner'[t].id = n
      BY <1>3, <3>1
    <3> QED BY <1>2, <1>4, <2>1, <3>1, ListKept
  <2>2. CASE full' # 0
    BY <2>2 DEF ListInv
  <2> QED BY <2>1, <2>2
<1> QED BY <1>5, <1>6, <1>7, <1>8, <1>9, <1>10 DEF IInv

LEMMA WriteMetaKeeps ==
    ASSUME IInv, NEW s \in Scanners, WriteMeta(s)
    PROVE  IInv'
<1>1. scanner[s].path \in Paths
  BY Separate DEF WriteMeta, Working
<1>2. full \in 0..MaxFull
  BY DEF IInv, QuarantineTypeOK
<1> QED BY <1>1, <1>2, SidecarKeeps DEF WriteMeta, Sidecar, quarantineBounds

LEMMA MetaFailsKeeps ==
    ASSUME IInv, NEW s \in Scanners, MetaFails(s)
    PROVE  IInv'
<1>1. full' \in 0..MaxFull /\ full' # 0
  BY QuarantineConstants DEF MetaFails, IInv, QuarantineTypeOK
<1>2. PICK m \in {None, Broken} : meta' = [meta EXCEPT ![scanner[s].id] = m]
  BY DEF MetaFails
<1> QED BY <1>1, <1>2, SidecarKeeps DEF MetaFails

-----------------------------------------------------------------------------
(* The handler and the environment.                                        *)

ButtonType == [at : {"idle", "restore", "copied", "restored", "purged"},
               path : Paths \cup {None}, id : 0..MaxIds]

\* What the handler does to an entry with a sidecar concerns no scanner.
LEMMA ScannersLeft ==
    ASSUME IInv, UNCHANGED <<scanner, lastId>>, NEW k \in Ids, meta[k] # None,
           \A n \in Ids \ {k} : meta'[n] = meta[n] /\ blob'[n] = blob[n],
           \A q \in Paths : disk[q] # None => disk'[q] = disk[q]
    PROVE  ScannerInv'
<1>1. \A t \in Scanners : Working(t)
          => /\ scanner[t].id \in Ids \ {k} /\ meta[scanner[t].id] = None
             /\ scanner[t].path \in Paths
  BY Separate
<1>2. \A t \in Scanners : Working(t)' <=> Working(t)
  BY DEF Working
<1>3. \A t \in Scanners : Working(t) => /\ meta'[scanner[t].id] = None
                                     /\ blob'[scanner[t].id] = blob[scanner[t].id]
  BY <1>1
<1>4. \A t \in Scanners : scanner[t].at \in {"named", "copied"} => Working(t)
  BY DEF Working
<1>5. \A t \in Scanners : scanner[t].at = "copied" => disk'[scanner[t].path] = disk[scanner[t].path]
  BY <1>1, <1>4 DEF IInv, ScannerInv
<1> HIDE DEF Working
<1> QED BY <1>2, <1>3, <1>4, <1>5 DEF IInv, ScannerInv

\* A listed entry has its sidecar and its blob, and an identifier once drawn.
LEMMA ListedEntry ==
    ASSUME IInv, NEW n \in Ids, n \in Listed
    PROVE  /\ n \in 1..lastId /\ n \in 0..MaxIds /\ meta[n] \in Paths /\ meta[n] # None
           /\ blob[n] # None /\ blob[n] \in Items /\ blob[n] \in written
<1>1. meta[n] \in Paths /\ blob[n] # None
  BY DEF Listed
<1>2. lastId \in 0..MaxIds /\ blob \in [Ids -> Items \cup {None}]
  BY DEF IInv, QuarantineTypeOK
<1> QED BY <1>1, <1>2, Kinds DEF IInv, FreshIds, FilesWritten

\* The handler is at work on an entry that has its sidecar.
LEMMA ButtonEntry ==
    ASSUME IInv, button.at # "idle"
    PROVE  button.id \in Ids /\ button.id \in 1..lastId /\ meta[button.id] \in Paths
           /\ meta[button.id] # None
BY Kinds DEF IInv, QuarantineTypeOK, ButtonInv

LEMMA RestoreBeginsKeeps ==
    ASSUME IInv, NEW n \in Ids, RestoreBegins(n)
    PROVE  IInv'
<1> DEFINE b == [at |-> "restore", path |-> meta[n], id |-> n]
<1>1. /\ button' = b /\ n \in Listed /\ disk[meta[n]] = None
      /\ UNCHANGED <<disk, blob, meta, scanner, lastId, crashes, full, written, purged>>
  BY DEF RestoreBegins, DestFree, storeVars, quarantineBounds
<1>2. n \in 1..lastId /\ n \in 0..MaxIds /\ meta[n] \in Paths /\ blob[n] # None
  BY <1>1, ListedEntry
<1>3. b \in ButtonType /\ b.at = "restore" /\ b.path = meta[n] /\ b.id = n
  BY <1>2 DEF ButtonType
<1> HIDE DEF b
<1>4. QuarantineTypeOK'
  BY <1>1, <1>3 DEF IInv, QuarantineTypeOK, ButtonType
<1>5. ButtonInv'
  BY <1>1, <1>2, <1>3 DEF ButtonInv
<1>6. FilesWritten' /\ FreshIds' /\ ListInv'
  BY <1>1 DEF IInv, FilesWritten, FreshIds, ListInv
<1>7. ScannerInv'
  BY <1>1 DEF IInv, ScannerInv, Working
<1> QED BY <1>4, <1>5, <1>6, <1>7 DEF IInv

\* The file is back at its path, and its blob gone or not yet.
LEMMA RestoreKeeps ==
    ASSUME IInv, button.at = "restore", NEW a \in {"copied", "restored"},
           disk' = [disk EXCEPT ![button.path] = blob[button.id]],
           blob' = IF a = "copied" THEN blob ELSE [blob EXCEPT ![button.id] = None],
           button' = [button EXCEPT !.at = a],
           UNCHANGED <<meta, scanner, lastId, crashes, full, written, purged>>
    PROVE  IInv'
<1> DEFINE p == button.path
           id == button.id
<1>1. id \in Ids /\ id \in 1..lastId /\ meta[id] \in Paths /\ meta[id] # None
  BY ButtonEntry
<1>2. p \in Paths /\ disk[p] = None /\ blob[id] # None
  BY DEF IInv, ButtonInv
<1>3. blob[id] \in Items /\ blob[id] \in written
  BY <1>1, <1>2 DEF IInv, QuarantineTypeOK, FilesWritten
<1>4. /\ disk' \in [Paths -> Items \cup {None}] /\ disk'[p] = blob[id]
      /\ \A q \in Paths : q # p => disk'[q] = disk[q]
  BY <1>2, <1>3 DEF IInv, QuarantineTypeOK
<1>5. /\ blob' \in [Ids -> Items \cup {None}]
      /\ blob'[id] = IF a = "copied" THEN blob[id] ELSE None
      /\ \A n \in Ids : n # id => blob'[n] = blob[n]
  BY <1>1 DEF IInv, QuarantineTypeOK
<1>6. button' \in ButtonType /\ button'.at = a /\ button'.path = p /\ button'.id = id
  BY DEF IInv, QuarantineTypeOK, ButtonType
<1> HIDE DEF p, id
<1>7. QuarantineTypeOK'
  BY <1>4, <1>5, <1>6 DEF IInv, QuarantineTypeOK, ButtonType
<1>8. FilesWritten'
  BY <1>3, <1>4, <1>5 DEF IInv, FilesWritten
<1>9. ScannerInv'
  BY <1>1, <1>2, <1>4, <1>5, ScannersLeft
<1>10. FreshIds'
  BY <1>1, <1>5, Kinds DEF IInv, FreshIds, QuarantineTypeOK
<1>11. ButtonInv'
  <2>1. CASE a = "copied"
    <3>1. blob'[id] = blob[id] /\ disk'[p] = blob'[id]
      BY <1>4, <1>5, <2>1
    <3>2. Elsewhere(button.id)'
      BY <1>2, <1>6, <3>1 DEF Elsewhere
    <3> QED BY <1>1, <1>2, <1>6, <2>1, <3>1, <3>2 DEF ButtonInv
  <2>2. CASE a = "restored"
    BY <1>1, <1>2, <1>5, <1>6, <2>2 DEF ButtonInv
  <2> QED BY <2>1, <2>2
<1>12. ListInv'
  BY <1>5, ListKept
<1> QED BY <1>7, <1>8, <1>9, <1>10, <1>11, <1>12 DEF IInv

LEMMA RestoreRenamesKeeps ==
    ASSUME IInv, RestoreRenames
    PROVE  IInv'
BY RestoreKeeps DEF RestoreRenames, quarantineBounds

LEMMA RestoreCopiesKeeps ==
    ASSUME IInv, RestoreCopies
    PROVE  IInv'
BY RestoreKeeps DEF RestoreCopies, quarantineBounds

\* A blob goes, by the end of a copying restore or by permanent_delete.
LEMMA BlobGone ==
    ASSUME IInv, NEW k \in Ids, k \in 1..lastId, meta[k] \in Paths, meta[k] # None,
           blob' = [blob EXCEPT ![k] = None],
           button' \in ButtonType, button'.at \in {"restored", "purged"}, button'.id = k,
           button'.at = "restored" => button'.path \in Paths,
           purged' \subseteq written,
           UNCHANGED <<disk, meta, scanner, lastId, crashes, full, written>>
    PROVE  IInv'
<1>1. /\ blob' \in [Ids -> Items \cup {None}] /\ blob'[k] = None
      /\ \A n \in Ids : n # k => blob'[n] = blob[n]
  BY DEF IInv, QuarantineTypeOK
<1>2. QuarantineTypeOK'
  BY <1>1 DEF IInv, QuarantineTypeOK, ButtonType
<1>3. FilesWritten'
  BY <1>1 DEF IInv, FilesWritten
<1>4. ScannerInv'
  BY <1>1, ScannersLeft
<1>5. FreshIds'
  BY <1>1 DEF IInv, FreshIds
<1>6. ButtonInv'
  BY <1>1 DEF ButtonInv
<1>7. ListInv'
  BY <1>1, ListKept
<1> QED BY <1>2, <1>3, <1>4, <1>5, <1>6, <1>7 DEF IInv

LEMMA RestoreUnlinksKeeps ==
    ASSUME IInv, RestoreUnlinks
    PROVE  IInv'
<1>1. button.id \in Ids /\ button.id \in 1..lastId /\ meta[button.id] \in Paths /\ meta[button.id] # None
  BY ButtonEntry DEF RestoreUnlinks
<1>2. button \in ButtonType /\ button.path \in Paths /\ purged \subseteq written
  BY DEF RestoreUnlinks, IInv, QuarantineTypeOK, ButtonInv, ButtonType
<1>3. button' \in ButtonType /\ button'.at = "restored" /\ button'.id = button.id /\ button'.path = button.path
  BY <1>2 DEF RestoreUnlinks, ButtonType
<1> QED BY <1>1, <1>2, <1>3, BlobGone DEF RestoreUnlinks, quarantineBounds

LEMMA DeleteBlobKeeps ==
    ASSUME IInv, NEW n \in Ids, DeleteBlob(n)
    PROVE  IInv'
<1>1. n \in 1..lastId /\ n \in 0..MaxIds /\ meta[n] \in Paths /\ meta[n] # None /\ blob[n] \in written
  BY ListedEntry DEF DeleteBlob
<1>2. purged' \subseteq written
  BY <1>1 DEF DeleteBlob, IInv, QuarantineTypeOK
<1>3. button' \in ButtonType /\ button'.at = "purged" /\ button'.id = n
  BY <1>1 DEF DeleteBlob, ButtonType
<1> QED BY <1>1, <1>2, <1>3, BlobGone DEF DeleteBlob, quarantineBounds

LEMMA UnlinkMetaKeeps ==
    ASSUME IInv, UnlinkMeta
    PROVE  IInv'
<1> DEFINE id == button.id
<1>1. /\ meta' = [meta EXCEPT ![id] = None] /\ button' = Idle
      /\ UNCHANGED <<disk, blob, scanner, lastId, crashes, full, written, purged>>
  BY DEF UnlinkMeta, quarantineBounds
<1>2. id \in Ids /\ meta[id] # None /\ blob[id] = None
  BY ButtonEntry DEF UnlinkMeta, IInv, ButtonInv
<1>3. /\ meta' \in [Ids -> Paths \cup {None, Broken}] /\ meta'[id] = None
      /\ \A n \in Ids : n # id => meta'[n] = meta[n]
  BY <1>1, <1>2 DEF IInv, QuarantineTypeOK
<1>4. Idle \in ButtonType /\ Idle.at = "idle" /\ Idle.id = 0 /\ Idle.path = None
  BY Kinds DEF Idle, ButtonType
<1>5. QuarantineTypeOK'
  BY <1>1, <1>3, <1>4 DEF IInv, QuarantineTypeOK, ButtonType
<1>6. FilesWritten'
  BY <1>1 DEF IInv, FilesWritten
<1>7. ScannerInv'
  BY <1>1, <1>2, <1>3, ScannersLeft
<1>8. FreshIds'
  BY <1>1, <1>3 DEF IInv, FreshIds
<1>9. ButtonInv'
  BY <1>1, <1>4 DEF ButtonInv
<1>10. ListInv'
  BY <1>1, <1>2, <1>3 DEF IInv, ListInv
<1> QED BY <1>5, <1>6, <1>7, <1>8, <1>9, <1>10 DEF IInv

LEMMA WriteKeeps ==
    ASSUME IInv, Calm, NEW i \in Items, NEW p \in Paths, Write(i, p)
    PROVE  IInv'
<1>1. /\ i \notin written /\ disk[p] = None /\ ~Moving(p) /\ i # None
      /\ written' = written \cup {i} /\ disk' = [disk EXCEPT ![p] = i]
      /\ UNCHANGED <<blob, meta, scanner, button, lastId, crashes, full, purged>>
  BY Kinds DEF Write, Calm
<1>2. /\ disk' \in [Paths -> Items \cup {None}] /\ disk'[p] = i
      /\ \A q \in Paths : q # p => disk'[q] = disk[q]
  BY <1>1 DEF IInv, QuarantineTypeOK
<1>3. button.path # p
  BY <1>1 DEF Moving
<1>4. QuarantineTypeOK'
  BY <1>1, <1>2 DEF IInv, QuarantineTypeOK
<1>5. FilesWritten'
  BY <1>1, <1>2 DEF IInv, FilesWritten
<1>6. ScannerInv'
  <2>1. \A t \in Scanners : scanner[t].at = "copied"
            => scanner[t].path \in Paths /\ disk'[scanner[t].path] = disk[scanner[t].path]
    BY <1>1, <1>2, Kinds DEF IInv, ScannerInv
  <2> QED BY <1>1, <2>1 DEF IInv, ScannerInv, Working
<1>7. FreshIds' /\ ListInv'
  BY <1>1 DEF IInv, FreshIds, ListInv
<1>8. ButtonInv'
  <2>1. ASSUME button.at = "copied" PROVE Elsewhere(button.id)'
    <3>1. Elsewhere(button.id) /\ blob[button.id] # None
      BY <2>1 DEF IInv, ButtonInv
    <3>2. \A q \in Paths : disk[q] = blob[button.id] => disk'[q] = blob[button.id]
      BY <1>1, <1>2, <3>1
    <3> QED BY <1>1, <3>1, <3>2 DEF Elsewhere
  <2>2. button.at = "restore" => disk'[button.path] = None
    BY <1>2, <1>3 DEF IInv, ButtonInv
  <2> HIDE DEF Elsewhere
  <2> QED BY <1>1, <2>1, <2>2 DEF IInv, ButtonInv
<1> QED BY <1>4, <1>5, <1>6, <1>7, <1>8 DEF IInv

LEMMA CrashKeeps ==
    ASSUME IInv, NEW s \in Scanners, Crash(s)
    PROVE  IInv'
<1>1. /\ crashes < MaxCrashes /\ crashes' = crashes + 1 /\ Stops(s)
      /\ button' = Idle \/ button' = button
      /\ UNCHANGED <<disk, blob, meta, lastId, full, written, purged>>
  BY DEF Crash, storeVars
<1>2. /\ scanner' \in [Scanners -> ScannerType]
      /\ scanner'[s].at = "idle" /\ scanner'[s].id = 0
      /\ \A t \in Scanners : t # s => scanner'[t] = scanner[t]
  BY <1>1, StopsIdle DEF IInv
<1>3. Idle \in ButtonType /\ Idle.at = "idle" /\ Idle.id = 0 /\ Idle.path = None
  BY Kinds DEF Idle, ButtonType
<1>4. crashes' \in 0..MaxCrashes /\ crashes' # 0
  BY <1>1, QuarantineConstants DEF IInv, QuarantineTypeOK
<1>5. button' \in ButtonType
  BY <1>1, <1>3 DEF IInv, QuarantineTypeOK, ButtonType
<1>6. QuarantineTypeOK'
  BY <1>1, <1>2, <1>4, <1>5 DEF IInv, QuarantineTypeOK, ScannerType, ButtonType
<1>7. FilesWritten' /\ FreshIds'
  BY <1>1 DEF IInv, FilesWritten, FreshIds
<1>8. ScannerInv'
  BY <1>1, <1>2 DEF IInv, ScannerInv, Working
<1>9. ButtonInv'
  BY <1>1, <1>3 DEF IInv, ButtonInv, Elsewhere
<1>10. ListInv'
  BY <1>4 DEF ListInv
<1> QED BY <1>6, <1>7, <1>8, <1>9, <1>10 DEF IInv

-----------------------------------------------------------------------------
(* The invariant of the specification.                                     *)

LEMMA InitHolds ==
    ASSUME QuarantineInit
    PROVE  IInv
<1>1. Idle.at = "idle" /\ Idle.id = 0 /\ Idle.path = None /\ Idle \in ScannerType /\ Idle \in ButtonType
  BY Kinds DEF Idle, ScannerType, ButtonType
<1>2. QuarantineTypeOK
  BY <1>1, QuarantineConstants DEF QuarantineInit, QuarantineTypeOK, ScannerType, ButtonType
<1>3. ScannerInv
  BY <1>1 DEF QuarantineInit, ScannerInv, Working
<1>4. ButtonInv
  BY <1>1 DEF QuarantineInit, ButtonInv
<1> QED BY <1>2, <1>3, <1>4 DEF QuarantineInit, IInv, FilesWritten, FreshIds, ListInv

LEMMA NextKeeps ==
    ASSUME IInv, Calm, [QuarantineNext]_quarantineVars
    PROVE  IInv'
<1>1. CASE UNCHANGED quarantineVars
  BY <1>1 DEF quarantineVars, storeVars, quarantineBounds, IInv, QuarantineTypeOK, FilesWritten, ScannerInv, Working, FreshIds,
     ButtonInv, Elsewhere, ListInv
<1>2. ASSUME NEW s \in Scanners, ScannerStep(s) PROVE IInv'
  BY <1>2, FlagKeeps, NameKeeps, FileGoneKeeps, RenameKeeps, CopyKeeps, UnlinkKeeps, WriteMetaKeeps,
     MetaFailsKeeps DEF ScannerStep
<1>3. CASE ButtonStep
  BY <1>3, RestoreBeginsKeeps, DeleteBlobKeeps, RestoreRenamesKeeps, RestoreCopiesKeeps,
     RestoreUnlinksKeeps, UnlinkMetaKeeps DEF ButtonStep
<1>4. ASSUME NEW i \in Items, NEW p \in Paths, Write(i, p) PROVE IInv'
  BY <1>4, WriteKeeps
<1>5. ASSUME NEW s \in Scanners, Crash(s) PROVE IInv'
  BY <1>5, CrashKeeps
<1> QED BY <1>1, <1>2, <1>3, <1>4, <1>5 DEF QuarantineNext

\* The invariant holds in every reachable state.
LEMMA InductiveInvariant == ASSUME Calm PROVE QuarantineSpec => []IInv
<1>1. IInv /\ [QuarantineNext]_quarantineVars => IInv'
  BY NextKeeps
<1> QED BY <1>1, InitHolds, PTL DEF QuarantineSpec

\* The store, the scanners and the handler keep their types, for any number
\* of crashes and full disks.
THEOREM TypeCorrect == ASSUME Calm PROVE QuarantineSpec => []QuarantineTypeOK
<1>1. IInv => QuarantineTypeOK
  BY DEF IInv
<1> QED BY <1>1, InductiveInvariant, PTL

\* A file that is in quarantine only, and that nobody is moving, is in the
\* list of Security Center unless a process was killed or a disk was full.
THEOREM HeldFilesAreListed == ASSUME Calm PROVE QuarantineSpec => []HeldIsListed
<1>1. ASSUME IInv PROVE HeldIsListed
  <2>1. SUFFICES ASSUME crashes = 0 /\ full = 0, NEW i \in Items, where[i] = "held",
                        ~\E n \in Ids : blob[n] = i /\ Busy(n)
                 PROVE  \E n \in Listed : blob[n] = i
    BY DEF HeldIsListed, RestoreAlwaysPossible
  <2>2. InBlob(i)
    BY <2>1 DEF where
  <2>3. PICK n \in Ids : blob[n] = i
    BY <2>2 DEF InBlob
  <2>4. ~Busy(n) /\ i # None
    BY <2>1, <2>3, Kinds
  <2>5. meta[n] \in Paths
    BY <1>1, <2>1, <2>3, <2>4 DEF IInv, ListInv, Busy
  <2> QED BY <2>3, <2>4, <2>5 DEF Listed
<1> QED BY <1>1, InductiveInvariant, PTL

-----------------------------------------------------------------------------
(* The store implements Custody: at most one file changes its place in the *)
(* abstract view, and only the way that Custody lets it.                   *)

\* Only what was written is anywhere.
LEMMA WrittenItems ==
    ASSUME IInv, NEW i \in Items
    PROVE  OnDisk(i) \/ InBlob(i) \/ i \in purged => i \in written
BY Kinds DEF IInv, QuarantineTypeOK, FilesWritten, OnDisk, InBlob

\* Where a file is, case by case.
LEMMA Places ==
    ASSUME IInv, NEW i \in Items
    PROVE  /\ i \notin written => where[i] = "unwritten"
           /\ OnDisk(i) => where[i] = "disk"
           /\ ~OnDisk(i) /\ InBlob(i) => where[i] = "held"
           /\ ~OnDisk(i) /\ ~InBlob(i) /\ i \in purged => where[i] = "purged"
<1>1. OnDisk(i) \/ InBlob(i) \/ i \in purged => i \in written
  BY WrittenItems
<1>2. CASE i \notin written
  BY <1>1, <1>2 DEF where, OnDisk, InBlob
<1>3. CASE OnDisk(i)
  BY <1>1, <1>3 DEF where, OnDisk, InBlob
<1>4. CASE ~OnDisk(i) /\ InBlob(i)
  BY <1>1, <1>4 DEF where, OnDisk, InBlob
<1>5. CASE ~OnDisk(i) /\ ~InBlob(i) /\ i \in purged
  BY <1>1, <1>5 DEF where, OnDisk, InBlob
<1> QED BY <1>1, <1>2, <1>3, <1>4, <1>5

\* The same in the next state.
LEMMA PlacesNext ==
    ASSUME IInv', NEW i \in Items
    PROVE  /\ OnDisk(i)' => where'[i] = "disk"
           /\ ~OnDisk(i)' /\ InBlob(i)' => where'[i] = "held"
           /\ ~OnDisk(i)' /\ ~InBlob(i)' /\ i \in purged' => where'[i] = "purged"
<1>1. OnDisk(i)' \/ InBlob(i)' \/ i \in purged' => i \in written'
  BY Kinds DEF IInv, QuarantineTypeOK, FilesWritten, OnDisk, InBlob
<1>2. CASE OnDisk(i)'
  BY <1>1, <1>2 DEF where, OnDisk, InBlob
<1>3. CASE ~OnDisk(i)' /\ InBlob(i)'
  BY <1>1, <1>3 DEF where, OnDisk, InBlob
<1>4. CASE ~OnDisk(i)' /\ ~InBlob(i)' /\ i \in purged'
  BY <1>1, <1>4 DEF where, OnDisk, InBlob
<1> QED BY <1>2, <1>3, <1>4

LEMMA StayedInPlace ==
    ASSUME NEW i \in Items, i \in written' <=> i \in written, i \in purged' <=> i \in purged,
           OnDisk(i)' <=> OnDisk(i), InBlob(i)' <=> InBlob(i)
    PROVE  where'[i] = where[i]
BY DEF where

LEMMA OneMoves ==
    ASSUME NEW x \in Items, \A i \in Items \ {x} : where'[i] = where[i],
           \/ where'[x] = where[x]
           \/ where[x] = "unwritten" /\ where'[x] = "disk"
           \/ where[x] = "disk" /\ where'[x] = "held"
           \/ where[x] = "held" /\ where'[x] = "disk"
           \/ where[x] = "held" /\ where'[x] = "purged"
    PROVE  [FilesInCustody!Next]_where
<1>1. /\ where = [i \in Items |-> where[i]]
      /\ where' = [i \in Items |-> where'[i]]
  BY DEF where
<1> HIDE DEF where
<1>2. where' = [where EXCEPT ![x] = where'[x]]
  BY <1>1
<1>3. CASE where'[x] = where[x]
  BY <1>1, <1>2, <1>3
<1>4. CASE where'[x] # where[x]
  <2>1. \/ FilesInCustody!Write(x) \/ FilesInCustody!Quarantine(x)
        \/ FilesInCustody!Restore(x) \/ FilesInCustody!Purge(x)
    BY <1>2, <1>4 DEF FilesInCustody!Write, FilesInCustody!Quarantine, FilesInCustody!Restore,
       FilesInCustody!Purge, FilesInCustody!Move
  <2> QED BY <2>1 DEF FilesInCustody!Next
<1> QED BY <1>3, <1>4

LEMMA NobodyMoves ==
    ASSUME UNCHANGED <<disk, blob, written, purged>>
    PROVE  where' = where
BY DEF where, OnDisk, InBlob

\* A scanner takes a file off the disk that is in a blob by then.
LEMMA ScannerMoves ==
    ASSUME IInv, IInv', NEW s \in Scanners, Rename(s) \/ Copy(s) \/ Unlink(s)
    PROVE  [FilesInCustody!Next]_where
<1> DEFINE p == scanner[s].path
           id == scanner[s].id
<1>1. UNCHANGED <<written, purged>> /\ scanner[s].at \in {"named", "copied"}
  BY DEF Rename, Copy, Unlink, quarantineBounds
<1>2. id \in Ids /\ p \in Paths /\ disk[p] # None
  BY <1>1, Separate DEF Working, Rename, Copy, Unlink, IInv, ScannerInv
<1>3. disk \in [Paths -> Items \cup {None}] /\ blob \in [Ids -> Items \cup {None}]
  BY DEF IInv, QuarantineTypeOK
<1> PICK x \in Items : x = disk[p]
  BY <1>2, <1>3
<1>4. \A q \in Paths : q # p => disk'[q] = disk[q]
  BY <1>2, <1>3 DEF Rename, Copy, Unlink
<1>5. disk'[p] = None \/ disk'[p] = x
  BY <1>2, <1>3 DEF Rename, Copy, Unlink
<1>6. /\ \A n \in Ids : n # id => blob'[n] = blob[n]
      /\ blob'[id] = x /\ (blob[id] = None \/ blob[id] = x)
  BY <1>2, <1>3 DEF Rename, Copy, Unlink, BlobId, IInv, ScannerInv
<1> HIDE DEF p, id
<1>7. ASSUME NEW i \in Items \ {x} PROVE where'[i] = where[i]
  <2>1. i # None
    BY Kinds
  <2>2. OnDisk(i)' <=> OnDisk(i)
    BY <1>2, <1>4, <1>5, <2>1 DEF OnDisk
  <2>3. InBlob(i)' <=> InBlob(i)
    BY <1>2, <1>6, <2>1 DEF InBlob
  <2> QED BY <1>1, <2>2, <2>3, StayedInPlace
<1>8. where[x] = "disk"
  <2>1. OnDisk(x)
    BY <1>2 DEF OnDisk
  <2> QED BY <1>3, <2>1, Places
<1>9. where'[x] \in {"disk", "held"}
  <2>1. InBlob(x)'
    BY <1>2, <1>6 DEF InBlob
  <2> QED BY <1>1, <1>3, <2>1, PlacesNext
<1> QED BY <1>3, <1>7, <1>8, <1>9, OneMoves

\* The handler puts a file back before its blob goes.
LEMMA RestoreMoves ==
    ASSUME IInv, IInv', RestoreRenames \/ RestoreCopies
    PROVE  [FilesInCustody!Next]_where
<1> DEFINE p == button.path
           id == button.id
<1>1. button.at = "restore" /\ UNCHANGED <<written, purged>>
  BY DEF RestoreRenames, RestoreCopies, quarantineBounds
<1>2. id \in Ids /\ p \in Paths /\ disk[p] = None /\ blob[id] # None
  BY <1>1, ButtonEntry DEF IInv, ButtonInv
<1>3. disk \in [Paths -> Items \cup {None}] /\ blob \in [Ids -> Items \cup {None}]
  BY DEF IInv, QuarantineTypeOK
<1> PICK x \in Items : x = blob[id]
  BY <1>2, <1>3
<1>4. disk'[p] = x /\ \A q \in Paths : q # p => disk'[q] = disk[q]
  BY <1>2, <1>3 DEF RestoreRenames, RestoreCopies
<1>5. (blob'[id] = None \/ blob'[id] = x) /\ \A n \in Ids : n # id => blob'[n] = blob[n]
  BY <1>2, <1>3 DEF RestoreRenames, RestoreCopies
<1> HIDE DEF p, id
<1>6. ASSUME NEW i \in Items \ {x} PROVE where'[i] = where[i]
  <2>1. i # None
    BY Kinds
  <2>2. OnDisk(i)' <=> OnDisk(i)
    BY <1>2, <1>4, <2>1 DEF OnDisk
  <2>3. InBlob(i)' <=> InBlob(i)
    BY <1>2, <1>5, <2>1 DEF InBlob
  <2> QED BY <1>1, <2>2, <2>3, StayedInPlace
<1>7. where[x] \in {"disk", "held"}
  <2>1. InBlob(x)
    BY <1>2 DEF InBlob
  <2> QED BY <1>3, <2>1, Places
<1>8. where'[x] = "disk"
  <2>1. OnDisk(x)'
    BY <1>2, <1>4 DEF OnDisk
  <2> QED BY <1>1, <1>3, <2>1, PlacesNext
<1> QED BY <1>3, <1>6, <1>7, <1>8, OneMoves

\* Only a file that is elsewhere, or to be deleted, loses its blob.
LEMMA BlobGoneMoves ==
    ASSUME IInv, IInv', NEW k \in Ids, blob[k] # None, blob' = [blob EXCEPT ![k] = None],
           UNCHANGED <<disk, written>>,
           \/ Elsewhere(k) /\ purged' = purged
           \/ purged' = purged \cup {blob[k]}
    PROVE  [FilesInCustody!Next]_where
<1>1. blob \in [Ids -> Items \cup {None}]
  BY DEF IInv, QuarantineTypeOK
<1> PICK x \in Items : x = blob[k]
  BY <1>1
<1>2. blob'[k] = None /\ \A n \in Ids : n # k => blob'[n] = blob[n]
  BY <1>1
<1>3. ASSUME NEW i \in Items \ {x} PROVE where'[i] = where[i]
  <2>1. i # None
    BY Kinds
  <2>2. OnDisk(i)' <=> OnDisk(i)
    BY DEF OnDisk
  <2>3. InBlob(i)' <=> InBlob(i)
    BY <1>2, <2>1 DEF InBlob
  <2> QED BY <2>2, <2>3, StayedInPlace
<1>4. InBlob(x)
  BY DEF InBlob
<1>5. OnDisk(x)' <=> OnDisk(x)
  BY DEF OnDisk
<1>6. CASE OnDisk(x)
  <2>1. where[x] = "disk" /\ where'[x] = "disk"
    BY <1>1, <1>5, <1>6, Places, PlacesNext
  <2> QED BY <1>1, <1>3, <2>1, OneMoves
<1>7. CASE ~OnDisk(x)
  <2>1. where[x] = "held"
    BY <1>1, <1>4, <1>7, Places
  <2>2. where'[x] \in {"held", "purged"}
    <3>1. CASE InBlob(x)'
      BY <1>1, <1>5, <1>7, <3>1, PlacesNext
    <3>2. CASE ~InBlob(x)'
      <4>1. ~\E m \in Ids \ {k} : blob[m] = blob[k]
        BY <1>2, <3>2 DEF InBlob
      <4>2. ~Elsewhere(k)
        BY <1>7, <4>1 DEF Elsewhere, OnDisk
      <4>3. x \in purged'
        BY <4>2
      <4> QED BY <1>1, <1>5, <1>7, <3>2, <4>3, PlacesNext
    <3> QED BY <3>1, <3>2
  <2> QED BY <1>1, <1>3, <2>1, <2>2, OneMoves
<1> QED BY <1>6, <1>7

LEMMA WriteMoves ==
    ASSUME IInv, IInv', NEW i \in Items, NEW p \in Paths, Write(i, p)
    PROVE  [FilesInCustody!Next]_where
<1>1. /\ i \notin written /\ disk[p] = None /\ written' = written \cup {i}
      /\ disk' = [disk EXCEPT ![p] = i] /\ UNCHANGED <<blob, purged>>
  BY DEF Write
<1>2. disk'[p] = i /\ \A q \in Paths : q # p => disk'[q] = disk[q]
  BY <1>1 DEF IInv, QuarantineTypeOK
<1>3. ASSUME NEW j \in Items \ {i} PROVE where'[j] = where[j]
  <2>1. j # None
    BY Kinds
  <2>2. OnDisk(j)' <=> OnDisk(j)
    BY <1>1, <1>2, <2>1 DEF OnDisk
  <2>3. InBlob(j)' <=> InBlob(j)
    BY <1>1 DEF InBlob
  <2> QED BY <1>1, <2>2, <2>3, StayedInPlace
<1>4. where[i] = "unwritten"
  BY <1>1, Places
<1>5. where'[i] = "disk"
  <2>1. OnDisk(i)'
    BY <1>2 DEF OnDisk
  <2> QED BY <1>1, <2>1, PlacesNext
<1> QED BY <1>3, <1>4, <1>5, OneMoves

LEMMA StepSimulation ==
    ASSUME IInv, IInv', [QuarantineNext]_quarantineVars
    PROVE  [FilesInCustody!Next]_where
<1>1. CASE UNCHANGED quarantineVars
  BY <1>1, NobodyMoves DEF quarantineVars, storeVars, quarantineBounds
<1>2. ASSUME NEW s \in Scanners, ScannerStep(s) PROVE [FilesInCustody!Next]_where
  <2>1. CASE Rename(s) \/ Copy(s) \/ Unlink(s)
    BY <2>1, ScannerMoves
  <2>2. CASE ~(Rename(s) \/ Copy(s) \/ Unlink(s))
    <3>1. UNCHANGED <<disk, blob, written, purged>>
      BY <1>2, <2>2 DEF ScannerStep, Flag, Name, FileGone, WriteMeta, MetaFails, storeVars, quarantineBounds
    <3> QED BY <3>1, NobodyMoves
  <2> QED BY <2>1, <2>2
<1>3. CASE ButtonStep
  <2>1. CASE RestoreRenames \/ RestoreCopies
    BY <2>1, RestoreMoves
  <2>2. CASE RestoreUnlinks
    <3>1. button.id \in Ids /\ blob[button.id] # None /\ Elsewhere(button.id)
      BY <2>2, ButtonEntry DEF RestoreUnlinks, IInv, ButtonInv
    <3> QED BY <2>2, <3>1, BlobGoneMoves DEF RestoreUnlinks, quarantineBounds
  <2>3. ASSUME NEW n \in Ids, DeleteBlob(n) PROVE [FilesInCustody!Next]_where
    <3>1. blob[n] # None
      BY <2>3 DEF DeleteBlob, Listed
    <3> QED BY <2>3, <3>1, BlobGoneMoves DEF DeleteBlob, quarantineBounds
  <2>4. ASSUME (\E n \in Ids : RestoreBegins(n)) \/ UnlinkMeta PROVE [FilesInCustody!Next]_where
    <3>1. UNCHANGED <<disk, blob, written, purged>>
      BY <2>4 DEF RestoreBegins, UnlinkMeta, storeVars, quarantineBounds
    <3> QED BY <3>1, NobodyMoves
  <2> QED BY <1>3, <2>1, <2>2, <2>3, <2>4 DEF ButtonStep
<1>4. ASSUME NEW i \in Items, NEW p \in Paths, Write(i, p) PROVE [FilesInCustody!Next]_where
  BY <1>4, WriteMoves
<1>5. ASSUME NEW s \in Scanners, Crash(s) PROVE [FilesInCustody!Next]_where
  <2>1. UNCHANGED <<disk, blob, written, purged>>
    BY <1>5 DEF Crash, storeVars
  <2> QED BY <2>1, NobodyMoves
<1> QED BY <1>1, <1>2, <1>3, <1>4, <1>5 DEF QuarantineNext

\* "never delete silently": through any crash, full disk and number of
\* scanners a file is on disk or in a blob until its user asks for its end.
THEOREM StoreKeepsCustody == ASSUME Calm PROVE QuarantineSpec => CustodySpec
<1>1. QuarantineInit => FilesInCustody!Init
  <2>1. ASSUME QuarantineInit PROVE where = [i \in Items |-> "unwritten"]
    <3>1. \A i \in Items : where[i] = "unwritten"
      BY <2>1, InitHolds, Places DEF QuarantineInit
    <3>2. where = [i \in Items |-> where[i]]
      BY DEF where
    <3> HIDE DEF where
    <3> QED BY <3>1, <3>2
  <2> QED BY <2>1 DEF FilesInCustody!Init
<1>2. IInv /\ IInv' /\ [QuarantineNext]_quarantineVars => [FilesInCustody!Next]_where
  BY StepSimulation
<1> QED BY <1>1, <1>2, InductiveInvariant, PTL DEF QuarantineSpec, CustodySpec, FilesInCustody!Spec
=============================================================================
