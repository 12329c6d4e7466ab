------------------------ MODULE ContinuousWatch_proofs ------------------------
(* Proofs about ContinuousWatch, for every set of directories and files and *)
(* every bound.                                                             *)
EXTENDS ContinuousWatch, SequenceTheorems, FiniteSetTheorems, TLAPS

\* The inductive invariant of KernelAgrees: watch numbers handed out so far are
\* above 0 and below nextWd, and the watch that is not recorded yet, if the
\* kernel still has it, is on the directory the loop of rescan() is at.
KInv ==
    /\ nextWd \in Nat /\ nextWd # 0
    /\ \A w \in DOMAIN kernel : w \in Nat /\ w # 0 /\ w < nextWd
    /\ unrecorded # 0 => pc \notin {"idle", "join"} /\ todo # <<>>
    /\ unrecorded \in DOMAIN kernel => kernel[unrecorded] = Head(todo)
    /\ KernelAgrees

\* One turn of rescan's loop marks a directory; the watch that replaces the
\* unrecorded one is the only one the table may be wrong about.
LEMMA MarkNextAgrees == KInv /\ MarkNext => KInv'
<1> SUFFICES ASSUME KInv, MarkNext PROVE KInv'
  OBVIOUS
<1> DEFINE d == Head(todo)
           wd == AddWatchNumber(d)
<1>1. CASE d \in marked \/ d \notin present
  BY <1>1 DEF MarkNext, KInv, KernelAgrees
<1>2. CASE ~(d \in marked \/ d \notin present)
  <2>1. /\ kernel' = Override(kernel, wd, d)
        /\ unrecorded = 0 /\ unrecorded' = wd
        /\ todo # <<>> /\ pc \notin {"idle", "join"}
        /\ UNCHANGED <<wdToDir, todo, pc>>
        /\ nextWd' = IF wd = nextWd THEN nextWd + 1 ELSE nextWd
    BY <1>2 DEF MarkNext
  <2>2. wd \in DOMAIN kernel \/ wd = nextWd
    BY DEF AddWatchNumber, Image
  <2>3. /\ nextWd' \in Nat /\ nextWd' # 0
        /\ wd \in Nat /\ wd # 0 /\ wd < nextWd' /\ nextWd <= nextWd'
    BY <2>1, <2>2 DEF KInv
  <2>4. d = Head(todo) /\ d' = d
    BY <2>1
  <2> HIDE DEF wd, d
  <2>5. \A w \in DOMAIN kernel' : w \in Nat /\ w # 0 /\ w < nextWd'
    BY <2>1, <2>3 DEF Override, KInv
  <2>6. KernelAgrees' /\ kernel'[unrecorded'] = d
    BY <2>1 DEF Override, KInv, KernelAgrees
  <2>7. QED
    BY <2>1, <2>3, <2>4, <2>5, <2>6 DEF KInv
<1>3. QED
  BY <1>1, <1>2

\* Recording it restores the agreement, also when it overwrites an entry of an
\* earlier instance and when the directory has vanished meanwhile.
LEMMA RecordNextAgrees == KInv /\ RecordNext => KInv'
<1> SUFFICES ASSUME KInv, RecordNext PROVE KInv'
  OBVIOUS
<1>1. /\ wdToDir' = Override(wdToDir, unrecorded, Head(todo))
      /\ unrecorded' = 0 /\ UNCHANGED <<kernel, nextWd>>
  BY DEF RecordNext, RecordMark, kernelVars
<1>2. KernelAgrees'
  BY <1>1 DEF Override, KInv, KernelAgrees
<1>3. QED
  BY <1>1, <1>2 DEF KInv

\* KernelAgrees holds in every execution: but for the one watch rescan() is
\* about to record, an event of the open instance is attributed to the
\* directory it happened in.
THEOREM EventsAttributed == WatchSpec => []KernelAgrees
<1>1. WatchInit => KInv
  BY DEF WatchInit, KInv, KernelAgrees
<1>2. KInv /\ [WatchNext]_watchVars => KInv'
  <2> SUFFICES ASSUME KInv, [WatchNext]_watchVars PROVE KInv'
    OBVIOUS
  <2> USE DEF KInv, KernelAgrees
  <2>1. CASE MarkNext \/ RecordNext
    BY <2>1, MarkNextAgrees, RecordNextAgrees DEF KInv
  <2>2. CASE StartOpens
    BY <2>2 DEF StartOpens
  <2>3. CASE StopCloses
    BY <2>3 DEF StopCloses
  <2>4. CASE StartReader \/ StopSignals \/ Rescan \/ DiscoverMounts
               \/ (\E m \in Mounts : AddWatchPath(m)) \/ ReconcileReturns
    BY <2>4 DEF StartReader, StopSignals, Rescan, DiscoverMounts, AddWatchPath,
                ReconcileReturns, kernelVars
  <2>5. CASE \E r \in Readers : Reader(r)
    BY <2>5 DEF Reader, ReaderEnds, ReadEvents, DeliverEvent, ScanReturns,
                BufferDone, kernelVars, daemonVars
  <2>6. CASE \E f \in Files, x \in Dirs : FileWritten(f, x)
    BY <2>6 DEF FileWritten, daemonVars
  <2>7. CASE \E x \in Dirs : Vanishes(x)
    BY <2>7 DEF Vanishes, daemonVars
  <2>8. CASE (\E x \in Dirs : Appears(x)) \/ SettingChanges
    BY <2>8 DEF Appears, SettingChanges, kernelVars, daemonVars
  <2>9. CASE UNCHANGED watchVars
    BY <2>9 DEF watchVars, kernelVars, daemonVars
  <2>10. QED
    BY <2>1, <2>2, <2>3, <2>4, <2>5, <2>6, <2>7, <2>8, <2>9
    DEF WatchNext, Daemon, Environment
<1>3. KInv => KernelAgrees
  BY DEF KInv
<1>4. QED
  BY <1>1, <1>2, <1>3, PTL DEF WatchSpec

LEMMA EmptyFunction == DOMAIN <<>> = {} /\ Image(<<>>) = {}
  BY DEF Image

LEMMA FixedIsDirs == Listings(Fixed) \subseteq Seq(Dirs)
<1>1. Cardinality(Fixed) \in Nat
  BY WatchConstants, FS_CardinalityType
<1> QED BY <1>1 DEF Listings, Dirs

LEMMA KeptTypes ==
  /\ UNCHANGED envVars /\ EnvType => EnvType'
  /\ UNCHANGED kernelVars /\ KernelType => KernelType'
  /\ UNCHANGED readerVars /\ ReaderType => ReaderType'
  /\ UNCHANGED <<daemonVars, wdToDir, stopEvent>> /\ DaemonType => DaemonType'
<1>1. UNCHANGED envVars /\ EnvType => EnvType'
  BY DEF envVars, EnvType
<1>2. UNCHANGED kernelVars /\ KernelType => KernelType'
  BY DEF kernelVars, KernelType, Image
<1>3. UNCHANGED readerVars /\ ReaderType => ReaderType'
  BY DEF readerVars, ReaderType
<1>4. UNCHANGED <<daemonVars, wdToDir, stopEvent>> /\ DaemonType => DaemonType'
  BY DEF daemonVars, DaemonType, Image
<1>5. QED
  BY <1>1, <1>2, <1>3, <1>4

\* One turn of rescan's loop keeps the types.
LEMMA MarkNextType == WatchTypeOK /\ MarkNext => WatchTypeOK'
<1> SUFFICES ASSUME WatchTypeOK, MarkNext PROVE WatchTypeOK'
  OBVIOUS
<1> DEFINE d == Head(todo)
           wd == AddWatchNumber(d)
<1>1. d \in Dirs /\ todo' \in Seq(Dirs)
  BY DEF MarkNext, WatchTypeOK, DaemonType
<1>2. CASE d \in marked \/ d \notin present
  BY <1>1, <1>2, KeptTypes
  DEF MarkNext, WatchTypeOK, DaemonType, kernelVars, Image
<1>3. CASE ~(d \in marked \/ d \notin present)
  <2>1. /\ kernel' = Override(kernel, wd, d)
        /\ unrecorded' = wd
        /\ nextWd' = IF wd = nextWd THEN nextWd + 1 ELSE nextWd
    BY <1>3 DEF MarkNext
  <2>2. wd \in DOMAIN kernel \/ wd = nextWd
    BY DEF AddWatchNumber, Image
  <2>3. wd \in Nat /\ nextWd' \in Nat \ {0} /\ wd \in 1..(nextWd' - 1)
        /\ 1..(nextWd - 1) \subseteq 1..(nextWd' - 1)
    BY <2>1, <2>2 DEF WatchTypeOK, KernelType
  <2> HIDE DEF wd, d
  <2>4. Image(kernel)' \subseteq Image(kernel) \cup {d}
        /\ DOMAIN kernel' = DOMAIN kernel \cup {wd}
    BY <2>1 DEF Override, Image
  <2>5. KernelType'
    BY <1>1, <2>3, <2>4 DEF WatchTypeOK, KernelType, MarkNext
  <2>6. DaemonType'
    BY <1>1, <2>1, <2>3 DEF WatchTypeOK, DaemonType, MarkNext, Image
  <2>7. QED
    BY <2>5, <2>6, KeptTypes DEF WatchTypeOK, MarkNext
<1>4. QED
  BY <1>2, <1>3

\* Recording a mark keeps the types.
LEMMA RecordNextType == WatchTypeOK /\ RecordNext => WatchTypeOK'
<1> SUFFICES ASSUME WatchTypeOK, RecordNext PROVE WatchTypeOK'
  OBVIOUS
<1>1. /\ Head(todo) \in Dirs /\ todo' \in Seq(Dirs)
      /\ unrecorded \in Nat /\ unrecorded' = 0
      /\ wdToDir' = Override(wdToDir, unrecorded, Head(todo))
  BY DEF RecordNext, RecordMark, WatchTypeOK, DaemonType
<1>2. Image(wdToDir)' \subseteq Image(wdToDir) \cup {Head(todo)}
      /\ DOMAIN wdToDir' = DOMAIN wdToDir \cup {unrecorded}
  BY <1>1 DEF Override, Image
<1>3. DaemonType'
  BY <1>1, <1>2 DEF WatchTypeOK, DaemonType, RecordNext
<1>4. QED
  BY <1>3, KeptTypes DEF WatchTypeOK, RecordNext

\* Every step of the daemon thread keeps the types.
LEMMA DaemonTypes == WatchTypeOK /\ Daemon => WatchTypeOK'
<1> SUFFICES ASSUME WatchTypeOK, Daemon PROVE WatchTypeOK'
  OBVIOUS
<1> USE DEF WatchTypeOK, BeginRescan
<1>1. CASE MarkNext \/ RecordNext
  BY <1>1, MarkNextType, RecordNextType
<1>2. CASE StartOpens
  <2>1. KernelType'
    BY <1>2, EmptyFunction DEF StartOpens, KernelType, Image
  <2>2. DaemonType'
    BY <1>2 DEF StartOpens, DaemonType, Image
  <2>3. QED
    BY KeptTypes, <1>2, <2>1, <2>2 DEF StartOpens
<1>3. CASE StartReader
  <2>1. thread + 1 \in Readers /\ thread + 1 \in 0..MaxStarts
    BY <1>3, WatchConstants DEF StartReader, DaemonType, Readers
  <2>2. ReaderType'
    BY <1>3, <2>1 DEF StartReader, ReaderType
  <2>3. DaemonType'
    BY <1>3, <2>1 DEF StartReader, DaemonType, Image
  <2>4. QED
    BY KeptTypes, <1>3, <2>2, <2>3 DEF StartReader
<1>4. CASE StopCloses
  <2>1. KernelType'
    <3>1. nextWd' = 1 /\ kernel' = <<>> /\ queue' = <<>>
      BY <1>4 DEF StopCloses
    <3>2. DOMAIN kernel' = {} /\ Image(kernel)' = {}
      BY <3>1, EmptyFunction DEF Image
    <3>3. isOpen' \in BOOLEAN
      BY <1>4 DEF StopCloses
    <3>4. queue' \in Seq(Event)
      BY <3>1
    <3>5. QED
      BY <3>1, <3>2, <3>3, <3>4 DEF KernelType
  <2>2. DaemonType'
    BY <1>4 DEF StopCloses, DaemonType, Image
  <2>3. QED
    BY KeptTypes, <1>4, <2>1, <2>2 DEF StopCloses
<1>5. CASE StopSignals \/ Rescan \/ DiscoverMounts \/ ReconcileReturns
  <2>1. DaemonType'
    BY <1>5 DEF StopSignals, SetStopEvent, Rescan, DiscoverMounts, ReconcileReturns,
                DaemonType, Image
  <2>2. QED
    BY KeptTypes, <1>5, <2>1 DEF StopSignals, SetStopEvent, Rescan, DiscoverMounts, ReconcileReturns
<1>6. CASE \E m \in Mounts : AddWatchPath(m)
  <2>1. DaemonType'
    BY <1>6 DEF AddWatchPath, Track, DaemonType, Image, Dirs
  <2>2. QED
    BY KeptTypes, <1>6, <2>1 DEF AddWatchPath
<1>7. QED
  BY <1>1, <1>2, <1>3, <1>4, <1>5, <1>6 DEF Daemon

\* Every step of a reader thread keeps the types.
LEMMA ReaderTypes ==
  ASSUME NEW r \in Readers, WatchTypeOK, Reader(r) PROVE WatchTypeOK'
<1> USE DEF WatchTypeOK
<1>1. CASE ReaderEnds(r) \/ ScanReturns(r) \/ BufferDone(r)
  <2>1. ReaderType'
    BY <1>1 DEF ReaderEnds, ScanReturns, BufferDone, ReaderType
  <2>2. QED
    BY KeptTypes, <1>1, <2>1 DEF ReaderEnds, ScanReturns, BufferDone
<1>2. CASE ReadEvents(r)
  <2> DEFINE n == IF Len(queue) < Batch THEN Len(queue) ELSE Batch
  <2>1. n \in 0..Len(queue) /\ Len(queue) \in Nat
    BY WatchConstants DEF KernelType
  <2>2. \A i \in 1..Len(queue) : queue[i] \in Event
    BY ElementOfSeq DEF KernelType
  <2>3. /\ buffer' = [buffer EXCEPT ![r] = SubSeq(queue, 1, n)]
        /\ queue' = SubSeq(queue, n + 1, Len(queue))
    BY <1>2 DEF ReadEvents
  <2> HIDE DEF n
  <2>4. SubSeq(queue, 1, n) \in Seq(Event)
        /\ SubSeq(queue, n + 1, Len(queue)) \in Seq(Event)
    BY <2>1, <2>2, SubSeqProperties
  <2>5. KernelType'
    <3>1. UNCHANGED <<isOpen, kernel, nextWd>>
      BY <1>2 DEF ReadEvents
    <3>2. queue' \in Seq(Event)
      BY <2>3, <2>4
    <3>3. QED
      BY <3>1, <3>2 DEF KernelType, Image
  <2>6. ReaderType'
    BY <1>2, <2>3, <2>4 DEF ReadEvents, ReaderType
  <2>7. QED
    BY KeptTypes, <1>2, <2>5, <2>6 DEF ReadEvents
<1>3. CASE DeliverEvent(r)
  <2> DEFINE wd == Head(buffer[r])[1]
             file == Head(buffer[r])[2]
             known == wd \in DOMAIN wdToDir
  <2>1. buffer[r] \in Seq(Event) /\ buffer[r] # <<>>
    BY <1>3 DEF DeliverEvent, PastEvent, ReaderType
  <2>2. file \in Files /\ Tail(buffer[r]) \in Seq(Event)
    <3>1. Head(buffer[r]) \in Event
      BY <2>1
    <3>2. QED
      BY <2>1, <3>1 DEF Event
  <2>3. known => Append(scans[file], wdToDir[wd]) \in Seq(Dirs)
    <3>1. known => wdToDir[wd] \in Dirs
      BY DEF DaemonType, Image
    <3>2. QED
      BY <2>2, <3>1 DEF ReaderType
  <2>4. ReaderType'
    <3>1. CASE file \in Undecodable
      BY <1>3, <3>1 DEF DeliverEvent, PastEvent, ReaderType
    <3>2. CASE file \notin Undecodable
      <4>1. /\ buffer' = [buffer EXCEPT ![r] = Tail(@)]
            /\ reader' = [reader EXCEPT ![r] = IF known THEN "scan" ELSE @]
            /\ scans' = [scans EXCEPT ![file] =
                            IF known THEN Append(@, wdToDir[wd]) ELSE @]
        BY <1>3, <3>2 DEF DeliverEvent, PastEvent
      <4> HIDE DEF known, wd, file
      <4>2. QED
        BY <2>2, <2>3, <4>1 DEF ReaderType
    <3>3. QED
      BY <3>1, <3>2
  <2>5. QED
    BY KeptTypes, <1>3, <2>4 DEF DeliverEvent, PastEvent
<1>4. QED
  BY <1>1, <1>2, <1>3 DEF Reader

\* Every step of the environment keeps the types.
LEMMA EnvironmentTypes == WatchTypeOK /\ Environment => WatchTypeOK'
<1> SUFFICES ASSUME WatchTypeOK, Environment PROVE WatchTypeOK'
  OBVIOUS
<1> USE DEF WatchTypeOK
<1>1. ASSUME NEW f \in Files, NEW x \in Dirs, FileWritten(f, x) PROVE WatchTypeOK'
  <2>1. EnvType'
    BY <1>1 DEF FileWritten, EnvType
  <2>2. \/ UNCHANGED queue
        \/ \E w \in DOMAIN kernel : queue' = Append(queue, <<w, f>>)
    BY <1>1 DEF FileWritten
  <2>3. \A w \in DOMAIN kernel : <<w, f>> \in Event
    BY DEF KernelType, Event
  <2>4. queue' \in Seq(Event)
    <3>1. queue \in Seq(Event)
      BY DEF KernelType
    <3>2. \A w \in DOMAIN kernel : Append(queue, <<w, f>>) \in Seq(Event)
      BY <2>3, <3>1, AppendProperties
    <3>3. QED
      BY <2>2, <3>1, <3>2
  <2>5. KernelType'
    BY <1>1, <2>4 DEF FileWritten, KernelType, Image
  <2>6. QED
    BY KeptTypes, <1>1, <2>1, <2>5 DEF FileWritten
<1>2. ASSUME NEW x \in Dirs, Appears(x) PROVE WatchTypeOK'
  BY <1>2, KeptTypes DEF Appears, EnvType
<1>3. ASSUME NEW x \in Dirs, Vanishes(x) PROVE WatchTypeOK'
  <2>1. EnvType'
    BY <1>3 DEF Vanishes, EnvType
  <2>2. KernelType'
    BY <1>3 DEF Vanishes, KernelType, Image
  <2>3. QED
    BY KeptTypes, <1>3, <2>1, <2>2 DEF Vanishes
<1>4. CASE SettingChanges
  BY <1>4, KeptTypes DEF SettingChanges, EnvType
<1>5. QED
  BY <1>1, <1>2, <1>3, <1>4 DEF Environment

\* WatchTypeOK holds in every execution.
THEOREM TypeCorrect == WatchSpec => []WatchTypeOK
<1>1. WatchInit => WatchTypeOK
  <2> SUFFICES ASSUME WatchInit PROVE WatchTypeOK
    OBVIOUS
  <2>1. EnvType
    BY DEF WatchInit, EnvType
  <2>2. KernelType
    <3>1. /\ nextWd = 1 /\ queue \in Seq(Event)
          /\ DOMAIN kernel = {} /\ Image(kernel) = {}
      BY EmptyFunction DEF WatchInit
    <3>2. isOpen \in BOOLEAN
      BY DEF WatchInit
    <3>3. QED
      BY <3>1, <3>2 DEF KernelType
  <2>3. ReaderType
    BY DEF WatchInit, ReaderType
  <2>4. DaemonType
    <3>1. DOMAIN wdToDir = {} /\ Image(wdToDir) = {}
      BY EmptyFunction DEF WatchInit
    <3>2. watchPaths \in Seq(Dirs)
      BY FixedIsDirs DEF WatchInit
    <3>3. thread \in 0..MaxStarts
      BY WatchConstants DEF WatchInit
    <3>4. /\ pc = "idle" /\ todo \in Seq(Dirs) /\ marked = {} /\ mounted = {}
          /\ unrecorded = 0
      BY DEF WatchInit
    <3>5. stopEvent \in BOOLEAN /\ running \in BOOLEAN
      BY DEF WatchInit
    <3>6. QED
      BY <3>1, <3>2, <3>3, <3>4, <3>5 DEF DaemonType
  <2>5. QED
    BY <2>1, <2>2, <2>3, <2>4 DEF WatchTypeOK
<1>2. WatchTypeOK /\ [WatchNext]_watchVars => WatchTypeOK'
  <2>1. WatchTypeOK /\ UNCHANGED watchVars => WatchTypeOK'
    BY KeptTypes DEF watchVars, WatchTypeOK
  <2>2. QED
    BY <2>1, DaemonTypes, ReaderTypes, EnvironmentTypes DEF WatchNext
<1>3. QED
  BY <1>1, <1>2, PTL DEF WatchSpec

-----------------------------------------------------------------------------
(* Files are scanned at most once.  A written file has one event, which is *)
(* in the queue, in the buffer of one reader, or handed on; reading moves  *)
(* events from the queue to one reader, whichever of two reads first.      *)

In(s, f) == \E i \in 1..Len(s) : s[i][2] = f
Once(s) == \A i, j \in 1..Len(s) : s[i][2] = s[j][2] => i = j

QueueOnce ==
    /\ Once(queue)
    /\ \A f \in Files : In(queue, f) =>
           scans[f] = <<>> /\ home[f] # Nowhere /\ \A r \in Readers : ~In(buffer[r], f)

BuffersOnce ==
    /\ \A r \in Readers : Once(buffer[r])
    /\ \A r \in Readers, f \in Files : In(buffer[r], f) =>
           scans[f] = <<>> /\ home[f] # Nowhere /\ \A q \in Readers : In(buffer[q], f) => q = r

OnceInv ==
    /\ QueueOnce /\ BuffersOnce /\ AtMostOneCallback
    /\ \A f \in Files : home[f] = Nowhere => scans[f] = <<>>

LEMMA NoEvents == Once(<<>>) /\ \A f : ~In(<<>>, f)
BY DEF Once, In

LEMMA SplitOnce ==
    ASSUME NEW s \in Seq(Event), Once(s), NEW n \in 0..Len(s)
    PROVE  LET a == SubSeq(s, 1, n)
               b == SubSeq(s, n + 1, Len(s))
           IN  /\ Once(a) /\ Once(b)
               /\ \A f : (In(a, f) => In(s, f)) /\ (In(b, f) => In(s, f)) /\ ~(In(a, f) /\ In(b, f))
<1> DEFINE a == SubSeq(s, 1, n)
           b == SubSeq(s, n + 1, Len(s))
<1>0. Len(s) \in Nat /\ \A i \in 1..Len(s) : s[i] \in Event
  BY ElementOfSeq
<1>1. Len(a) = n /\ \A i \in 1..n : a[i] = s[i]
  BY <1>0
<1>2. Len(b) = Len(s) - n /\ \A i \in 1..(Len(s) - n) : b[i] = s[n + i]
  BY <1>0
<1> HIDE DEF a, b
<1>3. Once(a)
  BY <1>0, <1>1 DEF Once
<1>4. Once(b)
  <2> SUFFICES ASSUME NEW i \in 1..Len(b), NEW j \in 1..Len(b), b[i][2] = b[j][2]
               PROVE  i = j
    BY DEF Once
  <2>1. n + i \in 1..Len(s) /\ n + j \in 1..Len(s) /\ s[n + i][2] = s[n + j][2]
    BY <1>0, <1>2
  <2>2. n + i = n + j
    BY <2>1 DEF Once
  <2> QED BY <2>2, <1>2, <1>0
<1>5. ASSUME NEW f, In(a, f) PROVE In(s, f) /\ ~In(b, f)
  <2>1. PICK i \in 1..n : s[i][2] = f
    BY <1>1, <1>5 DEF In
  <2>2. i \in 1..Len(s)
    BY <1>0
  <2>3. ASSUME NEW j \in 1..Len(b), b[j][2] = f PROVE FALSE
    <3>1. n + j \in 1..Len(s) /\ s[n + j][2] = f
      BY <1>0, <1>2, <2>3
    <3>2. i = n + j
      BY <2>1, <2>2, <3>1 DEF Once
    <3> QED BY <3>2, <1>0, <1>2
  <2> QED BY <2>1, <2>2, <2>3 DEF In
<1>6. ASSUME NEW f, In(b, f) PROVE In(s, f)
  <2>1. PICK j \in 1..Len(b) : b[j][2] = f
    BY <1>6 DEF In
  <2>2. n + j \in 1..Len(s) /\ s[n + j][2] = f
    BY <1>0, <1>2, <2>1
  <2> QED BY <2>2 DEF In
<1> QED BY <1>3, <1>4, <1>5, <1>6 DEF a, b

LEMMA TailOnce ==
    ASSUME NEW s \in Seq(Event), Once(s), s # <<>>
    PROVE  /\ Once(Tail(s)) /\ In(s, Head(s)[2]) /\ ~In(Tail(s), Head(s)[2])
           /\ \A f : In(Tail(s), f) => In(s, f)
<1>1. Len(s) \in Nat \ {0} /\ Head(s) = s[1]
  OBVIOUS
<1>2. Tail(s) = SubSeq(s, 2, Len(s)) /\ Len(SubSeq(s, 1, 1)) = 1 /\ SubSeq(s, 1, 1)[1] = s[1]
  BY <1>1
<1>3. In(SubSeq(s, 1, 1), s[1][2]) /\ In(s, s[1][2])
  BY <1>1, <1>2 DEF In
<1>4. \A n \in 0..Len(s) :
          /\ Once(SubSeq(s, n + 1, Len(s)))
          /\ \A f : /\ In(SubSeq(s, n + 1, Len(s)), f) => In(s, f)
                    /\ ~(In(SubSeq(s, 1, n), f) /\ In(SubSeq(s, n + 1, Len(s)), f))
  BY SplitOnce
<1>5. 1 \in 0..Len(s) /\ 1 + 1 = 2
  BY <1>1
<1>6. Once(SubSeq(s, 2, Len(s)))
      /\ \A f : /\ In(SubSeq(s, 2, Len(s)), f) => In(s, f)
                /\ ~(In(SubSeq(s, 1, 1), f) /\ In(SubSeq(s, 2, Len(s)), f))
  BY <1>4, <1>5
<1> QED BY <1>1, <1>2, <1>3, <1>6

LEMMA AppendOnce ==
    ASSUME NEW s \in Seq(Event), Once(s), NEW w \in Nat, NEW f \in Files, ~In(s, f)
    PROVE  Once(Append(s, <<w, f>>)) /\ \A g : In(Append(s, <<w, f>>), g) => In(s, g) \/ g = f
<1> DEFINE t == Append(s, <<w, f>>)
<1>1. /\ Len(s) \in Nat /\ Len(t) = Len(s) + 1
      /\ \A i \in 1..Len(s) : t[i] = s[i]
      /\ t[Len(s) + 1] = <<w, f>>
  OBVIOUS
<1> HIDE DEF t
<1>2. \A i \in 1..Len(t) : (i \in 1..Len(s) /\ t[i] = s[i] /\ s[i][2] # f) \/ (i = Len(s) + 1 /\ t[i][2] = f)
  BY <1>1 DEF In
<1>3. Once(t)
  BY <1>2 DEF Once
<1>4. \A g : In(t, g) => In(s, g) \/ g = f
  BY <1>2 DEF In
<1> QED BY <1>3, <1>4 DEF t

LEMMA ReadsOnce ==
    ASSUME WatchTypeOK, OnceInv, NEW r \in Readers, ReadEvents(r)
    PROVE  OnceInv'
<1> DEFINE n == IF Len(queue) < Batch THEN Len(queue) ELSE Batch
           a == SubSeq(queue, 1, n)
           b == SubSeq(queue, n + 1, Len(queue))
<1>1. queue \in Seq(Event) /\ Once(queue)
  BY DEF WatchTypeOK, KernelType, OnceInv, QueueOnce
<1>2. n \in 0..Len(queue)
  BY <1>1, WatchConstants
<1>3. /\ Once(a) /\ Once(b)
      /\ \A f : (In(a, f) => In(queue, f)) /\ (In(b, f) => In(queue, f)) /\ ~(In(a, f) /\ In(b, f))
  <2> HIDE DEF n
  <2> QED BY <1>1, <1>2, SplitOnce
<1>4. buffer' = [buffer EXCEPT ![r] = a] /\ queue' = b /\ UNCHANGED <<scans, home>>
  BY DEF ReadEvents, envVars
<1>5. buffer \in [Readers -> Seq(Event)]
  BY DEF WatchTypeOK, ReaderType
<1> HIDE DEF a, b, n
<1>6. buffer'[r] = a /\ \A q \in Readers : q # r => buffer'[q] = buffer[q]
  BY <1>4, <1>5
<1>7. QueueOnce'
  <2> SUFFICES ASSUME NEW f \in Files, In(b, f)
               PROVE  scans[f] = <<>> /\ home[f] # Nowhere /\ \A q \in Readers : ~In(buffer'[q], f)
    BY <1>3, <1>4 DEF QueueOnce
  <2> QED BY <1>3, <1>6 DEF OnceInv, QueueOnce
<1>8. BuffersOnce'
  <2>1. \A q \in Readers : Once(buffer'[q])
    BY <1>3, <1>6 DEF OnceInv, BuffersOnce
  <2>2. ASSUME NEW q \in Readers, NEW f \in Files, In(buffer'[q], f)
        PROVE  scans[f] = <<>> /\ home[f] # Nowhere /\ \A p \in Readers : In(buffer'[p], f) => p = q
    BY <1>3, <1>6, <2>2 DEF OnceInv, QueueOnce, BuffersOnce
  <2> QED BY <1>4, <2>1, <2>2 DEF BuffersOnce
<1> QED BY <1>4, <1>7, <1>8 DEF OnceInv, AtMostOneCallback

LEMMA DeliversOnce ==
    ASSUME WatchTypeOK, OnceInv, NEW r \in Readers, DeliverEvent(r)
    PROVE  OnceInv'
<1> DEFINE wd == Head(buffer[r])[1]
           file == Head(buffer[r])[2]
<1>1. /\ buffer \in [Readers -> Seq(Event)] /\ buffer[r] \in Seq(Event) /\ buffer[r] # <<>>
      /\ scans \in [Files -> Seq(Dirs)] /\ Once(buffer[r]) /\ UNCHANGED <<queue, home>>
  BY DEF WatchTypeOK, ReaderType, DeliverEvent, OnceInv, BuffersOnce, kernelVars, envVars
<1>2. CASE UNCHANGED <<buffer, scans>>
  BY <1>1, <1>2 DEF OnceInv, QueueOnce, BuffersOnce, AtMostOneCallback
<1>3. CASE /\ buffer' = [buffer EXCEPT ![r] = Tail(@)]
           /\ scans' = [scans EXCEPT ![file] = IF wd \in DOMAIN wdToDir THEN Append(@, wdToDir[wd]) ELSE @]
  <2>1. Head(buffer[r]) \in Event /\ file \in Files
    <3>1. Head(buffer[r]) \in Event
      BY <1>1
    <3> QED BY <3>1 DEF Event
  <2>2. /\ Once(Tail(buffer[r])) /\ In(buffer[r], file) /\ ~In(Tail(buffer[r]), file)
        /\ \A f : In(Tail(buffer[r]), f) => In(buffer[r], f)
    BY <1>1, TailOnce
  <2>3. scans[file] = <<>> /\ home[file] # Nowhere /\ ~In(queue, file)
        /\ \A q \in Readers : In(buffer[q], file) => q = r
    BY <2>1, <2>2 DEF OnceInv, QueueOnce, BuffersOnce
  <2>4. Len(scans'[file]) <= 1 /\ \A f \in Files : f # file => scans'[f] = scans[f]
    <3>1. Len(<<>>) <= 1 /\ \A x : Len(Append(<<>>, x)) <= 1
      OBVIOUS
    <3>2. scans'[file] = scans[file] \/ scans'[file] = Append(scans[file], wdToDir[wd])
      BY <1>1, <1>3, <2>1
    <3> HIDE DEF file, wd
    <3> QED BY <1>1, <1>3, <2>1, <2>3, <3>1, <3>2
  <2>5. buffer'[r] = Tail(buffer[r]) /\ \A q \in Readers : q # r => buffer'[q] = buffer[q]
    BY <1>1, <1>3
  <2> HIDE DEF file, wd
  <2>6. \A q \in Readers, f \in Files : In(buffer'[q], f) => f # file /\ In(buffer[q], f)
    BY <2>2, <2>3, <2>5
  <2>7. QueueOnce'
    BY <1>1, <2>3, <2>4, <2>6 DEF OnceInv, QueueOnce
  <2>8. BuffersOnce'
    <3>1. \A q \in Readers : Once(buffer'[q])
      BY <2>2, <2>5 DEF OnceInv, BuffersOnce
    <3> QED BY <1>1, <2>4, <2>6, <3>1 DEF OnceInv, BuffersOnce
  <2> QED BY <1>1, <2>3, <2>4, <2>7, <2>8 DEF OnceInv, AtMostOneCallback
<1> QED BY <1>2, <1>3 DEF DeliverEvent, PastEvent

LEMMA WrittenOnce ==
    ASSUME WatchTypeOK, OnceInv, NEW f \in Files, NEW d \in Dirs, FileWritten(f, d)
    PROVE  OnceInv'
<1>1. queue \in Seq(Event) /\ home \in [Files -> Dirs \cup {Nowhere}] /\ d # Nowhere
  BY WatchConstants DEF WatchTypeOK, KernelType, EnvType
<1>2. home' = [home EXCEPT ![f] = d] /\ home[f] = Nowhere /\ UNCHANGED <<buffer, scans>>
  BY DEF FileWritten, readerVars
<1>3. ~In(queue, f) /\ scans[f] = <<>> /\ \A r \in Readers : ~In(buffer[r], f)
  BY <1>2 DEF OnceInv, QueueOnce, BuffersOnce
<1>4. \A g \in Files : home'[g] = Nowhere => home[g] = Nowhere
  BY <1>1, <1>2
<1>5. home'[f] # Nowhere /\ \A g \in Files : g # f => home'[g] = home[g]
  BY <1>1, <1>2
<1>6. queue' = queue \/ \E w \in DOMAIN kernel : queue' = Append(queue, <<w, f>>)
  BY DEF FileWritten
<1>7. \A w \in DOMAIN kernel : w \in Nat
  BY DEF WatchTypeOK, KernelType
<1>8. Once(queue) /\ Once(queue') /\ \A g : In(queue', g) => In(queue, g) \/ g = f
  <2>1. Once(queue)
    BY DEF OnceInv, QueueOnce
  <2>2. CASE queue' = queue
    BY <2>1, <2>2
  <2>3. ASSUME NEW w \in DOMAIN kernel, queue' = Append(queue, <<w, f>>)
        PROVE  Once(queue') /\ \A g : In(queue', g) => In(queue, g) \/ g = f
    BY <1>1, <1>3, <1>7, <2>1, <2>3, AppendOnce
  <2> QED BY <1>6, <2>1, <2>2, <2>3
<1>9. QueueOnce'
  BY <1>2, <1>3, <1>5, <1>8 DEF OnceInv, QueueOnce
<1>10. BuffersOnce'
  BY <1>2, <1>4 DEF OnceInv, BuffersOnce
<1> QED BY <1>2, <1>4, <1>9, <1>10 DEF OnceInv, AtMostOneCallback

LEMMA OnceStep == WatchTypeOK /\ OnceInv /\ [WatchNext]_watchVars => OnceInv'
<1> SUFFICES ASSUME WatchTypeOK, OnceInv, [WatchNext]_watchVars PROVE OnceInv'
  OBVIOUS
<1>1. ASSUME queue' = queue \/ queue' = <<>>, UNCHANGED <<buffer, scans, home>> PROVE OnceInv'
  BY <1>1, NoEvents DEF OnceInv, QueueOnce, BuffersOnce, AtMostOneCallback
<1>2. CASE Daemon
  BY <1>1, <1>2 DEF Daemon, MarkNext, RecordNext, StartOpens, StartReader, StopSignals, StopCloses, Rescan,
                    DiscoverMounts, AddWatchPath, ReconcileReturns, envVars, kernelVars, readerVars
<1>3. ASSUME NEW r \in Readers, Reader(r) PROVE OnceInv'
  <2>1. CASE ReaderEnds(r) \/ ScanReturns(r) \/ BufferDone(r)
    BY <1>1, <2>1 DEF ReaderEnds, ScanReturns, BufferDone, envVars, kernelVars
  <2> QED BY <1>3, <2>1, ReadsOnce, DeliversOnce DEF Reader
<1>4. CASE Environment
  <2>1. CASE SettingChanges \/ \E d \in Dirs : Appears(d) \/ Vanishes(d)
    BY <1>1, <2>1 DEF SettingChanges, Appears, Vanishes, kernelVars, readerVars
  <2> QED BY <1>4, <2>1, WrittenOnce DEF Environment
<1>5. CASE UNCHANGED watchVars
  BY <1>1, <1>5 DEF watchVars, envVars, kernelVars, readerVars
<1> QED BY <1>2, <1>3, <1>4, <1>5 DEF WatchNext

\* However often protection is switched off and on, and however many readers
\* _run() leaves on the descriptor, no file is handed to the callback twice.
THEOREM ScannedAtMostOnce == WatchSpec => []AtMostOneCallback
<1>1. WatchInit => OnceInv
  BY NoEvents DEF WatchInit, OnceInv, QueueOnce, BuffersOnce, AtMostOneCallback
<1>2. OnceInv => AtMostOneCallback
  BY DEF OnceInv
<1> QED BY <1>1, <1>2, OnceStep, TypeCorrect, PTL DEF WatchSpec
=============================================================================
