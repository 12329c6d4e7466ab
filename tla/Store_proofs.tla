---------------------------- MODULE Store_proofs ----------------------------
(***************************************************************************)
(* Proofs about the Store: of its background jobs, for any set of tabs and *)
(* any number of requests, and of the gate that installs packages with the *)
(* Shield it uses, for any files, contents and report limit.               *)
(***************************************************************************)
EXTENDS MCStore, TLAPS

(* The background jobs.                                                    *)

\* A token is drawn with every request, so it counts them.
TokenCounts == \A t \in Tabs : token[t] = made[t]

\* No thread has a token of the future, and the one that has the newest token
\* works for the newest request.
ThreadsAreDated ==
    \A w \in threads :
        /\ w.token <= token[w.tab]
        /\ w.token = token[w.tab] => w.request = wanted[w.tab]

\* What waits in a slot is the newest request.
QueueIsNewest ==
    \A t \in Tabs : queued[t] # NoJob =>
        queued[t].token = token[t] /\ queued[t].request = wanted[t]

\* What is shown is the newest request's result or nothing.
ViewIsNewest == \A t \in Tabs : view[t] \in {0, wanted[t]}

\* The whole invariant of the jobs.
JobsInv ==
    /\ JobsTypeOK
    /\ TokenCounts
    /\ ThreadsAreDated
    /\ QueueIsNewest
    /\ ViewIsNewest
    /\ OneRunning
    /\ NothingForgotten

\* What the window's tables may not lose in a step, without the histories.
TablesOK ==
    /\ queued \in [Tabs -> Jobs \cup {NoJob}]
    /\ running \subseteq Tabs
    /\ threads \subseteq Threads
    /\ ThreadsAreDated /\ QueueIsNewest /\ OneRunning /\ NothingForgotten

-----------------------------------------------------------------------------

\* The initial state satisfies the invariant.
LEMMA InitJobsInv == JobsInit => JobsInv
<1> SUFFICES ASSUME JobsInit PROVE JobsInv
  OBVIOUS
<1>1. closed \in BOOLEAN
  BY DEF JobsInit
<1>2. JobsTypeOK
  BY <1>1, JobsConstants DEF JobsInit, JobsTypeOK
<1>3. TokenCounts /\ QueueIsNewest /\ ViewIsNewest /\ NothingForgotten
  BY DEF JobsInit, TokenCounts, QueueIsNewest, ViewIsNewest, NothingForgotten
<1>4. ThreadsAreDated /\ OneRunning
  BY DEF JobsInit, ThreadsAreDated, OneRunning
<1> QED BY <1>2, <1>3, <1>4 DEF JobsInv

\* A request keeps the invariant: the new token makes every thread of the tab
\* an old one, and the slot is filled with it or emptied into a thread.
LEMMA SubmitJobsInv ==
  ASSUME JobsInv, NEW t \in Tabs, Submit(t)
  PROVE  JobsInv'
<1> DEFINE job == [token |-> token[t] + 1, request |-> made[t] + 1]
           q == [queued EXCEPT ![t] = job]
<1> USE JobsConstants
<1>1. /\ made[t] \in 0..MaxRequests /\ made[t] + 1 \in Requests
      /\ token[t] = made[t]
      /\ made' = [made EXCEPT ![t] = made[t] + 1]
      /\ token' = [token EXCEPT ![t] = token[t] + 1]
      /\ wanted' = [wanted EXCEPT ![t] = made[t] + 1]
      /\ view' = [view EXCEPT ![t] = 0]
      /\ closed' = closed /\ ~closed
  BY DEF JobsInv, JobsTypeOK, TokenCounts, Submit, NextToken, Requests
<1>2. job \in Jobs /\ job # NoJob
  BY <1>1 DEF Jobs, NoJob, Requests
<1>3. StartQueuedJob(t, q, running, threads)
  BY DEF Submit, Queue, NextToken
<1>4. /\ made' \in [Tabs -> 0..MaxRequests] /\ token' \in [Tabs -> 0..MaxRequests]
      /\ wanted' \in [Tabs -> 0..MaxRequests] /\ view' \in [Tabs -> 0..MaxRequests]
      /\ closed' \in BOOLEAN /\ TokenCounts' /\ ViewIsNewest'
  <2>1. closed' \in BOOLEAN
    BY <1>1 DEF JobsInv, JobsTypeOK
  <2>2. /\ made' \in [Tabs -> 0..MaxRequests] /\ token' \in [Tabs -> 0..MaxRequests]
        /\ wanted' \in [Tabs -> 0..MaxRequests] /\ view' \in [Tabs -> 0..MaxRequests]
    BY <1>1 DEF JobsInv, JobsTypeOK, Requests
  <2>3. TokenCounts' /\ ViewIsNewest'
    BY <1>1 DEF JobsInv, JobsTypeOK, TokenCounts, ViewIsNewest
  <2> QED BY <2>1, <2>2, <2>3
<1>5. q \in [Tabs -> Jobs \cup {NoJob}] /\ q[t] = job
  BY <1>2 DEF JobsInv, JobsTypeOK
<1>6. \A w \in threads : w.token <= token'[w.tab]
                         /\ (w.token = token'[w.tab] => w.request = wanted'[w.tab])
  BY <1>1 DEF JobsInv, JobsTypeOK, ThreadsAreDated, Threads, Requests
<1>7. \A u \in Tabs : q[u] # NoJob => q[u].token = token'[u] /\ q[u].request = wanted'[u]
  BY <1>1, <1>5 DEF JobsInv, JobsTypeOK, QueueIsNewest
<1>8. TablesOK'
  <2>1. CASE t \in running
    <3>1. queued' = q /\ running' = running /\ threads' = threads
      BY <2>1, <1>3 DEF StartQueuedJob, MustWait
    <3>2. ThreadsAreDated' /\ QueueIsNewest'
      BY <3>1, <1>6, <1>7 DEF ThreadsAreDated, QueueIsNewest
    <3>3. OneRunning'
      BY <3>1, <1>1 DEF JobsInv, OneRunning
    <3>4. NothingForgotten'
      BY <3>1, <2>1 DEF JobsInv, NothingForgotten, JobsTypeOK
    <3> QED BY <3>1, <3>2, <3>3, <3>4, <1>5 DEF JobsInv, JobsTypeOK, TablesOK
  <2>2. CASE t \notin running
    <3> DEFINE new == [tab |-> t, token |-> job.token, request |-> job.request,
                       at |-> "working"]
    <3>1. /\ queued' = [q EXCEPT ![t] = NoJob] /\ running' = running \cup {t}
          /\ threads' = threads \cup {new}
      BY <2>2, <1>2, <1>3, <1>5 DEF StartQueuedJob, MustWait, Worker
    <3>2. new \in Threads
      BY <1>2 DEF Threads, Jobs
    <3>3. ThreadsAreDated'
      BY <3>1, <1>6, <1>1 DEF ThreadsAreDated, JobsInv, JobsTypeOK
    <3>4. QueueIsNewest' /\ NothingForgotten'
      BY <3>1, <1>7, <1>5 DEF QueueIsNewest, NothingForgotten, JobsInv, JobsTypeOK
    <3>5. OneRunning'
      <4>1. ~closed /\ closed' = closed /\ running = {w.tab : w \in threads}
        BY <1>1 DEF JobsInv, OneRunning
      <4>2. \A v, w \in threads : v.tab = w.tab => v = w
        BY DEF JobsInv, OneRunning
      <4>3. \A v \in threads : v.tab # t
        BY <4>1, <2>2
      <4>4. \A v, w \in threads' : v.tab = w.tab => v = w
        BY <3>1, <4>2, <4>3
      <4>5. running' = {w.tab : w \in threads'}
        <5>1. new.tab = t
          OBVIOUS
        <5> HIDE DEF new
        <5> QED BY <5>1, <3>1, <4>1
      <4> QED BY <4>4, <4>5 DEF OneRunning
    <3> QED BY <3>1, <3>2, <3>3, <3>4, <3>5, <1>5 DEF JobsInv, JobsTypeOK, TablesOK
  <2> QED BY <2>1, <2>2
<1> QED BY <1>4, <1>8 DEF JobsInv, JobsTypeOK, TablesOK

\* An empty query keeps it: it outdates the threads and empties the slot.
LEMMA ClearSearchJobsInv ==
  ASSUME JobsInv, ClearSearch
  PROVE  JobsInv'
<1> USE JobsConstants
<1>1. /\ made[Search] \in 0..MaxRequests /\ made[Search] + 1 \in Requests
      /\ token[Search] = made[Search]
      /\ made' = [made EXCEPT ![Search] = made[Search] + 1]
      /\ token' = [token EXCEPT ![Search] = token[Search] + 1]
      /\ wanted' = [wanted EXCEPT ![Search] = 0]
      /\ view' = [view EXCEPT ![Search] = 0]
      /\ queued' = [queued EXCEPT ![Search] = NoJob]
      /\ running' = running /\ threads' = threads /\ closed' = closed
  BY DEF JobsInv, JobsTypeOK, TokenCounts, ClearSearch, TokenAfterClear, Requests
<1>2. JobsTypeOK'
  <2>1. closed' \in BOOLEAN
    BY <1>1 DEF JobsInv, JobsTypeOK
  <2> QED BY <1>1, <2>1 DEF JobsInv, JobsTypeOK, Requests
<1>3. TokenCounts' /\ ViewIsNewest' /\ QueueIsNewest' /\ NothingForgotten'
  BY <1>1 DEF JobsInv, JobsTypeOK, TokenCounts, ViewIsNewest, QueueIsNewest, NothingForgotten
<1>4. ThreadsAreDated'
  BY <1>1 DEF JobsInv, JobsTypeOK, ThreadsAreDated, Threads, Requests
<1>5. OneRunning'
  BY <1>1 DEF JobsInv, OneRunning
<1> QED BY <1>2, <1>3, <1>4, <1>5 DEF JobsInv

\* A worker that ends keeps it: only where the thread is changes.
LEMMA WorkEndsJobsInv ==
  ASSUME JobsInv, NEW w \in threads, WorkEnds(w)
  PROVE  JobsInv'
<1> DEFINE done == [w EXCEPT !.at = "posted"]
<1>1. /\ threads' = (threads \ {w}) \cup {done}
      /\ closed' = closed /\ token' = token /\ queued' = queued /\ running' = running
      /\ made' = made /\ wanted' = wanted /\ view' = view
  BY DEF WorkEnds
<1>2. done \in Threads /\ done.tab = w.tab /\ done.token = w.token /\ done.request = w.request
  BY DEF JobsInv, JobsTypeOK, Threads
<1>3. JobsTypeOK'
  BY <1>1, <1>2 DEF JobsInv, JobsTypeOK
<1>4. TokenCounts' /\ ViewIsNewest' /\ QueueIsNewest' /\ NothingForgotten'
  BY <1>1 DEF JobsInv, TokenCounts, ViewIsNewest, QueueIsNewest, NothingForgotten
<1>5. ThreadsAreDated'
  <2>1. \A v \in threads' : v \in threads \/ v = done
    BY <1>1
  <2>2. done.token <= token[done.tab]
        /\ (done.token = token[done.tab] => done.request = wanted[done.tab])
    BY <1>2 DEF JobsInv, ThreadsAreDated
  <2> HIDE DEF done
  <2> QED BY <1>1, <2>1, <2>2 DEF JobsInv, ThreadsAreDated
<1>6. OneRunning'
  <2>1. \A u, v \in threads : u.tab = v.tab => u = v
    BY DEF JobsInv, OneRunning
  <2>2. w \in threads
    OBVIOUS
  <2> HIDE DEF done
  <2>3. \A u, v \in threads' : u.tab = v.tab => u = v
    BY <1>1, <1>2, <2>1, <2>2
  <2>4. {v.tab : v \in threads'} = {v.tab : v \in threads}
    BY <1>1, <1>2, <2>2
  <2>5. ~closed' => running' = {v.tab : v \in threads'}
    BY <1>1, <2>4 DEF JobsInv, OneRunning
  <2> QED BY <2>3, <2>5 DEF OneRunning
<1> QED BY <1>3, <1>4, <1>5, <1>6 DEF JobsInv

\* The main loop's turn keeps it: a result with the newest token is the newest
\* request's, and the slot is emptied into the tab's next thread.
LEMMA FinishJobJobsInv ==
  ASSUME JobsInv, NEW w \in threads, FinishJob(w)
  PROVE  JobsInv'
<1> DEFINE t == w.tab
           r == running \ {t}
           th == threads \ {w}
<1> USE JobsConstants
<1>1. /\ t \in Tabs /\ w \in Threads
      /\ closed' = closed /\ made' = made /\ wanted' = wanted /\ token' = token
  BY DEF JobsInv, JobsTypeOK, Threads, FinishJob
<1>2. view' \in [Tabs -> 0..MaxRequests] /\ ViewIsNewest'
  <2>1. view' = view \/ view' = [view EXCEPT ![t] = wanted[t]]
    BY <1>1 DEF JobsInv, ThreadsAreDated, FinishJob, IsCurrent
  <2> QED BY <2>1, <1>1 DEF JobsInv, JobsTypeOK, ViewIsNewest
<1>3. CASE closed
  <2>1. threads' = th /\ queued' = queued /\ running' = running
    BY <1>3 DEF FinishJob, ClosedByNow
  <2>2. JobsTypeOK'
    BY <1>1, <1>2, <2>1 DEF JobsInv, JobsTypeOK
  <2>3. TokenCounts' /\ ThreadsAreDated' /\ QueueIsNewest' /\ OneRunning' /\ NothingForgotten'
    BY <1>1, <1>3, <2>1 DEF JobsInv, TokenCounts, ThreadsAreDated, QueueIsNewest, OneRunning,
       NothingForgotten
  <2> QED BY <1>2, <2>2, <2>3 DEF JobsInv
<1>4. CASE ~closed
  <2>1. StartQueuedJob(t, queued, r, th)
    BY <1>4 DEF FinishJob, ClosedByNow, RunningWithout
  <2>2. TokenCounts'
    BY <1>1 DEF JobsInv, TokenCounts
  <2>3. r = {v.tab : v \in th} /\ \A v \in th : v.tab # t
    BY <1>4 DEF JobsInv, OneRunning
  <2>4. TablesOK'
    <3>1. CASE queued[t] = NoJob
      <4>1. queued' = queued /\ running' = r /\ threads' = th
        BY <3>1, <2>1 DEF StartQueuedJob, MustWait
      <4>2. ThreadsAreDated' /\ QueueIsNewest' /\ NothingForgotten'
        BY <4>1, <1>1, <3>1 DEF JobsInv, ThreadsAreDated, QueueIsNewest, NothingForgotten
      <4>3. OneRunning'
        BY <4>1, <2>3 DEF JobsInv, OneRunning
      <4> QED BY <4>1, <4>2, <4>3 DEF JobsInv, JobsTypeOK, TablesOK
    <3>2. CASE queued[t] # NoJob
      <4> DEFINE new == [tab |-> t, token |-> queued[t].token,
                         request |-> queued[t].request, at |-> "working"]
      <4>1. /\ queued' = [queued EXCEPT ![t] = NoJob] /\ running' = r \cup {t}
            /\ threads' = th \cup {new}
        BY <3>2, <2>1 DEF StartQueuedJob, MustWait, Worker
      <4>2. new \in Threads
        BY <3>2, <1>1 DEF JobsInv, JobsTypeOK, Threads, Jobs
      <4>3. new.token = token[t] /\ new.request = wanted[t] /\ token[t] \in Nat
        BY <3>2, <1>1 DEF JobsInv, JobsTypeOK, QueueIsNewest
      <4>4. ThreadsAreDated'
        BY <4>1, <4>3, <1>1 DEF JobsInv, ThreadsAreDated
      <4>5. QueueIsNewest' /\ NothingForgotten'
        BY <4>1, <1>1 DEF JobsInv, JobsTypeOK, QueueIsNewest, NothingForgotten
      <4>6. OneRunning'
        <5>1. \A u, v \in th : u.tab = v.tab => u = v
          BY DEF JobsInv, OneRunning
        <5>2. \A u, v \in threads' : u.tab = v.tab => u = v
          BY <4>1, <5>1, <2>3
        <5>3. running' = {v.tab : v \in threads'}
          <6>1. new.tab = t /\ r = {v.tab : v \in th}
            BY <2>3
          <6> HIDE DEF new, th, r
          <6> QED BY <6>1, <4>1
        <5> QED BY <5>2, <5>3 DEF OneRunning
      <4> QED BY <4>1, <4>2, <4>4, <4>5, <4>6, <1>1 DEF JobsInv, JobsTypeOK, TablesOK
    <3> QED BY <3>1, <3>2
  <2>5. JobsTypeOK'
    <3>1. closed' \in BOOLEAN
      BY <1>1 DEF JobsInv, JobsTypeOK
    <3> QED BY <3>1, <1>1, <1>2, <2>4 DEF JobsInv, JobsTypeOK, TablesOK
  <2> QED BY <1>2, <2>2, <2>4, <2>5 DEF JobsInv, TablesOK
<1> QED BY <1>3, <1>4

\* Closing the window keeps it.
LEMMA CloseJobsInv ==
  ASSUME JobsInv, Close
  PROVE  JobsInv'
<1>1. /\ queued' = [t \in Tabs |-> NoJob] /\ token' = token /\ running' = running
      /\ threads' = threads /\ made' = made /\ wanted' = wanted /\ view' = view
  BY DEF Close
<1>2. closed' \in BOOLEAN /\ closed'
  BY DEF Close
<1>3. JobsTypeOK'
  BY <1>1, <1>2 DEF JobsInv, JobsTypeOK
<1>4. TokenCounts' /\ ViewIsNewest' /\ QueueIsNewest' /\ NothingForgotten' /\ ThreadsAreDated'
  BY <1>1 DEF JobsInv, TokenCounts, ViewIsNewest, QueueIsNewest, NothingForgotten, ThreadsAreDated
<1>5. OneRunning'
  BY <1>1, <1>2 DEF JobsInv, OneRunning
<1> QED BY <1>3, <1>4, <1>5 DEF JobsInv

\* Every step keeps the invariant.
LEMMA NextJobsInv == JobsInv /\ [JobsNext]_storeVars => JobsInv'
<1> SUFFICES ASSUME JobsInv, [JobsNext]_storeVars PROVE JobsInv'
  OBVIOUS
<1>1. CASE \E t \in Tabs : Submit(t)
  BY <1>1, SubmitJobsInv
<1>2. CASE ClearSearch
  BY <1>2, ClearSearchJobsInv
<1>3. CASE \E w \in threads : WorkEnds(w)
  BY <1>3, WorkEndsJobsInv
<1>4. CASE \E w \in threads : FinishJob(w)
  BY <1>4, FinishJobJobsInv
<1>5. CASE Close
  BY <1>5, CloseJobsInv
<1>6. CASE UNCHANGED storeVars
  BY <1>6 DEF storeVars, jobVars, JobsInv, JobsTypeOK, TokenCounts, ThreadsAreDated, QueueIsNewest,
     ViewIsNewest, OneRunning, NothingForgotten
<1> QED BY <1>1, <1>2, <1>3, <1>4, <1>5, <1>6 DEF JobsNext

\* The invariant holds throughout.
THEOREM JobsInvariant == JobsSpec => []JobsInv
  BY InitJobsInv, NextJobsInv, PTL DEF JobsSpec

\* The window's tables keep their types.
THEOREM JobsTypeCorrect == JobsSpec => []JobsTypeOK
<1>1. JobsInv => JobsTypeOK
  BY DEF JobsInv
<1> QED BY <1>1, JobsInvariant, PTL

\* "Keep one running ... request per tab", and no tab is blocked for good.
THEOREM OneRunningAlways == JobsSpec => []OneRunning
<1>1. JobsInv => OneRunning
  BY DEF JobsInv
<1> QED BY <1>1, JobsInvariant, PTL

\* A waiting request always has a thread it waits for.
THEOREM NothingForgottenAlways == JobsSpec => []NothingForgotten
<1>1. JobsInv => NothingForgotten
  BY DEF JobsInv
<1> QED BY <1>1, JobsInvariant, PTL

-----------------------------------------------------------------------------

\* A step of the jobs is a step of the abstract tab or a stutter.
LEMMA StepSimulation == JobsInv /\ [JobsNext]_storeVars => [Tab!Next]_Tab!vars
<1> SUFFICES ASSUME JobsInv, [JobsNext]_storeVars PROVE [Tab!Next]_Tab!vars
  OBVIOUS
<1> USE JobsConstants
<1>1. CASE \E t \in Tabs : Submit(t)
  <2>1. PICK t \in Tabs : Submit(t)
    BY <1>1
  <2>2. /\ made[t] + 1 \in 0..MaxRequests /\ ~closed /\ closed' = closed
        /\ wanted' = [wanted EXCEPT ![t] = made[t] + 1] /\ view' = [view EXCEPT ![t] = 0]
    BY <2>1 DEF JobsInv, JobsTypeOK, Submit
  <2>3. Tab!Ask(t)
    BY <2>2 DEF Tab!Ask
  <2> QED BY <2>3 DEF Tab!Next
<1>2. CASE ClearSearch
  <2>1. 0 \in 0..MaxRequests
    OBVIOUS
  <2>2. /\ wanted' = [wanted EXCEPT ![Search] = 0] /\ view' = [view EXCEPT ![Search] = 0]
        /\ ~closed /\ closed' = closed
    BY <1>2 DEF ClearSearch
  <2>3. Tab!Ask(Search)
    BY <2>1, <2>2 DEF Tab!Ask
  <2> QED BY <2>3 DEF Tab!Next
<1>3. CASE \E w \in threads : WorkEnds(w)
  BY <1>3 DEF WorkEnds, Tab!vars
<1>4. CASE \E w \in threads : FinishJob(w)
  <2>1. PICK w \in threads : FinishJob(w)
    BY <1>4
  <2>2. w \in Threads /\ w.tab \in Tabs /\ w.request # 0
    BY DEF JobsInv, JobsTypeOK, Threads, Requests
  <2>3. wanted' = wanted /\ closed' = closed
    BY <2>1 DEF FinishJob
  <2>4. CASE ~closed /\ IsCurrent(w)
    <3>1. w.request = wanted[w.tab]
      BY <2>4 DEF JobsInv, ThreadsAreDated, IsCurrent
    <3>2. view' = [view EXCEPT ![w.tab] = w.request]
      BY <2>1, <2>4 DEF FinishJob, ClosedByNow
    <3>3. Tab!Answer(w.tab)
      BY <2>2, <2>3, <2>4, <3>1, <3>2 DEF Tab!Answer
    <3> QED BY <3>3, <2>2 DEF Tab!Next
  <2>5. CASE ~(~closed /\ IsCurrent(w))
    <3>1. view' = view
      BY <2>1, <2>5 DEF FinishJob, ClosedByNow
    <3> QED BY <3>1, <2>3 DEF Tab!vars
  <2> QED BY <2>4, <2>5
<1>5. CASE Close
  <2>1. Tab!Close
    BY <1>5 DEF Close, Tab!Close
  <2> QED BY <2>1 DEF Tab!Next
<1>6. CASE UNCHANGED storeVars
  BY <1>6 DEF storeVars, Tab!vars
<1> QED BY <1>1, <1>2, <1>3, <1>4, <1>5, <1>6 DEF JobsNext

\* The Store implements the safety of the abstract tab: an older request's
\* result is never shown over a newer one's, and nothing changes after closing.
THEOREM StoreShowsLatest == JobsSpec => ShowsLatest
<1>1. JobsInit => Tab!Init
  BY DEF JobsInit, Tab!Init
<1> QED BY <1>1, StepSimulation, JobsInvariant, PTL DEF JobsSpec, ShowsLatest, Tab!Safety

-----------------------------------------------------------------------------
(* The gate and the scans it asks for.                                     *)

\* What clamscan has printed, read or not.
Seen(line) == Says(line) \/ \E n \in 1..Len(pipe) : pipe[n] = line

Busy == at \in {"reading"} \cup Waiting

\* What clamscan has looked at shows in its status or its lines; the summary
\* comes last and from a scanner that is gone.
LineInv ==
    Busy =>
        /\ target \in Files /\ left \subseteq content[target]
        /\ "infected" \in content[target] \ left => code = "1" \/ (proc = "dead" /\ code # "0")
        /\ "unreadable" \in content[target] \ left => Seen("ERROR")
        /\ Seen("Scanned some") => left = {} /\ content[target] # {} /\ proc = "dead"

\* A report that nothing interrupted was read to its end.
EndInv ==
    Busy =>
        /\ proc \in {"running", "dead"} /\ verdict = "none"
        /\ proc = "dead" => output = "closed"
        /\ eof = "yes" => pipe = <<>> /\ output = "closed"
        /\ at = "reading" => interrupted = "none"
        /\ at \in Waiting /\ interrupted = "none" => eof = "yes"

\* What has been cleared is good.
GateInv ==
    /\ \A f \in want \ unscanned : content[f] = {"good"}
    /\ step = "installing" => unscanned = {}
    /\ GateHolds

\* The whole invariant of the gate.
GateInductive == TypeOK /\ LineInv /\ EndInv /\ CleanMeansLookedAt /\ GateInv

-----------------------------------------------------------------------------
(* Lines.                                                                  *)

\* A printed line has been seen, and nothing else is new.
LEMMA PrintSeen ==
    ASSUME pipe \in Seq(Lines), NEW l \in Lines, Prints(l), UNCHANGED report
    PROVE  /\ \A x : Seen(x)' <=> Seen(x) \/ x = l
           /\ pipe' \in Seq(Lines)
<1>1. pipe' = Append(pipe, l) /\ pipe' \in Seq(Lines) /\ Len(pipe') = Len(pipe) + 1 /\ Len(pipe) \in Nat
  BY DEF Prints
<1>2. \A n \in 1..Len(pipe) : pipe'[n] = pipe[n]
  BY <1>1
<1>3. pipe'[Len(pipe) + 1] = l
  BY <1>1
<1>4. \A x : (\E n \in 1..Len(pipe') : pipe'[n] = x) <=> (\E n \in 1..Len(pipe) : pipe[n] = x) \/ x = l
  <2>1. \A n : n \in 1..Len(pipe') <=> n \in 1..Len(pipe) \/ n = Len(pipe) + 1
    BY <1>1
  <2> QED BY <1>2, <1>3, <2>1
<1>5. \A x : Says(x)' <=> Says(x)
  BY DEF Says
<1> QED BY <1>1, <1>4, <1>5 DEF Seen

\* A line that is read has been seen before.
LEMMA ReadSeen ==
    ASSUME pipe \in Seq(Lines), report \in Seq(Lines), ReadsLine
    PROVE  /\ \A x : Seen(x)' <=> Seen(x)
           /\ pipe' \in Seq(Lines) /\ report' \in Seq(Lines)
           /\ Len(report') = Len(report) + 1
<1> DEFINE h == Head(pipe)
<1>1. pipe # <<>> /\ report' = Append(report, h) /\ pipe' = Tail(pipe)
  BY DEF ReadsLine
<1>2. h \in Lines /\ h = pipe[1] /\ pipe' \in Seq(Lines) /\ report' \in Seq(Lines)
      /\ Len(pipe) \in Nat \ {0} /\ Len(report) \in Nat
  BY <1>1
<1>3. Len(pipe') = Len(pipe) - 1 /\ Len(report') = Len(report) + 1
  BY <1>1, <1>2
<1>4. \A n \in 1..Len(pipe') : pipe'[n] = pipe[n + 1]
  BY <1>1, <1>2, <1>3
<1>5. \A n \in 1..Len(report) : report'[n] = report[n]
  BY <1>1, <1>2
<1>6. report'[Len(report) + 1] = h
  BY <1>1, <1>2
<1> HIDE DEF h
<1>7. ASSUME NEW x PROVE Says(x)' <=> Says(x) \/ x = h
  <2>1. \A n : n \in 1..Len(report') <=> n \in 1..Len(report) \/ n = Len(report) + 1
    BY <1>2, <1>3
  <2> QED BY <1>5, <1>6, <2>1 DEF Says
<1>8. ASSUME NEW x
      PROVE  (\E n \in 1..Len(pipe) : pipe[n] = x) <=> (\E n \in 1..Len(pipe') : pipe'[n] = x) \/ x = h
  <2>1. ASSUME NEW n \in 1..Len(pipe), pipe[n] = x, x # h PROVE \E k \in 1..Len(pipe') : pipe'[k] = x
    <3>1. n # 1 /\ n - 1 \in 1..Len(pipe') /\ (n - 1) + 1 = n
      BY <1>2, <1>3, <2>1
    <3> QED BY <1>4, <2>1, <3>1
  <2>2. ASSUME NEW n \in 1..Len(pipe'), pipe'[n] = x PROVE \E k \in 1..Len(pipe) : pipe[k] = x
    <3>1. n + 1 \in 1..Len(pipe)
      BY <1>2, <1>3
    <3> QED BY <1>4, <2>2, <3>1
  <2>3. x = h => \E k \in 1..Len(pipe) : pipe[k] = x
    BY <1>2
  <2> QED BY <2>1, <2>2, <2>3
<1> QED BY <1>2, <1>3, <1>7, <1>8 DEF Seen

-----------------------------------------------------------------------------
(* Types.                                                                  *)

\* A step that is none of scan_path's or clamscan's.
Outside ==
    /\ UNCHANGED <<content, target, report, eof, interrupted, verdict, procVars, pipe>>
    /\ at' = at \/ (at = "back" /\ at' = "idle")
    /\ cancel' \in {"no", "yes"}

Asks == \E f \in Files : StartScan(f) \/ Refuses(f)

\* A step is one of a scan, or one of the gate or the Center around it.
LEMMA Actors ==
    ASSUME TypeOK, [Next]_vars
    PROVE  \/ Outside
           \/ (Asks \/ Scanner \/ ScanPath) /\ UNCHANGED gateVars
<1> USE DEF Outside, readerVars, procVars, scanVars
<1>0. cancel \in {"no", "yes"}
  BY DEF TypeOK, ScanTypeOK
<1>1. CASE UNCHANGED vars
  BY <1>0, <1>1 DEF vars
<1>2. CASE Resolve \/ Download \/ Build \/ Blocked \/ Verify \/ Install \/ InstallEnds
  BY <1>0, <1>2 DEF Resolve, Download, Build, Blocked, Verify, Install, InstallEnds, Exits
<1>3. CASE TakeVerdict
  BY <1>0, <1>3 DEF TakeVerdict, Exits
<1>4. CASE CenterCancels \/ CenterTakes \/ IndexRefreshed
  BY <1>0, <1>4 DEF CenterCancels, CenterTakes, IndexRefreshed
<1>5. ASSUME NEW f \in Files, FilesChange(f) PROVE Outside
  BY <1>0, <1>5 DEF FilesChange
<1>6. ASSUME NEW f \in Files, ScanNext(f) \/ CenterScans(f) PROVE Asks /\ UNCHANGED gateVars
  BY <1>6 DEF Asks, ScanNext, CenterScans
<1> QED BY <1>1, <1>2, <1>3, <1>4, <1>5, <1>6 DEF Next, Gate

\* Every step keeps the types of the scan.
LEMMA ScanTypes ==
    ASSUME TypeOK, [Next]_vars
    PROVE  ScanTypeOK'
<1> USE DEF ScanTypeOK, TypeOK, readerVars, procVars, scanVars, Waiting
<1>p. present' \subseteq Files
  <2>1. CASE UNCHANGED present
    BY <2>1
  <2>2. CASE Download \/ Build \/ Blocked
    BY <2>2 DEF Download, Build, Blocked, Sets
  <2>3. CASE TakeVerdict \/ InstallEnds
    BY <2>3 DEF TakeVerdict, InstallEnds, Exits
  <2>4. ASSUME NEW f \in Files, FilesChange(f) PROVE present' \subseteq Files
    BY <2>4 DEF FilesChange
  <2>5. CASE Resolve \/ Verify \/ Install \/ CenterCancels \/ CenterTakes \/ IndexRefreshed
    BY <2>5 DEF Resolve, Verify, Install, CenterCancels, CenterTakes, IndexRefreshed
  <2>6. ASSUME NEW f \in Files, ScanNext(f) \/ CenterScans(f) PROVE UNCHANGED present
    BY <2>6 DEF ScanNext, CenterScans, StartScan, Refuses
  <2>7. CASE Scanner
    BY <2>7 DEF Scanner, Finishes, HangsUp, Dies, Examines
  <2>8. CASE ScanPath
    BY <2>8 DEF ScanPath, SeesCancel, SeesDeadline, Overflows, ReadsLine, SeesEof, AllRead,
                Insists, Concludes, CannotKill, Forgets, LeavesLoop
  <2> QED BY <2>1, <2>2, <2>3, <2>4, <2>5, <2>6, <2>7, <2>8 DEF Next, Gate, vars
<1>1. CASE Outside
  BY <1>1, <1>p DEF Outside
<1>2. ASSUME NEW f \in Files, StartScan(f) PROVE ScanTypeOK'
  <2>1. content[f] \subseteq Kinds
    BY ConstantsOK
  <2> QED BY <1>2, <1>p, <2>1, ConstantsOK DEF StartScan
<1>3. ASSUME NEW f \in Files, Refuses(f) PROVE ScanTypeOK'
  BY <1>3, <1>p DEF Refuses
<1>4. CASE Finishes
  <2>1. pipe' \in Seq(Lines)
    BY <1>4, PrintSeen DEF Finishes, Lines
  <2>2. /\ UNCHANGED <<content, at, target, report, eof, interrupted, verdict, cancel, left, code>>
        /\ proc' = "dead" /\ output' = "closed"
    BY <1>4 DEF Finishes
  <2> QED BY <1>p, <2>1, <2>2
<1>5. CASE HangsUp \/ Dies
  BY <1>5, <1>p DEF HangsUp, Dies
<1>6. ASSUME NEW k \in Kinds, Examines(k) PROVE ScanTypeOK'
  <2>1. pipe' \in Seq(Lines)
    BY <1>6, PrintSeen DEF Examines, Lines
  <2>2. /\ UNCHANGED <<content, at, target, report, eof, interrupted, verdict, cancel, proc, output>>
        /\ left' \subseteq left /\ code' \in {code, "0", "1", "2"}
    BY <1>6 DEF Examines
  <2> QED BY <1>p, <2>1, <2>2
<1>7. CASE SeesCancel \/ SeesDeadline \/ Overflows \/ AllRead \/ SeesEof \/ Insists
  BY <1>7, <1>p DEF SeesCancel, SeesDeadline, Overflows, AllRead, SeesEof, Insists, LeavesLoop, AfterTerm
<1>8. CASE ReadsLine
  <2>1. pipe' \in Seq(Lines) /\ report' \in Seq(Lines) /\ Len(report') = Len(report) + 1
    BY <1>8, ReadSeen
  <2>2. Len(report) < Limit /\ Len(report) \in Nat
    BY <1>8 DEF ReadsLine
  <2>3. Len(report') <= Limit
    BY <2>1, <2>2, ConstantsOK
  <2> QED BY <1>8, <1>p, <2>1, <2>3 DEF ReadsLine
<1>9. CASE Concludes
  <2>1. Verdict \in {"clean", "detected", "error", "cancelled"}
    BY DEF Verdict
  <2>2. report' = <<>> /\ pipe' = <<>> /\ Len(report') <= Limit
    BY <1>9, ConstantsOK DEF Concludes, Forgets
  <2> QED BY <1>9, <1>p, <2>1, <2>2 DEF Concludes, Forgets
<1>10. CASE CannotKill
  <2>2. report' = <<>> /\ pipe' = <<>> /\ Len(report') <= Limit
    BY <1>10, ConstantsOK DEF CannotKill, Forgets
  <2> QED BY <1>10, <1>p, <2>2 DEF CannotKill, Forgets
<1> QED BY Actors, <1>p, <1>1, <1>2, <1>3, <1>4, <1>5, <1>6, <1>7, <1>8, <1>9, <1>10 DEF Asks, Scanner, ScanPath

\* Every step keeps the types.
LEMMA Types == ASSUME TypeOK, [Next]_vars PROVE TypeOK'
<1> USE DEF TypeOK, Sets
<1>0. ScanTypeOK'
  BY ScanTypes
<1>1. CASE UNCHANGED gateVars
  BY <1>0, <1>1 DEF gateVars
<1>2. CASE Resolve \/ Download \/ Build \/ Blocked
  BY <1>0, <1>2 DEF Resolve, Download, Build, Blocked
<1>3. CASE Verify \/ Install \/ InstallEnds
  BY <1>0, <1>3 DEF Verify, Install, InstallEnds, Exits, FilesGiven
<1>4. CASE TakeVerdict
  BY <1>0, <1>4 DEF TakeVerdict, Exits, Cleared
<1>5. CASE IndexRefreshed
  BY <1>0, <1>5 DEF IndexRefreshed
<1>6. CASE CenterCancels \/ CenterTakes
  BY <1>0, <1>1, <1>6 DEF CenterCancels, CenterTakes, gateVars
<1>7. ASSUME NEW f \in Files, ScanNext(f) \/ CenterScans(f) \/ FilesChange(f) PROVE UNCHANGED gateVars
  BY <1>7 DEF ScanNext, CenterScans, FilesChange
<1> QED BY <1>1, <1>2, <1>3, <1>4, <1>5, <1>6, <1>7 DEF Next, Gate, vars

-----------------------------------------------------------------------------
(* What clamscan has looked at, and how its report is read.                *)

\* Every step keeps what the report has to show.
LEMMA Report ==
    ASSUME TypeOK, LineInv, EndInv, [Next]_vars
    PROVE  LineInv' /\ EndInv'
<1> USE DEF readerVars, procVars, Busy, Waiting
<1>t. /\ pipe \in Seq(Lines) /\ report \in Seq(Lines) /\ target \in Files \cup {"none"}
      /\ code \in {"0", "1", "2", "signal"} /\ output \in {"open", "closed"} /\ eof \in {"no", "yes"}
      /\ at \in {"idle", "back"} => proc # "running"
      /\ at \in {"idle", "back"} \/ Busy
  BY DEF TypeOK, ScanTypeOK
<1>1. CASE Outside
  <2>1. \A x : Seen(x)' <=> Seen(x)
    BY <1>1 DEF Outside, Seen, Says
  <2>2. LineInv'
    BY <1>1, <2>1 DEF Outside, LineInv
  <2>3. EndInv'
    BY <1>1 DEF Outside, EndInv
  <2> QED BY <2>2, <2>3
<1>2. ASSUME NEW f \in Files, StartScan(f) PROVE LineInv' /\ EndInv'
  <2>1. \A x : ~Seen(x)'
    BY <1>2 DEF StartScan, Seen, Says
  <2>2. LineInv'
    BY <1>2, <2>1 DEF StartScan, LineInv
  <2>3. EndInv'
    BY <1>2 DEF StartScan, EndInv
  <2> QED BY <2>2, <2>3
<1>3. ASSUME NEW f \in Files, Refuses(f) PROVE LineInv' /\ EndInv'
  BY <1>3 DEF Refuses, LineInv, EndInv
<1>4. CASE Scanner
  <2>0. proc = "running" /\ Busy /\ Busy'
    BY <1>4, <1>t DEF Scanner, Finishes, HangsUp, Dies, Examines
  <2>1. CASE Finishes
    <3>1. PICK l \in {"Scanned 0", "Scanned some"} :
              /\ Prints(l)
              /\ l = "Scanned some" => content[target] # {}
      BY <2>1 DEF Finishes
    <3>2. \A x : Seen(x)' <=> Seen(x) \/ x = l
      BY <1>t, <2>1, <3>1, PrintSeen DEF Finishes, Lines
    <3>3. LineInv'
      BY <2>0, <2>1, <3>1, <3>2 DEF Finishes, LineInv
    <3>4. eof = "no"
      BY <1>t, <2>0, <2>1 DEF Finishes, EndInv
    <3>5. EndInv'
      BY <2>0, <2>1, <3>4 DEF Finishes, EndInv
    <3> QED BY <3>3, <3>5
  <2>2. CASE HangsUp \/ Dies
    <3>1. \A x : Seen(x)' <=> Seen(x)
      BY <2>2 DEF HangsUp, Dies, Seen, Says
    <3>2. LineInv'
      BY <2>0, <2>2, <3>1 DEF HangsUp, Dies, LineInv
    <3>3. EndInv'
      BY <2>0, <2>2 DEF HangsUp, Dies, EndInv
    <3> QED BY <3>2, <3>3
  <2>3. ASSUME NEW k \in Kinds, Examines(k) PROVE LineInv' /\ EndInv'
    <3>1. eof = "no"
      BY <1>t, <2>0, <2>3 DEF Examines, EndInv
    <3>2. EndInv'
      BY <2>0, <2>3, <3>1 DEF Examines, EndInv
    <3>3. /\ target' = target /\ content' = content /\ left' = left \ {k} /\ proc' = "running"
          /\ target \in Files /\ left \subseteq content[target] /\ k \in left
          /\ UNCHANGED report
      BY <2>0, <2>3 DEF Examines, LineInv
    <3>4. \A x : Seen(x) => Seen(x)'
      <4>1. CASE UNCHANGED pipe
        BY <3>3, <4>1 DEF Seen, Says
      <4>2. ASSUME NEW l \in Lines, Prints(l) PROVE \A x : Seen(x) => Seen(x)'
        BY <1>t, <3>3, <4>2, PrintSeen
      <4> QED BY <2>3, <4>1, <4>2 DEF Examines, Lines
    <3>5. ~Seen("Scanned some")'
      <4>0. ~Seen("Scanned some")
        BY <2>0 DEF LineInv
      <4>1. CASE UNCHANGED pipe
        BY <3>3, <4>0, <4>1 DEF Seen, Says
      <4>2. ASSUME NEW l \in {"FOUND", "ERROR"}, Prints(l) PROVE ~Seen("Scanned some")'
        <5>1. Seen("Scanned some")' <=> Seen("Scanned some") \/ "Scanned some" = l
          BY <1>t, <3>3, <4>2, PrintSeen DEF Lines
        <5> QED BY <4>0, <5>1
      <4> QED BY <2>3, <4>1, <4>2 DEF Examines
    <3>6. k = "unreadable" => Seen("ERROR")'
      <4>1. SUFFICES ASSUME Prints("ERROR") PROVE Seen("ERROR")'
        BY <2>3 DEF Examines
      <4> QED BY <1>t, <3>3, <4>1, PrintSeen DEF Lines
    <3>7. "infected" \in content[target] \ left' => code' = "1"
      BY <2>0, <2>3, <3>3 DEF Examines, LineInv
    <3>8. "unreadable" \in content[target] \ left' => Seen("ERROR")'
      BY <2>0, <3>3, <3>4, <3>6 DEF LineInv
    <3>9. LineInv'
      BY <3>3, <3>5, <3>7, <3>8 DEF LineInv
    <3> QED BY <3>2, <3>9
  <2> QED BY <1>4, <2>1, <2>2, <2>3 DEF Scanner
<1>5. CASE SeesCancel \/ SeesDeadline \/ Overflows \/ AllRead \/ SeesEof \/ Insists
  <2>0. /\ Busy /\ Busy'
        /\ UNCHANGED <<content, target, report, pipe, proc, left, code, output, verdict>>
    BY <1>5 DEF SeesCancel, SeesDeadline, Overflows, AllRead, SeesEof, Insists, LeavesLoop, AfterTerm
  <2>1. \A x : Seen(x)' <=> Seen(x)
    BY <2>0 DEF Seen, Says
  <2>2. LineInv'
    BY <2>0, <2>1 DEF LineInv
  <2>3. EndInv'
    BY <1>5, <2>0 DEF SeesCancel, SeesDeadline, Overflows, AllRead, SeesEof, Insists, LeavesLoop,
                      AfterTerm, EndInv
  <2> QED BY <2>2, <2>3
<1>6. CASE ReadsLine
  <2>1. \A x : Seen(x)' <=> Seen(x)
    BY <1>6, <1>t, ReadSeen
  <2>2. LineInv'
    BY <1>6, <2>1 DEF ReadsLine, LineInv
  <2>3. EndInv'
    BY <1>6, <1>t DEF ReadsLine, EndInv
  <2> QED BY <2>2, <2>3
<1>7. CASE Concludes \/ CannotKill
  BY <1>7 DEF Concludes, CannotKill, LineInv, EndInv
<1> QED BY Actors, <1>1, <1>2, <1>3, <1>4, <1>5, <1>6, <1>7 DEF Asks, ScanPath

\* Only scan_path says clean, and only of a report that was read to its end.
LEMMA Clean ==
    ASSUME TypeOK, LineInv, EndInv, CleanMeansLookedAt, [Next]_vars
    PROVE  CleanMeansLookedAt'
<1> USE DEF CleanMeansLookedAt, readerVars, procVars
<1>1. CASE Outside
  BY <1>1 DEF Outside
<1>2. ASSUME NEW f \in Files, StartScan(f) \/ Refuses(f) PROVE CleanMeansLookedAt'
  BY <1>2 DEF StartScan, Refuses
<1>3. CASE Scanner
  BY <1>3 DEF Scanner, Finishes, HangsUp, Dies, Examines
<1>4. CASE SeesCancel \/ SeesDeadline \/ Overflows \/ AllRead \/ SeesEof \/ ReadsLine \/ Insists
  BY <1>4 DEF SeesCancel, SeesDeadline, Overflows, AllRead, SeesEof, ReadsLine, Insists, LeavesLoop
<1>5. CASE CannotKill
  BY <1>5 DEF CannotKill
<1>6. CASE Concludes
  <2>0. content' = content /\ target' = target /\ verdict' = Verdict /\ Busy /\ at \in Waiting
    BY <1>6 DEF Concludes, Forgets, Busy
  <2>1. SUFFICES ASSUME Verdict = "clean" PROVE content[target] = {"good"}
    BY <2>0
  <2>2. interrupted = "none" /\ code = "0" /\ Confirmed
    BY <2>1 DEF Verdict, TypeOK, ScanTypeOK
  <2>3. pipe = <<>>
    BY <2>0, <2>2 DEF EndInv
  <2>4. \A x : Seen(x) <=> Says(x)
    BY <2>3 DEF Seen
  <2>5. left = {} /\ content[target] # {} /\ target \in Files
    BY <2>0, <2>2, <2>4 DEF LineInv, Confirmed
  <2>6. "infected" \notin content[target] /\ "unreadable" \notin content[target]
    BY <2>0, <2>2, <2>4, <2>5 DEF LineInv, Confirmed
  <2>7. content[target] \subseteq Kinds
    BY <2>5, ConstantsOK DEF TypeOK, ScanTypeOK
  <2> QED BY <2>5, <2>6, <2>7 DEF Kinds
<1> QED BY Actors, <1>1, <1>2, <1>3, <1>4, <1>5, <1>6 DEF Asks, ScanPath

-----------------------------------------------------------------------------
(* The gates.                                                              *)

\* Every step keeps the gate's part of the invariant.
LEMMA Gates ==
    ASSUME TypeOK, CleanMeansLookedAt, GateInv, [Next]_vars
    PROVE  GateInv'
<1> USE DEF GateInv, GateHolds, scanVars
<1>c. content' = content
  <2>1. CASE Outside
    BY <2>1 DEF Outside
  <2>2. ASSUME NEW f \in Files, StartScan(f) \/ Refuses(f) PROVE content' = content
    BY <2>2 DEF StartScan, Refuses
  <2>3. CASE Scanner
    BY <2>3 DEF Scanner, Finishes, HangsUp, Dies, Examines
  <2>4. CASE ScanPath
    BY <2>4 DEF ScanPath, SeesCancel, SeesDeadline, Overflows, ReadsLine, SeesEof, AllRead,
                Insists, Concludes, CannotKill, Forgets, LeavesLoop
  <2> QED BY Actors, <2>1, <2>2, <2>3, <2>4 DEF Asks
<1>1. CASE UNCHANGED gateVars
  BY <1>c, <1>1 DEF gateVars
<1>2. CASE Resolve \/ Build
  BY <1>c, <1>2 DEF Resolve, Build
<1>3. CASE Download \/ Blocked \/ Verify
  BY <1>c, <1>3 DEF Download, Blocked, Verify
<1>4. CASE Install \/ IndexRefreshed
  BY <1>c, <1>4 DEF Install, IndexRefreshed
<1>5. CASE TakeVerdict
  <2>1. CASE verdict = "clean"
    <3>1. content[target] = {"good"} /\ unscanned' = unscanned \ {target}
          /\ UNCHANGED <<want, step, ours, exit>>
      BY <1>5, <2>1 DEF TakeVerdict, Cleared, CleanMeansLookedAt
    <3> QED BY <1>c, <3>1
  <2>2. CASE verdict # "clean"
    BY <1>c, <1>5, <2>2 DEF TakeVerdict, Exits
  <2> QED BY <2>1, <2>2
<1>6. CASE InstallEnds
  <2>1. \A f \in want : content[f] = {"good"}
    BY <1>6 DEF InstallEnds
  <2>2. PICK some \in SUBSET want : ours' = ours \cup some
    BY <1>6 DEF InstallEnds, FilesGiven
  <2>3. exit' = "0" => want \subseteq ours'
    BY <1>6 DEF InstallEnds, FilesGiven, Exits
  <2>4. step' = "idle" /\ UNCHANGED <<want, unscanned>>
    BY <1>6 DEF InstallEnds, Exits
  <2> QED BY <1>c, <2>1, <2>2, <2>3, <2>4
<1>7. CASE CenterCancels \/ CenterTakes
  BY <1>1, <1>7 DEF CenterCancels, CenterTakes, gateVars
<1>8. ASSUME NEW f \in Files, ScanNext(f) \/ CenterScans(f) \/ FilesChange(f) PROVE UNCHANGED gateVars
  BY <1>8 DEF ScanNext, CenterScans, FilesChange
<1> QED BY <1>1, <1>2, <1>3, <1>4, <1>5, <1>6, <1>7, <1>8 DEF Next, Gate, vars

-----------------------------------------------------------------------------
\* The invariant holds before the first request.
LEMMA Start == Init => GateInductive
<1> SUFFICES ASSUME Init PROVE GateInductive
  OBVIOUS
<1>1. TypeOK
  BY ConstantsOK DEF Init, ScanInit, TypeOK, ScanTypeOK, Sets
<1>2. LineInv /\ EndInv
  BY DEF Init, ScanInit, LineInv, EndInv, Busy, Waiting
<1>3. CleanMeansLookedAt /\ GateInv
  BY DEF Init, ScanInit, CleanMeansLookedAt, GateInv, GateHolds
<1> QED BY <1>1, <1>2, <1>3 DEF GateInductive

\* GateInductive holds in every state.
THEOREM GateInvariance == Spec => []GateInductive
<1>1. GateInductive /\ [Next]_vars => GateInductive'
  BY Types, Report, Clean, Gates DEF GateInductive
<1> QED BY Start, <1>1, PTL DEF Spec

\* Scan and gate keep their types, and no scan returns while its clamscan runs
\* on, unless nothing can kill that.
THEOREM GateTypeCorrect == Spec => []TypeOK
<1>1. GateInductive => TypeOK
  BY DEF GateInductive
<1> QED BY GateInvariance, <1>1, PTL

\* Clean is only said of what was looked at as a whole and found good.
THEOREM CleanIsEarned == Spec => []CleanMeansLookedAt
<1>1. GateInductive => CleanMeansLookedAt
  BY DEF GateInductive
<1> QED BY GateInvariance, <1>1, PTL

\* A gate installs nothing that Shield did not find good, and status 0 means
\* that all of the package is installed.
THEOREM GatesHold == Spec => []GateHolds
<1>1. GateInductive => GateHolds
  BY DEF GateInductive, GateInv
<1> QED BY GateInvariance, <1>1, PTL

-----------------------------------------------------------------------------
(* The composition of both programs.                                       *)

\* A behaviour of the Store is one of its jobs and one of the gate, with the
\* fairness of each.
THEOREM StoreIsOfBoth == StoreSpec => JobsSpec /\ Spec
<1>1. StoreInit => JobsInit /\ Init
  BY DEF StoreInit
<1>2. [StoreNext]_<<chosen, storeVars, vars>> => [JobsNext]_storeVars /\ [Next]_vars
  BY DEF StoreNext
<1> QED BY <1>1, <1>2, PTL DEF StoreSpec, JobsSpec, Spec

\* What the jobs and the gate promise alone, the Store keeps when either runs:
\* one thread per tab, clean only of what was looked at, nothing else installed.
THEOREM StoreKeepsBoth == StoreSpec => [](OneRunning /\ CleanMeansLookedAt /\ GateHolds)
BY StoreIsOfBoth, OneRunningAlways, CleanIsEarned, GatesHold, PTL
=============================================================================
