------------------------------ MODULE StoreJobs ------------------------------
(***************************************************************************)
(* The background jobs of the Store window (darkos-store.py).  Every tab   *)
(* has one worker thread at most and one slot for the request that waits   *)
(* for it; a worker hands its result to the GTK main loop with idle_add,   *)
(* so the user may ask again, empty the search or close the window between *)
(* any two of: the thread's start, its result, and the main loop's turn.   *)
(* Window handlers run on the main loop one at a time and are one action.  *)
(***************************************************************************)
EXTENDS Naturals

CONSTANTS
    Tabs,        \* the keys of _submit_job
    Search,      \* the tab whose query can be emptied
    MaxRequests  \* bound: requests a tab makes, empty searches included

ASSUME JobsConstants == Search \in Tabs /\ MaxRequests \in Nat

Requests == 1..MaxRequests

VARIABLES
    closed,   \* _closed
    token,    \* _job_tokens
    queued,   \* _queued_jobs: the waiting job of a tab, or NoJob
    running,  \* _running_jobs
    threads,  \* the worker threads, and their results on the main loop
    made,     \* history: requests made in each tab
    wanted,   \* history: the newest of them, 0 after an empty search
    view      \* the request whose result the tab shows, 0 for a placeholder

jobVars == <<token, queued, running, threads>>
storeVars == <<closed, jobVars, made, wanted, view>>

\* A job is its token and the request its closure works on.
Jobs == [token : Requests, request : Requests]
NoJob == [token |-> 0, request |-> 0]
Threads == [tab : Tabs, token : Requests, request : Requests,
            at : {"working", "posted"}]

\* The window's tables keep their types.
JobsTypeOK ==
    /\ closed \in BOOLEAN
    /\ token \in [Tabs -> 0..MaxRequests]
    /\ queued \in [Tabs -> Jobs \cup {NoJob}]
    /\ running \subseteq Tabs
    /\ threads \subseteq Threads
    /\ made \in [Tabs -> 0..MaxRequests]
    /\ wanted \in [Tabs -> 0..MaxRequests]
    /\ view \in [Tabs -> 0..MaxRequests]

JobsInit ==
    /\ closed = FALSE
    /\ token = [t \in Tabs |-> 0]
    /\ queued = [t \in Tabs |-> NoJob]
    /\ running = {} /\ threads = {}
    /\ made = [t \in Tabs |-> 0]
    /\ wanted = [t \in Tabs |-> 0]
    /\ view = [t \in Tabs |-> 0]

-----------------------------------------------------------------------------

Worker(t, job) ==
    [tab |-> t, token |-> job.token, request |-> job.request, at |-> "working"]

\* Seeded bug: a running tab is not waited for.
MustWaitNever(t, q, r) == q[t] = NoJob

MustWait(t, q, r) == t \in r \/ q[t] = NoJob

\* Seeded bug: a request is queued and nothing is started.
StartNothing(t, q, r, th) == queued' = q /\ running' = r /\ threads' = th

\* _start_queued_job, at the end of a handler that leaves q, r and th behind.
StartQueuedJob(t, q, r, th) ==
    IF MustWait(t, q, r)
    THEN queued' = q /\ running' = r /\ threads' = th
    ELSE /\ queued' = [q EXCEPT ![t] = NoJob]
         /\ running' = r \cup {t}
         /\ threads' = th \cup {Worker(t, q[t])}

NextToken(t) == token[t] + 1

Queue(t, job) == [queued EXCEPT ![t] = job]

\* A search, a refresh or a check: the tab shows a placeholder and
\* _submit_job replaces the waiting request.
Submit(t) ==
    /\ ~closed /\ made[t] < MaxRequests
    /\ made' = [made EXCEPT ![t] = @ + 1]
    /\ wanted' = [wanted EXCEPT ![t] = made[t] + 1]
    /\ view' = [view EXCEPT ![t] = 0]
    /\ token' = [token EXCEPT ![t] = NextToken(t)]
    /\ StartQueuedJob(t, Queue(t, [token |-> NextToken(t), request |-> made[t] + 1]),
                      running, threads)
    /\ UNCHANGED closed

\* Seeded bug: an empty query that only clears the list.
TokenKept(t) == token[t]

TokenAfterClear(t) == token[t] + 1

\* _do_search with an empty query.
ClearSearch ==
    /\ ~closed /\ made[Search] < MaxRequests
    /\ made' = [made EXCEPT ![Search] = @ + 1]
    /\ wanted' = [wanted EXCEPT ![Search] = 0]
    /\ view' = [view EXCEPT ![Search] = 0]
    /\ token' = [token EXCEPT ![Search] = TokenAfterClear(Search)]
    /\ queued' = [queued EXCEPT ![Search] = NoJob]
    /\ UNCHANGED <<closed, running, threads>>

\* _job_worker: the work returns or raises, and is posted in both cases.
WorkEnds(w) ==
    /\ w.at = "working"
    /\ threads' = (threads \ {w}) \cup {[w EXCEPT !.at = "posted"]}
    /\ UNCHANGED <<closed, token, queued, running, made, wanted, view>>

IsCurrent(w) == w.token = token[w.tab]

\* Seeded bug: the tab stays marked as running.
RunningKept(t) == running

RunningWithout(t) == running \ {t}

ClosedByNow == closed

\* _finish_job on the main loop.
FinishJob(w) ==
    /\ w.at = "posted"
    /\ IF ClosedByNow
       THEN threads' = threads \ {w} /\ UNCHANGED <<token, queued, running, view>>
       ELSE /\ view' = IF IsCurrent(w) THEN [view EXCEPT ![w.tab] = w.request] ELSE view
            /\ StartQueuedJob(w.tab, queued, RunningWithout(w.tab), threads \ {w})
            /\ UNCHANGED token
    /\ UNCHANGED <<closed, made, wanted>>

\* _on_destroy
Close ==
    /\ ~closed
    /\ closed' = TRUE
    /\ queued' = [t \in Tabs |-> NoJob]
    /\ UNCHANGED <<token, running, threads, made, wanted, view>>

JobsNext ==
    \/ \E t \in Tabs : Submit(t)
    \/ ClearSearch
    \/ \E w \in threads : WorkEnds(w) \/ FinishJob(w)
    \/ Close

\* Work ends because every tool and request of it has a time limit, and the
\* main loop runs what is posted to it.
JobsFairness ==
    \A t \in Tabs :
        /\ WF_storeVars(\E w \in threads : w.tab = t /\ WorkEnds(w))
        /\ WF_storeVars(\E w \in threads : w.tab = t /\ FinishJob(w))

JobsSpec == JobsInit /\ [][JobsNext]_storeVars /\ JobsFairness

-----------------------------------------------------------------------------
(* Properties.                                                             *)

\* "Keep one running and at most one queued request per tab": a tab never has
\* two threads at work or on the way to the main loop, and is marked as
\* running exactly while it has one, so no tab is blocked for good.
OneRunning ==
    /\ \A v, w \in threads : v.tab = w.tab => v = w
    /\ ~closed => running = {w.tab : w \in threads}

\* A waiting request has a thread to wait for: the slot of an idle tab is empty.
NothingForgotten == \A t \in Tabs : queued[t] # NoJob => t \in running

\* The window shows in each tab nothing but the newest request's result,
\* whatever was asked, answered late, emptied or closed in between, and the
\* newest request is answered if the window stays open.
Tab == INSTANCE LatestRequest WITH
    Tabs <- Tabs, MaxRequests <- MaxRequests,
    wanted <- wanted, view <- view, closed <- closed
ShowsLatest == Tab!Safety
AnswersLatest == Tab!Spec
=============================================================================
