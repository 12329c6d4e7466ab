-------------------------------- MODULE Mail --------------------------------
(***************************************************************************)
(* The Mail window (darkos-mail.py): one IMAP or SMTP operation at a time, *)
(* each on a worker thread of its own with a timer that cancels it, and    *)
(* the generations that keep a superseded one from painting the window.    *)
(*                                                                         *)
(* Cancelling takes two steps, the event and then the socket, beside a     *)
(* worker that stores its socket and then looks at the event.  A server    *)
(* may answer, refuse or stall for ever.  What a handler cancels and what  *)
(* it launches begin in one step; the window stays in the handler until    *)
(* the socket of what it cancelled is closed.  The Compose dialogs are one *)
(* step, for they are modal and cannot be opened while anything runs.      *)
(***************************************************************************)
EXTENDS Naturals

CONSTANTS
    Accounts,    \* what the account entries may say
    Uids,        \* the messages of an inbox
    Big,         \* those above MESSAGE_LIMIT
    MaxOps,      \* bound: operations launched
    MaxChanges   \* bound: edits of the account, and renumbered inboxes

ASSUME MailConstants ==
    /\ Accounts # {} /\ Uids \subseteq Nat \ {0} /\ Big \subseteq Uids
    /\ MaxOps \in Nat /\ MaxChanges \in Nat

Ops == 1..MaxOps
Validities == 1..(MaxChanges + 1)
MailKinds == {"inbox", "message", "send"}
Cancellers == {"window", "timer"}
Messages == [account : Accounts, validity : Validities, uid : Uids]
NoText == [account |-> "none", validity |-> 0, uid |-> 0]

VARIABLES
    open,        \* whether the window is (not _closed)
    account,     \* the account entries
    generation, operation, validity,  \* _generation, _operation, _validity
    busy,        \* what _set_busy has made insensitive
    selected,    \* the selected row's uid, or 0
    reader,      \* the message whose text is in the reader
    launched,    \* how many operations there have been
    op,          \* the operations: what each is for and where its worker is
    sock,        \* its connection
    attached,    \* operations that know their socket
    cancelled,   \* operations whose event is set
    closing,     \* calls of cancel() that have not closed the socket yet
    submitted,   \* operations with submission_started
    result,      \* what each has to tell
    inflight, accepted,  \* messages on their way to the SMTP server, and in it
    served,      \* UIDVALIDITY of each account's inbox
    spared,      \* history: cancelled, cancel() back, before submission_started
    changes

windowVars == <<open, account, generation, operation, validity, busy, selected, reader>>
cancelVars == <<cancelled, closing, spared>>
serverVars == <<inflight, accepted, served>>
mailVars == <<windowVars, launched, op, sock, attached, cancelVars, submitted, result,
          serverVars, changes>>

WorkerSteps == {"unused", "started", "connecting", "connected", "attached", "login", "selecting",
          "fetching", "marking", "sending", "waiting", "posted", "done"}
Unused == [kind |-> "inbox", at |-> "unused", generation |-> 0, account |-> "none",
           validity |-> 0, uid |-> 0]

\* Windows, operations, servers and history keep their types, and nothing
\* touches the socket of an operation that is not connected.
MailTypeOK ==
    /\ open \in {"open", "closed"} /\ account \in Accounts
    /\ generation \in Nat /\ operation \in 0..MaxOps /\ validity \in {0} \cup Validities
    /\ busy \in {"no", "reading", "sending"}
    /\ selected \in {0} \cup Uids /\ reader \in {NoText} \cup Messages
    /\ launched \in 0..MaxOps
    /\ op \in [Ops -> [kind : MailKinds, at : WorkerSteps, generation : Nat,
                       account : {"none"} \cup Accounts, validity : {0} \cup Validities,
                       uid : {0} \cup Uids]]
    /\ sock \in [Ops -> {"none", "open", "shut"}]
    /\ \A o \in Ops : op[o].at \in {"unused", "started", "connecting"} => sock[o] = "none"
    /\ attached \subseteq Ops /\ cancelled \subseteq Ops /\ submitted \subseteq Ops
    /\ closing \subseteq Cancellers \X Ops
    /\ result \in [Ops -> {"none", "ok", "failed", "uncertain"}]
    /\ inflight \subseteq Ops /\ accepted \subseteq Ops /\ spared \subseteq Ops
    /\ served \in [Accounts -> Validities]
    /\ changes \in 0..MaxChanges

MailInit ==
    /\ open = "open" /\ account \in Accounts
    /\ generation = 0 /\ operation = 0 /\ validity = 0 /\ busy = "no"
    /\ selected = 0 /\ reader = NoText
    /\ launched = 0 /\ op = [o \in Ops |-> Unused] /\ sock = [o \in Ops |-> "none"]
    /\ attached = {} /\ cancelled = {} /\ closing = {} /\ submitted = {}
    /\ result = [o \in Ops |-> "none"]
    /\ inflight = {} /\ accepted = {} /\ served = [a \in Accounts |-> 1]
    /\ spared = {} /\ changes = 0

-----------------------------------------------------------------------------
(* The window's handlers.                                                  *)

\* The main thread is not inside a cancel() of its own.
AtRest == open = "open" /\ \A o \in Ops : <<"window", o>> \notin closing

\* _cancel: the operation's event; CancelCloses does the rest.
CancelCurrent ==
    IF operation = 0
    THEN UNCHANGED <<cancelled, closing>>
    ELSE /\ cancelled' = cancelled \cup {operation}
         /\ closing' = closing \cup {<<"window", operation>>}

NextGeneration == generation + 1

\* _launch, whose worker and timer begin here.
Launch(kind, uid) ==
    /\ launched < MaxOps
    /\ launched' = launched + 1
    /\ CancelCurrent
    /\ generation' = NextGeneration /\ operation' = launched + 1
    /\ busy' = IF kind = "send" THEN "sending" ELSE "reading"
    /\ op' = [op EXCEPT ![launched + 1] =
                  [kind |-> kind, at |-> "started", generation |-> NextGeneration,
                   account |-> account, validity |-> validity, uid |-> uid]]

\* _refresh: the inbox is cleared before it is read.
Refresh ==
    /\ AtRest /\ busy = "no"
    /\ Launch("inbox", 0)
    /\ validity' = 0 /\ selected' = 0 /\ reader' = NoText
    /\ UNCHANGED <<open, account, sock, attached, submitted, result, serverVars, spared, changes>>

NotBusy == "no"

\* _read_selected: what was being read is cancelled even where the new message
\* is too large to read.
Select(u) ==
    /\ AtRest /\ busy # "sending" /\ validity # 0 /\ u # selected
    /\ selected' = u /\ reader' = NoText
    /\ IF u \in Big
       THEN /\ CancelCurrent
            /\ generation' = NextGeneration /\ operation' = 0 /\ busy' = NotBusy
            /\ UNCHANGED <<launched, op>>
       ELSE Launch("message", u)
    /\ UNCHANGED <<open, account, validity, sock, attached, submitted, result, serverVars,
                   spared, changes>>

\* _compose, confirmed.
Send ==
    /\ AtRest /\ busy = "no"
    /\ Launch("send", 0)
    /\ UNCHANGED <<open, account, validity, selected, reader, sock, attached, submitted, result,
                   serverVars, spared, changes>>

\* _account_changed.
AccountChanges(a) ==
    /\ AtRest /\ busy # "sending" /\ a # account
    /\ changes < MaxChanges /\ changes' = changes + 1
    /\ account' = a
    /\ CancelCurrent
    /\ generation' = NextGeneration /\ operation' = 0 /\ busy' = "no"
    /\ validity' = 0 /\ selected' = 0 /\ reader' = NoText
    /\ UNCHANGED <<open, launched, op, sock, attached, submitted, result, serverVars, spared>>

\* _on_destroy.
Close ==
    /\ AtRest
    /\ open' = "closed"
    /\ CancelCurrent
    /\ generation' = NextGeneration /\ operation' = 0
    /\ UNCHANGED <<account, validity, busy, selected, reader, launched, op, sock, attached,
                   submitted, result, serverVars, spared, changes>>

IsCurrent(o) == open = "open" /\ op[o].generation = generation

\* deliver_current and finish.
Deliver(o) ==
    /\ op[o].at = "posted" /\ \A p \in Ops : <<"window", p>> \notin closing
    /\ op' = [op EXCEPT ![o].at = "done"]
    /\ IF ~IsCurrent(o)
       THEN UNCHANGED windowVars
       ELSE /\ operation' = 0 /\ busy' = "no"
            /\ validity' = IF result[o] = "ok" /\ op[o].kind = "inbox"
                           THEN op[o].validity ELSE validity
            /\ reader' = IF result[o] = "ok" /\ op[o].kind = "message"
                         THEN [account |-> op[o].account, validity |-> op[o].validity,
                               uid |-> op[o].uid]
                         ELSE reader
            /\ UNCHANGED <<open, account, generation, selected>>
    /\ UNCHANGED <<launched, sock, attached, cancelVars, submitted, result, serverVars, changes>>

-----------------------------------------------------------------------------
(* cancel(), called by the window and by the operation's timer.            *)

Running(o) == op[o].at \notin {"unused", "posted", "done"}

TimerFires(o) ==
    /\ Running(o) /\ o \notin cancelled
    /\ cancelled' = cancelled \cup {o} /\ closing' = closing \cup {<<"timer", o>>}
    /\ UNCHANGED <<windowVars, launched, op, sock, attached, submitted, result, serverVars,
                   spared, changes>>

\* Seeded bug: the event is set and the socket left open.
SocketKept(o) == sock[o]

SocketAfter(o) == IF o \in attached /\ sock[o] = "open" THEN "shut" ELSE sock[o]

\* The second half of cancel(): take the socket, if there is one, and close it.
CancelCloses(c, o) ==
    /\ <<c, o>> \in closing
    /\ closing' = closing \ {<<c, o>>}
    /\ sock' = [sock EXCEPT ![o] = SocketAfter(o)]
    /\ spared' = IF o \in submitted THEN spared ELSE spared \cup {o}
    /\ UNCHANGED <<windowVars, launched, op, attached, cancelled, submitted, result, serverVars,
                   changes>>

-----------------------------------------------------------------------------
(* The worker.                                                             *)

\* The next thing the worker does, which concerns nobody else.
GoesTo(o, from, to) ==
    /\ op[o].at = from
    /\ op' = [op EXCEPT ![o].at = to]
    /\ UNCHANGED <<windowVars, launched, cancelVars, served, result, changes>>

Checkpoint(o) == o \notin cancelled

\* A connection is made, in SOCKET_TIMEOUT ...
Begin(o) ==
    /\ Checkpoint(o) /\ GoesTo(o, "started", "connecting")
    /\ UNCHANGED <<sock, attached, submitted, inflight, accepted>>

Connect(o) ==
    /\ GoesTo(o, "connecting", "connected")
    /\ sock' = [sock EXCEPT ![o] = "open"]
    /\ UNCHANGED <<attached, submitted, inflight, accepted>>

\* ... and attached: stored, and then the event is looked at.
Attach(o) ==
    /\ GoesTo(o, "connected", "attached")
    /\ attached' = attached \cup {o}
    /\ UNCHANGED <<sock, submitted, inflight, accepted>>

Attached(o) ==
    /\ Checkpoint(o) /\ GoesTo(o, "attached", "login")
    /\ UNCHANGED <<sock, attached, submitted, inflight, accepted>>

\* The server lets the account in.
Login(o) ==
    /\ sock[o] = "open" /\ Checkpoint(o)
    /\ GoesTo(o, "login", IF op[o].kind = "send" THEN "marking" ELSE "selecting")
    /\ UNCHANGED <<sock, attached, submitted, inflight, accepted>>

\* Seeded bug: a message is read by its uid whatever inbox the server has.
AnyInbox(o) == TRUE

SameInbox(o) == op[o].kind = "message" => op[o].validity = served[op[o].account]

\* SELECT answers with UIDVALIDITY, which holds for the whole session.
SelectInbox(o) ==
    /\ op[o].at = "selecting" /\ sock[o] = "open" /\ SameInbox(o) /\ Checkpoint(o)
    /\ op' = [op EXCEPT ![o].at = "fetching", ![o].validity = served[op[o].account]]
    /\ UNCHANGED <<windowVars, launched, sock, attached, cancelVars, submitted, result,
                   serverVars, changes>>

\* The worker ends: the connection is closed, the timer cancelled, the result
\* posted.
Ends(o, told) ==
    /\ op' = [op EXCEPT ![o].at = "posted"]
    /\ sock' = [sock EXCEPT ![o] = IF @ = "none" THEN "none" ELSE "shut"]
    /\ result' = [result EXCEPT ![o] = told]
    /\ UNCHANGED <<windowVars, launched, attached, cancelVars, submitted, serverVars, changes>>

\* FETCH answers.
Fetch(o) == op[o].at = "fetching" /\ sock[o] = "open" /\ Ends(o, "ok")

\* Seeded bug: submission_started is set once the message has been sent.
MarkedLater(o) == submitted

Marked(o) == submitted \cup {o}

Mark(o) ==
    /\ GoesTo(o, "marking", "sending")
    /\ submitted' = Marked(o)
    /\ UNCHANGED <<sock, attached, inflight, accepted>>

\* send_message: the whole message is handed over ...
Submit(o) ==
    /\ sock[o] = "open"
    /\ GoesTo(o, "sending", "waiting")
    /\ inflight' = inflight \cup {o}
    /\ UNCHANGED <<sock, attached, submitted, accepted>>

\* ... and the server says that it has it, for all recipients or for some.
Sent(o) == op[o].at = "waiting" /\ o \in accepted /\ sock[o] = "open" /\ Ends(o, "ok")

\* error_message, of what can be told for certain.
Verdict(o) == IF o \in submitted THEN "uncertain" ELSE "failed"

\* Any step may raise: a checkpoint, a timeout, an answer that is not OK, a
\* socket that was closed.
Fails(o) == Running(o) /\ Ends(o, Verdict(o))

Worker(o) ==
    \/ Begin(o) \/ Connect(o) \/ Attach(o) \/ Attached(o) \/ Login(o) \/ SelectInbox(o)
    \/ Fetch(o) \/ Mark(o) \/ Submit(o) \/ Sent(o) \/ Fails(o)

-----------------------------------------------------------------------------
(* The servers.                                                            *)

\* A message in flight is accepted, even after the client has given up, or not.
ServerTakes(o) ==
    /\ o \in inflight /\ inflight' = inflight \ {o}
    /\ accepted' \in {accepted, accepted \cup {o}}
    /\ UNCHANGED <<windowVars, launched, op, sock, attached, cancelVars, submitted, result,
                   served, changes>>

\* An inbox is made anew: its uids name other messages.
Renumbered(a) ==
    /\ changes < MaxChanges /\ changes' = changes + 1
    /\ served' = [served EXCEPT ![a] = @ + 1]
    /\ UNCHANGED <<windowVars, launched, op, sock, attached, cancelVars, submitted, result,
                   inflight, accepted>>

MailNext ==
    \/ Refresh \/ Send \/ Close
    \/ \E u \in Uids : Select(u)
    \/ \E a \in Accounts : AccountChanges(a) \/ Renumbered(a)
    \/ \E o \in Ops : Worker(o) \/ TimerFires(o) \/ Deliver(o) \/ ServerTakes(o)
    \/ \E c \in Cancellers, o \in Ops : CancelCloses(c, o)

MailSpec == MailInit /\ [][MailNext]_mailVars

\* What the worker does without waiting for a server, or because its socket was
\* closed, and a connection, which ends after SOCKET_TIMEOUT.
NeedsNoServer(o) ==
    \/ op[o].at \in {"started", "connecting", "connected", "attached", "marking", "sending"}
    \/ sock[o] = "shut"

\* Servers answer if they like.  Threads, timers and the main loop run.
MailFairness ==
    \A o \in Ops :
        /\ WF_mailVars(NeedsNoServer(o) /\ Worker(o))
        /\ WF_mailVars(TimerFires(o)) /\ WF_mailVars(Deliver(o))
        /\ \A c \in Cancellers : WF_mailVars(CancelCloses(c, o))

-----------------------------------------------------------------------------
(* Properties.                                                             *)

\* The text in the reader is that of the selected message, of this account and
\* of the inbox the list was read from, whatever was cancelled or renumbered.
ReaderShowsSelected ==
    reader # NoText =>
        reader = [account |-> account, validity |-> validity, uid |-> selected]

\* Whoever is told that sending failed may send again: the server does not have
\* the message and will not get it.  Everything else is reported as uncertain.
FailedMeansNotSent ==
    \A o \in Ops : result[o] = "failed" => o \notin accepted \cup inflight

\* A send that was cancelled before its submission began submits nothing, even
\* if it was cancelled while it had no socket to close.
CancelledSendsNothing == spared \cap (accepted \cup inflight) = {}

\* The buttons are insensitive just while the current operation runs, and any
\* other operation still running has been cancelled.
OneOperation ==
    /\ open = "open" => (busy # "no" <=> operation # 0)
    /\ \A o \in Ops : Running(o) /\ o # operation => o \in cancelled

\* The window does not stay busy: a server that stalls for ever is cut off.
BusyEnds == (busy # "no" /\ open = "open") ~> (busy = "no" \/ open = "closed")
=============================================================================
