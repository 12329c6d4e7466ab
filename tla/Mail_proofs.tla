----------------------------- MODULE Mail_proofs -----------------------------
(***************************************************************************)
(* What the Mail window promises, proved for any accounts, inboxes and     *)
(* number of operations.  The invariant is in five parts: types, the       *)
(* submission, the socket of what was cancelled, the generations, and      *)
(* what the reader shows.  Each is preserved by every action.              *)
(***************************************************************************)
EXTENDS Mail, TLAPS

\* The operations that are launched, and what they were launched for.
OpTypes ==
    /\ \A o \in Ops : o > launched => op[o].at = "unused"
    /\ \A o \in Ops : op[o].at # "unused" => op[o].account \in Accounts
    /\ \A o \in Ops : op[o].at # "unused" /\ op[o].kind = "message" =>
                          op[o].validity \in Validities /\ op[o].uid \in Uids
    /\ \A a \in Accounts : served[a] <= changes + 1

Types == MailTypeOK /\ OpTypes

SendInv ==
    /\ inflight \cup accepted \subseteq submitted
    /\ \A o \in Ops : op[o].at \in {"sending", "waiting"} => o \in submitted
    /\ \A o \in Ops : result[o] = "failed" => op[o].at \in {"posted", "done"} /\ o \notin submitted

Online == {"login", "selecting", "fetching", "marking", "sending", "waiting"}

CancelInv ==
    /\ \A c \in Cancellers, o \in Ops : <<c, o>> \in closing => o \in cancelled
    /\ spared \subseteq cancelled
    /\ \A o \in Ops : op[o].at \in Online \cup {"attached"} => o \in attached
    /\ \A o \in spared : op[o].at \in Online => sock[o] # "open"
    /\ CancelledSendsNothing

GenerationInv ==
    \A o \in Ops : op[o].at # "unused" =>
        /\ op[o].generation <= generation
        /\ op[o].generation = generation /\ op[o].at # "done" => o = operation

WindowInv == OneOperation /\ GenerationInv

ReadInv ==
    /\ ReaderShowsSelected
    /\ operation \in Ops /\ op[operation].kind = "message" =>
           /\ op[operation].account = account
           /\ op[operation].validity = validity
           /\ op[operation].uid = selected
    /\ operation \in Ops /\ op[operation].kind = "inbox" => reader = NoText

-----------------------------------------------------------------------------
(* What the steps do to the operations.                                    *)

OpType == [kind : MailKinds, at : WorkerSteps, generation : Nat, account : {"none"} \cup Accounts,
           validity : {0} \cup Validities, uid : {0} \cup Uids]

\* Launching fills in one operation that was unused.
LEMMA LaunchOp ==
    ASSUME Types, NEW kind \in MailKinds, NEW uid \in {0} \cup Uids, Launch(kind, uid)
    PROVE  /\ launched + 1 \in Ops /\ op[launched + 1].at = "unused"
           /\ op' \in [Ops -> OpType]
           /\ op'[launched + 1] = [kind |-> kind, at |-> "started", generation |-> generation + 1,
                  account |-> account, validity |-> validity, uid |-> uid]
           /\ \A o \in Ops : o # launched + 1 => op'[o] = op[o]
<1>1. launched \in Nat /\ launched < MaxOps /\ MaxOps \in Nat
  BY MailConstants DEF Types, MailTypeOK, Launch
<1>2. launched + 1 \in Ops
  BY <1>1 DEF Ops
<1>3. op[launched + 1].at = "unused"
  BY <1>1, <1>2 DEF Types, OpTypes
<1> DEFINE r == [kind |-> kind, at |-> "started", generation |-> generation + 1,
                 account |-> account, validity |-> validity, uid |-> uid]
<1>4. r \in OpType
  BY DEF OpType, WorkerSteps, Types, MailTypeOK
<1>5. op \in [Ops -> OpType]
  BY DEF OpType, Types, MailTypeOK
<1>6. op' = [op EXCEPT ![launched + 1] = r]
  BY DEF Launch, NextGeneration
<1> HIDE DEF r
<1>7. op' \in [Ops -> OpType] /\ op'[launched + 1] = r
      /\ \A o \in Ops : o # launched + 1 => op'[o] = op[o]
  BY <1>2, <1>4, <1>5, <1>6
<1> QED BY <1>2, <1>3, <1>7 DEF r

\* A worker changes the step of its operation, and SELECT its validity.
WorkerOp(o) ==
    /\ op' \in [Ops -> OpType]
    /\ \A p \in Ops : p # o => op'[p] = op[p]
    /\ op'[o].kind = op[o].kind /\ op'[o].generation = op[o].generation
    /\ op'[o].account = op[o].account /\ op'[o].uid = op[o].uid
    /\ op[o].at # "unused" /\ op'[o].at # "unused"

LEMMA StepOp ==
    ASSUME Types, NEW o \in Ops, NEW to \in WorkerSteps, to # "unused", op[o].at # "unused",
           op' = [op EXCEPT ![o].at = to]
    PROVE  WorkerOp(o) /\ op'[o].at = to /\ op'[o].validity = op[o].validity
<1>1. op \in [Ops -> OpType]
  BY DEF OpType, Types, MailTypeOK
<1>2. op' \in [Ops -> OpType]
  BY <1>1 DEF OpType
<1> QED BY <1>1, <1>2 DEF WorkerOp, OpType

LEMMA SelectOp ==
    ASSUME Types, NEW o \in Ops, SelectInbox(o)
    PROVE  /\ WorkerOp(o) /\ op'[o].at = "fetching" /\ op'[o].validity \in Validities
           /\ op[o].kind = "message" => op'[o].validity = op[o].validity
<1>1. op \in [Ops -> OpType]
  BY DEF OpType, Types, MailTypeOK
<1>2. op[o].at = "selecting" /\ op[o].account \in Accounts
  BY DEF SelectInbox, Types, OpTypes
<1>3. served[op[o].account] \in Validities
  BY <1>2 DEF Types, MailTypeOK
<1>4. op' = [op EXCEPT ![o].at = "fetching", ![o].validity = served[op[o].account]]
  BY DEF SelectInbox
<1>5. op' \in [Ops -> OpType]
  BY <1>1, <1>3, <1>4 DEF OpType, WorkerSteps
<1>6. op'[o].at = "fetching" /\ op'[o].validity = served[op[o].account]
  BY <1>1, <1>4 DEF OpType
<1>7. WorkerOp(o)
  BY <1>1, <1>2, <1>4, <1>5, <1>6 DEF WorkerOp, OpType
<1> QED BY <1>3, <1>6, <1>7 DEF SelectInbox, SameInbox

\* Every step of a worker leaves the window alone and keeps what its operation
\* is for.
WorkerFrame(o) ==
    /\ WorkerOp(o)
    /\ UNCHANGED <<windowVars, launched, cancelVars, served, changes>>
    /\ op[o].kind = "message" => op'[o].validity = op[o].validity
    /\ Running(o) /\ op'[o].at # "done"

LEMMA WorkerStep ==
    ASSUME Types, NEW o \in Ops, Worker(o)
    PROVE  WorkerFrame(o)
<1> USE DEF WorkerFrame, Running, cancelVars
<1>1. ASSUME NEW from \in WorkerSteps, NEW to \in WorkerSteps, from \notin {"unused", "posted", "done"},
             to \notin {"unused", "done"}, GoesTo(o, from, to)
      PROVE  WorkerFrame(o)
  <2>1. op[o].at = from /\ op' = [op EXCEPT ![o].at = to]
        /\ UNCHANGED <<windowVars, launched, cancelVars, served, changes>>
    BY <1>1 DEF GoesTo
  <2>2. WorkerOp(o) /\ op'[o].at = to /\ op'[o].validity = op[o].validity
    BY <1>1, <2>1, StepOp
  <2> QED BY <1>1, <2>1, <2>2
<1>2. ASSUME NEW told, Ends(o, told), Running(o)
      PROVE  WorkerFrame(o)
  <2>1. op' = [op EXCEPT ![o].at = "posted"]
        /\ UNCHANGED <<windowVars, launched, cancelVars, served, changes>>
    BY <1>2 DEF Ends, serverVars
  <2>2. WorkerOp(o) /\ op'[o].at = "posted" /\ op'[o].validity = op[o].validity
    BY <1>2, <2>1, StepOp DEF WorkerSteps
  <2> QED BY <1>2, <2>1, <2>2
<1>3. CASE Begin(o)
  BY <1>3, <1>1 DEF Begin, WorkerSteps
<1>4. CASE Connect(o)
  BY <1>4, <1>1 DEF Connect, WorkerSteps
<1>5. CASE Attach(o)
  BY <1>5, <1>1 DEF Attach, WorkerSteps
<1>6. CASE Attached(o)
  BY <1>6, <1>1 DEF Attached, WorkerSteps
<1>7. CASE Login(o)
  <2>1. CASE op[o].kind = "send"
    <3>1. GoesTo(o, "login", "marking")
      BY <1>7, <2>1 DEF Login
    <3> QED BY <3>1, <1>1 DEF WorkerSteps
  <2>2. CASE op[o].kind # "send"
    <3>1. GoesTo(o, "login", "selecting")
      BY <1>7, <2>2 DEF Login
    <3> QED BY <3>1, <1>1 DEF WorkerSteps
  <2> QED BY <2>1, <2>2
<1>8. CASE SelectInbox(o)
  BY <1>8, SelectOp DEF SelectInbox, serverVars
<1>9. CASE Fetch(o)
  BY <1>9, <1>2 DEF Fetch
<1>10. CASE Mark(o)
  BY <1>10, <1>1 DEF Mark, WorkerSteps
<1>11. CASE Submit(o)
  BY <1>11, <1>1 DEF Submit, WorkerSteps
<1>12. CASE Sent(o)
  BY <1>12, <1>2 DEF Sent
<1>13. CASE Fails(o)
  BY <1>13, <1>2 DEF Fails
<1> QED BY <1>3, <1>4, <1>5, <1>6, <1>7, <1>8, <1>9, <1>10, <1>11, <1>12, <1>13 DEF Worker

-----------------------------------------------------------------------------
(* The window: one operation, and its generation.                          *)

\* Handlers that launch an operation.
LEMMA LaunchKeepsWindow ==
    ASSUME Types, WindowInv, NEW kind \in MailKinds, NEW uid \in {0} \cup Uids, Launch(kind, uid),
           open' = open
    PROVE  WindowInv'
<1>1. /\ launched + 1 \in Ops /\ op' \in [Ops -> OpType]
      /\ op'[launched + 1].generation = generation + 1
      /\ \A o \in Ops : o # launched + 1 => op'[o] = op[o]
  <2>1. op'[launched + 1] = [kind |-> kind, at |-> "started", generation |-> generation + 1,
                             account |-> account, validity |-> validity, uid |-> uid]
    BY LaunchOp
  <2>2. launched + 1 \in Ops /\ op' \in [Ops -> OpType]
        /\ \A o \in Ops : o # launched + 1 => op'[o] = op[o]
    BY LaunchOp
  <2> QED BY <2>1, <2>2
<1>2. generation' = generation + 1 /\ operation' = launched + 1 /\ busy' # "no"
  BY DEF Launch, NextGeneration
<1>3. operation' # 0
  BY <1>1, <1>2 DEF Ops
<1>4. cancelled' = IF operation = 0 THEN cancelled ELSE cancelled \cup {operation}
  BY DEF Launch, CancelCurrent
<1>5. generation \in Nat
  BY DEF Types, MailTypeOK
<1>6. \A o \in Ops : op[o].generation \in Nat
  BY DEF Types, MailTypeOK
<1>7. GenerationInv'
  BY <1>1, <1>2, <1>5, <1>6 DEF WindowInv, GenerationInv
<1>8. ASSUME NEW o \in Ops, Running(o)', o # operation' PROVE o \in cancelled'
  <2>1. Running(o)
    BY <1>1, <1>2, <1>8 DEF Running
  <2>2. operation # 0 \/ o # operation
    BY DEF Ops
  <2> QED BY <2>1, <2>2, <1>4 DEF WindowInv, OneOperation
<1> QED BY <1>2, <1>3, <1>7, <1>8 DEF WindowInv, OneOperation

\* Handlers that only cancel the current one.
LEMMA CancelKeepsWindow ==
    ASSUME Types, WindowInv, CancelCurrent, generation' = generation + 1, operation' = 0,
           open' = "open" => busy' = "no", op' = op
    PROVE  WindowInv'
<1>1. cancelled' = IF operation = 0 THEN cancelled ELSE cancelled \cup {operation}
  BY DEF CancelCurrent
<1>2. generation \in Nat /\ \A o \in Ops : op[o].generation \in Nat
  BY DEF Types, MailTypeOK
<1>3. GenerationInv'
  BY <1>2 DEF WindowInv, GenerationInv
<1>4. ASSUME NEW o \in Ops, Running(o)' PROVE o \in cancelled'
  <2>1. Running(o)
    BY <1>4 DEF Running
  <2>2. operation # 0 \/ o # operation
    BY DEF Ops
  <2> QED BY <2>1, <2>2, <1>1 DEF WindowInv, OneOperation
<1> QED BY <1>3, <1>4 DEF WindowInv, OneOperation

LEMMA WindowStep ==
    ASSUME Types, WindowInv, [MailNext]_mailVars
    PROVE  WindowInv'
<1> USE DEF MailKinds
<1>1. CASE Refresh
  BY <1>1, LaunchKeepsWindow DEF Refresh
<1>2. CASE Send
  BY <1>2, LaunchKeepsWindow DEF Send
<1>3. CASE Close
  BY <1>3, CancelKeepsWindow DEF Close, NextGeneration
<1>4. ASSUME NEW u \in Uids, Select(u) PROVE WindowInv'
  BY <1>4, LaunchKeepsWindow, CancelKeepsWindow DEF Select, NextGeneration, NotBusy
<1>5. ASSUME NEW a \in Accounts, AccountChanges(a) PROVE WindowInv'
  BY <1>5, CancelKeepsWindow DEF AccountChanges, NextGeneration
<1>6. ASSUME NEW o \in Ops, Worker(o) PROVE WindowInv'
  <2>1. WorkerFrame(o)
    BY <1>6, WorkerStep
  <2>2. UNCHANGED <<open, busy, operation, generation, cancelled>>
    BY <2>1 DEF WorkerFrame, windowVars, cancelVars
  <2>3. \A p \in Ops : op'[p].generation = op[p].generation
        /\ (op'[p].at # "unused" => op[p].at # "unused") /\ (Running(p)' => Running(p))
        /\ (op'[p].at # "done" => op[p].at # "done")
    BY <2>1 DEF WorkerFrame, WorkerOp, Running
  <2>4. GenerationInv'
    BY <2>2, <2>3 DEF WindowInv, GenerationInv
  <2>5. OneOperation'
    BY <2>2, <2>3 DEF WindowInv, OneOperation
  <2> QED BY <2>4, <2>5 DEF WindowInv
<1>7. ASSUME NEW o \in Ops, Deliver(o) PROVE WindowInv'
  <2>1. op[o].at = "posted" /\ op' = [op EXCEPT ![o].at = "done"] /\ cancelled' = cancelled
    BY <1>7 DEF Deliver, cancelVars
  <2>2. WorkerOp(o) /\ op'[o].at = "done"
    BY <2>1, StepOp DEF WorkerSteps
  <2>3. \A p \in Ops : op'[p].generation = op[p].generation
        /\ (op'[p].at # "unused" => op[p].at # "unused") /\ (Running(p)' => Running(p))
        /\ (op'[p].at # "done" => op[p].at # "done" /\ p # o)
    BY <2>1, <2>2 DEF WorkerOp, Running
  <2>4. CASE IsCurrent(o)
    <3>1. o = operation
      BY <2>1, <2>4 DEF IsCurrent, WindowInv, GenerationInv
    <3>2. operation' = 0 /\ busy' = "no" /\ open' = open /\ generation' = generation
      BY <1>7, <2>4 DEF Deliver
    <3>3. ~Running(o)
      BY <2>1 DEF Running
    <3>4. GenerationInv'
      BY <2>3, <3>1, <3>2 DEF WindowInv, GenerationInv
    <3>5. OneOperation'
      BY <2>1, <2>3, <3>1, <3>2, <3>3 DEF WindowInv, OneOperation
    <3> QED BY <3>4, <3>5 DEF WindowInv
  <2>5. CASE ~IsCurrent(o)
    <3>1. UNCHANGED <<open, busy, operation, generation>>
      BY <1>7, <2>5 DEF Deliver, windowVars
    <3>2. GenerationInv' /\ OneOperation'
      BY <2>1, <2>3, <3>1 DEF WindowInv, GenerationInv, OneOperation
    <3> QED BY <3>2 DEF WindowInv
  <2> QED BY <2>4, <2>5
<1>8. CASE UNCHANGED <<windowVars, op>> /\ cancelled \subseteq cancelled'
  BY <1>8 DEF windowVars, WindowInv, OneOperation, GenerationInv, Running
<1>9. ASSUME NEW o \in Ops, TimerFires(o) PROVE WindowInv'
  BY <1>8, <1>9 DEF TimerFires
<1>10. ASSUME NEW c \in Cancellers, NEW o \in Ops, CancelCloses(c, o) PROVE WindowInv'
  BY <1>8, <1>10 DEF CancelCloses
<1>11. ASSUME NEW o \in Ops, ServerTakes(o) PROVE WindowInv'
  BY <1>8, <1>11 DEF ServerTakes, cancelVars
<1>12. ASSUME NEW a \in Accounts, Renumbered(a) PROVE WindowInv'
  BY <1>8, <1>12 DEF Renumbered, cancelVars
<1>13. CASE UNCHANGED mailVars
  BY <1>8, <1>13 DEF mailVars, cancelVars
<1> QED BY <1>1, <1>2, <1>3, <1>4, <1>5, <1>6, <1>7, <1>9, <1>10, <1>11, <1>12, <1>13 DEF MailNext

-----------------------------------------------------------------------------
(* What is sent.                                                           *)

LEMMA SendStep ==
    ASSUME Types, SendInv, [MailNext]_mailVars
    PROVE  SendInv'
<1> USE DEF SendInv, MailKinds
<1>1. CASE UNCHANGED <<op, inflight, accepted, submitted, result>>
  BY <1>1
<1>2. ASSUME NEW kind \in MailKinds, NEW uid \in {0} \cup Uids, Launch(kind, uid),
             UNCHANGED <<inflight, accepted, submitted, result>>
      PROVE  SendInv'
  <2>1. launched + 1 \in Ops /\ op[launched + 1].at = "unused"
        /\ \A o \in Ops : o # launched + 1 => op'[o] = op[o]
    BY <1>2, LaunchOp
  <2>2. op'[launched + 1] = [kind |-> kind, at |-> "started", generation |-> generation + 1,
                             account |-> account, validity |-> validity, uid |-> uid]
    BY <1>2, LaunchOp
  <2>3. op'[launched + 1].at = "started"
    BY <2>2
  <2> QED BY <1>2, <2>1, <2>3
<1>3. CASE Refresh
  BY <1>3, <1>2 DEF Refresh, serverVars
<1>4. CASE Send
  BY <1>4, <1>2 DEF Send, serverVars
<1>5. CASE Close
  BY <1>5, <1>1 DEF Close, serverVars
<1>6. ASSUME NEW u \in Uids, Select(u) PROVE SendInv'
  BY <1>6, <1>1, <1>2 DEF Select, serverVars
<1>7. ASSUME NEW a \in Accounts, AccountChanges(a) \/ Renumbered(a) PROVE SendInv'
  BY <1>7, <1>1 DEF AccountChanges, Renumbered, serverVars
<1>8. ASSUME NEW o \in Ops, Worker(o) PROVE SendInv'
  <2>1. WorkerFrame(o)
    BY <1>8, WorkerStep
  <2>2. \A p \in Ops : p # o => op'[p] = op[p]
    BY <2>1 DEF WorkerFrame, WorkerOp
  <2>3. o \notin submitted \/ result[o] # "failed"
    OBVIOUS
  <2>4. result[o] # "failed"
    BY <2>1 DEF WorkerFrame, Running
  <2>5. ASSUME NEW from, NEW to \in WorkerSteps, to # "unused", GoesTo(o, from, to), from # "unused"
        PROVE  op[o].at = from /\ op'[o].at = to /\ result' = result
    BY <2>5, StepOp DEF GoesTo
  <2>6. CASE Begin(o)
    BY <2>2, <2>4, <2>5, <2>6 DEF Begin, WorkerSteps
  <2>7. CASE Connect(o)
    BY <2>2, <2>4, <2>5, <2>7 DEF Connect, WorkerSteps
  <2>8. CASE Attach(o)
    BY <2>2, <2>4, <2>5, <2>8 DEF Attach, WorkerSteps
  <2>9. CASE Attached(o)
    BY <2>2, <2>4, <2>5, <2>9 DEF Attached, WorkerSteps
  <2>10. CASE Login(o)
    <3>1. op'[o].at \in {"marking", "selecting"} /\ UNCHANGED <<inflight, accepted, submitted, result>>
      BY <2>5, <2>10 DEF Login, WorkerSteps
    <3> QED BY <2>2, <2>4, <3>1
  <2>11. CASE SelectInbox(o)
    <3>1. op'[o].at = "fetching" /\ UNCHANGED <<inflight, accepted, submitted, result>>
      BY <2>11, SelectOp DEF SelectInbox, serverVars
    <3> QED BY <2>2, <2>4, <3>1
  <2>12. ASSUME NEW told, Ends(o, told), told = "failed" => o \notin submitted PROVE SendInv'
    <3>1. op' = [op EXCEPT ![o].at = "posted"] /\ op[o].at # "unused"
      BY <2>1, <2>12 DEF Ends, WorkerFrame, WorkerOp
    <3>2. op'[o].at = "posted"
      BY <3>1, StepOp DEF WorkerSteps
    <3>3. result' = [result EXCEPT ![o] = told] /\ UNCHANGED <<inflight, accepted, submitted>>
      BY <2>12 DEF Ends, serverVars
    <3> QED BY <2>2, <2>12, <3>2, <3>3 DEF Types, MailTypeOK
  <2>13. CASE Fetch(o)
    BY <2>12, <2>13 DEF Fetch
  <2>14. CASE Mark(o)
    <3>1. op'[o].at = "sending" /\ UNCHANGED <<inflight, accepted, result>>
          /\ submitted' = submitted \cup {o}
      BY <2>5, <2>14 DEF Mark, Marked, WorkerSteps
    <3> QED BY <2>2, <2>4, <3>1
  <2>15. CASE Submit(o)
    <3>1. op[o].at = "sending" /\ op'[o].at = "waiting" /\ UNCHANGED <<accepted, submitted, result>>
          /\ inflight' = inflight \cup {o}
      BY <2>5, <2>15 DEF Submit, WorkerSteps
    <3> QED BY <2>2, <2>4, <3>1
  <2>16. CASE Sent(o)
    BY <2>12, <2>16 DEF Sent
  <2>17. CASE Fails(o)
    <3>1. Verdict(o) = "failed" => o \notin submitted
      BY DEF Verdict
    <3> QED BY <2>12, <2>17, <3>1 DEF Fails
  <2> QED BY <1>8, <2>6, <2>7, <2>8, <2>9, <2>10, <2>11, <2>13, <2>14, <2>15, <2>16, <2>17 DEF Worker
<1>9. ASSUME NEW o \in Ops, Deliver(o) PROVE SendInv'
  <2>1. op[o].at = "posted" /\ op' = [op EXCEPT ![o].at = "done"]
        /\ UNCHANGED <<inflight, accepted, submitted, result>>
    BY <1>9 DEF Deliver, serverVars
  <2>2. WorkerOp(o) /\ op'[o].at = "done"
    BY <2>1, StepOp DEF WorkerSteps
  <2> QED BY <2>1, <2>2 DEF WorkerOp
<1>10. ASSUME NEW o \in Ops, ServerTakes(o) PROVE SendInv'
  BY <1>10 DEF ServerTakes
<1>11. ASSUME NEW o \in Ops, TimerFires(o) PROVE SendInv'
  BY <1>11, <1>1 DEF TimerFires, serverVars
<1>12. ASSUME NEW c \in Cancellers, NEW o \in Ops, CancelCloses(c, o) PROVE SendInv'
  BY <1>12, <1>1 DEF CancelCloses, serverVars
<1>13. CASE UNCHANGED mailVars
  BY <1>1, <1>13 DEF mailVars, serverVars
<1> QED BY <1>3, <1>4, <1>5, <1>6, <1>7, <1>8, <1>9, <1>10, <1>11, <1>12, <1>13 DEF MailNext

-----------------------------------------------------------------------------
(* What was cancelled: an operation gets online only past a checkpoint, and *)
(* online it has a socket that cancel() finds.                             *)

LEMMA CancelStep ==
    ASSUME Types, SendInv, CancelInv, [MailNext]_mailVars
    PROVE  CancelInv'
<1> USE DEF CancelInv, CancelledSendsNothing, MailKinds
<1>1. CASE UNCHANGED <<op, sock, attached, spared, inflight, accepted>>
           /\ cancelled \subseteq cancelled'
           /\ \A c \in Cancellers, o \in Ops : <<c, o>> \in closing' => o \in cancelled'
  BY <1>1
<1>2. ASSUME CancelCurrent
      PROVE  /\ cancelled \subseteq cancelled'
             /\ \A c \in Cancellers, o \in Ops : <<c, o>> \in closing' => o \in cancelled'
  BY <1>2 DEF CancelCurrent
<1>3. ASSUME NEW kind \in MailKinds, NEW uid \in {0} \cup Uids, Launch(kind, uid),
             UNCHANGED <<sock, attached, spared, inflight, accepted>>
      PROVE  CancelInv'
  <2>1. launched + 1 \in Ops
        /\ \A o \in Ops : o # launched + 1 => op'[o] = op[o]
    BY <1>3, LaunchOp
  <2>2. op'[launched + 1] = [kind |-> kind, at |-> "started", generation |-> generation + 1,
                             account |-> account, validity |-> validity, uid |-> uid]
    BY <1>3, LaunchOp
  <2>3. op'[launched + 1].at \notin Online \cup {"attached"}
    BY <2>2 DEF Online
  <2>4. \A o \in Ops : op'[o].at \in Online \cup {"attached"} => op'[o] = op[o]
    BY <2>1, <2>3
  <2>5. spared \subseteq Ops
    BY DEF Types, MailTypeOK
  <2> QED BY <1>2, <1>3, <2>4, <2>5 DEF Launch
<1>4. CASE Refresh
  BY <1>4, <1>3 DEF Refresh, serverVars
<1>5. CASE Send
  BY <1>5, <1>3 DEF Send, serverVars
<1>6. CASE Close
  BY <1>6, <1>1, <1>2 DEF Close, serverVars
<1>7. ASSUME NEW u \in Uids, Select(u) PROVE CancelInv'
  BY <1>7, <1>1, <1>2, <1>3 DEF Select, serverVars
<1>8. ASSUME NEW a \in Accounts, AccountChanges(a) PROVE CancelInv'
  BY <1>8, <1>1, <1>2 DEF AccountChanges, serverVars
<1>9. ASSUME NEW a \in Accounts, Renumbered(a) PROVE CancelInv'
  BY <1>9, <1>1 DEF Renumbered, cancelVars
<1>10. ASSUME NEW o \in Ops, Worker(o) PROVE CancelInv'
  <2>1. WorkerFrame(o)
    BY <1>10, WorkerStep
  <2>2. \A p \in Ops : p # o => op'[p] = op[p]
    BY <2>1 DEF WorkerFrame, WorkerOp
  <2>3. UNCHANGED <<cancelled, closing, spared>>
    BY <2>1 DEF WorkerFrame, cancelVars
  <2>4. spared \subseteq Ops
    BY DEF Types, MailTypeOK
  <2>5. ASSUME NEW from, NEW to \in WorkerSteps, to # "unused", GoesTo(o, from, to), from # "unused"
        PROVE  op[o].at = from /\ op'[o].at = to
    BY <2>5, StepOp DEF GoesTo
  <2>6. CASE Begin(o)
    BY <2>2, <2>3, <2>4, <2>5, <2>6 DEF Begin, WorkerSteps, Online
  <2>7. CASE Connect(o)
    <3>1. op'[o].at = "connected" /\ sock' = [sock EXCEPT ![o] = "open"]
          /\ UNCHANGED <<attached, inflight, accepted>>
      BY <2>5, <2>7 DEF Connect, WorkerSteps
    <3> QED BY <2>2, <2>3, <2>4, <3>1 DEF Online
  <2>8. CASE Attach(o)
    <3>1. op'[o].at = "attached" /\ attached' = attached \cup {o} /\ UNCHANGED <<sock, inflight, accepted>>
      BY <2>5, <2>8 DEF Attach, WorkerSteps
    <3> QED BY <2>2, <2>3, <2>4, <3>1 DEF Online
  <2>9. CASE Attached(o)
    <3>1. op[o].at = "attached" /\ o \notin cancelled
          /\ UNCHANGED <<attached, sock, inflight, accepted>>
      BY <2>5, <2>9 DEF Attached, WorkerSteps, Checkpoint
    <3> QED BY <2>2, <2>3, <2>4, <3>1 DEF Online
  <2>10. CASE Login(o)
    <3>1. op[o].at = "login" /\ UNCHANGED <<attached, sock, inflight, accepted>>
      BY <2>10 DEF Login, GoesTo
    <3> QED BY <2>2, <2>3, <2>4, <3>1 DEF Online
  <2>11. CASE SelectInbox(o)
    <3>1. op[o].at = "selecting" /\ UNCHANGED <<attached, sock, inflight, accepted>>
      BY <2>11 DEF SelectInbox, serverVars
    <3> QED BY <2>2, <2>3, <2>4, <3>1 DEF Online
  <2>12. ASSUME NEW told, Ends(o, told) PROVE CancelInv'
    <3>1. op' = [op EXCEPT ![o].at = "posted"] /\ op[o].at # "unused"
      BY <2>1, <2>12 DEF Ends, WorkerFrame, WorkerOp
    <3>2. op'[o].at = "posted"
      BY <3>1, StepOp DEF WorkerSteps
    <3>3. \A p \in Ops : p # o => sock'[p] = sock[p]
      BY <2>12 DEF Ends, Types, MailTypeOK
    <3>4. UNCHANGED <<attached, inflight, accepted>>
      BY <2>12 DEF Ends, serverVars
    <3> QED BY <2>2, <2>3, <2>4, <3>2, <3>3, <3>4 DEF Online
  <2>13. CASE Fetch(o)
    BY <2>12, <2>13 DEF Fetch
  <2>14. CASE Mark(o)
    <3>1. op[o].at = "marking" /\ UNCHANGED <<attached, sock, inflight, accepted>>
      BY <2>14 DEF Mark, GoesTo
    <3> QED BY <2>2, <2>3, <2>4, <3>1 DEF Online
  <2>15. CASE Submit(o)
    <3>1. op[o].at = "sending" /\ sock[o] = "open" /\ UNCHANGED <<attached, sock, accepted>>
          /\ inflight' = inflight \cup {o}
      BY <2>15 DEF Submit, GoesTo
    <3>2. o \notin spared
      BY <3>1 DEF Online
    <3> QED BY <2>2, <2>3, <2>4, <3>1, <3>2 DEF Online
  <2>16. CASE Sent(o)
    BY <2>12, <2>16 DEF Sent
  <2>17. CASE Fails(o)
    BY <2>12, <2>17 DEF Fails
  <2> QED BY <1>10, <2>6, <2>7, <2>8, <2>9, <2>10, <2>11, <2>13, <2>14, <2>15, <2>16, <2>17 DEF Worker
<1>11. ASSUME NEW o \in Ops, Deliver(o) PROVE CancelInv'
  <2>1. op[o].at = "posted" /\ op' = [op EXCEPT ![o].at = "done"]
        /\ UNCHANGED <<sock, attached, cancelled, closing, spared, inflight, accepted>>
    BY <1>11 DEF Deliver, cancelVars, serverVars
  <2>2. WorkerOp(o) /\ op'[o].at = "done"
    BY <2>1, StepOp DEF WorkerSteps
  <2>3. \A p \in Ops : op'[p].at \in Online \cup {"attached"} => op'[p] = op[p]
    BY <2>2 DEF WorkerOp, Online
  <2>4. spared \subseteq Ops
    BY DEF Types, MailTypeOK
  <2> QED BY <2>1, <2>3, <2>4
<1>12. ASSUME NEW o \in Ops, TimerFires(o) PROVE CancelInv'
  <2>1. cancelled' = cancelled \cup {o} /\ closing' = closing \cup {<<"timer", o>>}
        /\ UNCHANGED <<op, sock, attached, spared, inflight, accepted>>
    BY <1>12 DEF TimerFires, serverVars
  <2> QED BY <2>1
<1>13. ASSUME NEW c \in Cancellers, NEW o \in Ops, CancelCloses(c, o) PROVE CancelInv'
  <2>1. o \in cancelled /\ closing' \subseteq closing
        /\ UNCHANGED <<op, attached, cancelled, inflight, accepted, submitted>>
    BY <1>13 DEF CancelCloses, serverVars
  <2>2. spared' = IF o \in submitted THEN spared ELSE spared \cup {o}
    BY <1>13 DEF CancelCloses
  <2>3. \A p \in Ops : sock'[p] = IF p = o THEN SocketAfter(o) ELSE sock[p]
    BY <1>13 DEF CancelCloses, Types, MailTypeOK
  <2>4. o \in attached => sock'[o] # "open"
    BY <2>3 DEF SocketAfter
  <2>5. o \notin submitted => o \notin inflight \cup accepted
    BY DEF SendInv
  <2>6. spared' \subseteq cancelled' /\ spared' \subseteq Ops
    BY <2>1, <2>2 DEF Types, MailTypeOK
  <2>7. \A p \in spared' : op'[p].at \in Online => sock'[p] # "open"
    BY <2>1, <2>2, <2>3, <2>4, <2>6
  <2> QED BY <2>1, <2>2, <2>5, <2>6, <2>7
<1>14. ASSUME NEW o \in Ops, ServerTakes(o) PROVE CancelInv'
  <2>1. inflight' \cup accepted' \subseteq inflight \cup accepted
    BY <1>14 DEF ServerTakes
  <2>2. UNCHANGED <<op, sock, attached, cancelled, closing, spared>>
    BY <1>14 DEF ServerTakes, cancelVars
  <2> QED BY <2>1, <2>2
<1>15. CASE UNCHANGED mailVars
  BY <1>1, <1>15 DEF mailVars, cancelVars, serverVars
<1> QED BY <1>4, <1>5, <1>6, <1>7, <1>8, <1>9, <1>10, <1>11, <1>12, <1>13, <1>14, <1>15 DEF MailNext

-----------------------------------------------------------------------------
(* What is read.                                                           *)

LEMMA ReadStep ==
    ASSUME Types, WindowInv, ReadInv, [MailNext]_mailVars
    PROVE  ReadInv'
<1> USE DEF ReadInv, ReaderShowsSelected, MailKinds
<1>1. CASE UNCHANGED <<account, validity, selected, reader, operation, op>>
  BY <1>1
<1>2. CASE operation' = 0 /\ reader' = NoText
  BY <1>2 DEF Ops
<1>3. ASSUME NEW kind \in MailKinds, NEW uid \in {0} \cup Uids, Launch(kind, uid), reader' = NoText,
             kind = "message" => account' = account /\ validity' = validity /\ selected' = uid
      PROVE  ReadInv'
  <2>1. op'[launched + 1] = [kind |-> kind, at |-> "started", generation |-> generation + 1,
                             account |-> account, validity |-> validity, uid |-> uid]
    BY <1>3, LaunchOp
  <2>2. operation' = launched + 1
    BY <1>3 DEF Launch
  <2> QED BY <1>3, <2>1, <2>2
<1>4. CASE Refresh
  BY <1>4, <1>3 DEF Refresh
<1>5. CASE Send
  \* The reader keeps its text: sending neither reads nor clears it.
  <2>1. op'[launched + 1] = [kind |-> "send", at |-> "started", generation |-> generation + 1,
                             account |-> account, validity |-> validity, uid |-> 0]
    BY <1>5, LaunchOp DEF Send
  <2>2. operation' = launched + 1 /\ UNCHANGED <<account, validity, selected, reader>>
    BY <1>5 DEF Send, Launch
  <2> QED BY <2>1, <2>2
<1>6. CASE Close
  BY <1>6 DEF Close, Ops
<1>7. ASSUME NEW u \in Uids, Select(u) PROVE ReadInv'
  BY <1>7, <1>2, <1>3 DEF Select
<1>8. ASSUME NEW a \in Accounts, AccountChanges(a) PROVE ReadInv'
  BY <1>8, <1>2 DEF AccountChanges
<1>9. ASSUME NEW a \in Accounts, Renumbered(a) PROVE ReadInv'
  BY <1>9, <1>1 DEF Renumbered, windowVars
<1>10. ASSUME NEW o \in Ops, Worker(o) PROVE ReadInv'
  <2>1. WorkerFrame(o)
    BY <1>10, WorkerStep
  <2>2. UNCHANGED <<account, validity, selected, reader, operation>>
    BY <2>1 DEF WorkerFrame, windowVars
  <2>3. \A p \in Ops : op'[p].kind = op[p].kind /\ op'[p].account = op[p].account
        /\ op'[p].uid = op[p].uid /\ (op[p].kind = "message" => op'[p].validity = op[p].validity)
    BY <2>1 DEF WorkerFrame, WorkerOp
  <2> QED BY <2>2, <2>3
<1>11. ASSUME NEW o \in Ops, Deliver(o) PROVE ReadInv'
  <2>1. op[o].at = "posted" /\ op' = [op EXCEPT ![o].at = "done"]
    BY <1>11 DEF Deliver
  <2>2. WorkerOp(o) /\ op'[o].validity = op[o].validity
    BY <2>1, StepOp DEF WorkerSteps
  <2>3. \A p \in Ops : op'[p].kind = op[p].kind /\ op'[p].account = op[p].account
        /\ op'[p].uid = op[p].uid /\ op'[p].validity = op[p].validity
    BY <2>2 DEF WorkerOp
  <2>4. CASE ~IsCurrent(o)
    <3>1. UNCHANGED <<account, validity, selected, reader, operation>>
      BY <1>11, <2>4 DEF Deliver, windowVars
    <3> QED BY <2>3, <3>1
  <2>5. CASE IsCurrent(o)
    <3>1. o = operation
      BY <2>1, <2>5 DEF IsCurrent, WindowInv, GenerationInv
    <3>2. operation' = 0 /\ UNCHANGED <<account, selected>>
          /\ validity' = (IF result[o] = "ok" /\ op[o].kind = "inbox" THEN op[o].validity ELSE validity)
          /\ reader' = (IF result[o] = "ok" /\ op[o].kind = "message"
                        THEN [account |-> op[o].account, validity |-> op[o].validity, uid |-> op[o].uid]
                        ELSE reader)
      BY <1>11, <2>5 DEF Deliver
    <3>3. CASE op[o].kind = "message"
      BY <3>1, <3>2, <3>3 DEF Ops
    <3>4. CASE op[o].kind = "inbox"
      <4>1. reader' = NoText
        BY <3>1, <3>2, <3>4
      <4> QED BY <3>2, <4>1 DEF Ops
    <3>5. CASE op[o].kind \notin {"message", "inbox"}
      BY <3>2, <3>5 DEF Ops
    <3> QED BY <3>3, <3>4, <3>5
  <2> QED BY <2>4, <2>5
<1>12. ASSUME NEW o \in Ops, TimerFires(o) \/ ServerTakes(o) PROVE ReadInv'
  BY <1>12, <1>1 DEF TimerFires, ServerTakes, windowVars
<1>13. ASSUME NEW c \in Cancellers, NEW o \in Ops, CancelCloses(c, o) PROVE ReadInv'
  BY <1>13, <1>1 DEF CancelCloses, windowVars
<1>14. CASE UNCHANGED mailVars
  BY <1>1, <1>14 DEF mailVars, windowVars
<1> QED BY <1>4, <1>5, <1>6, <1>7, <1>8, <1>9, <1>10, <1>11, <1>12, <1>13, <1>14 DEF MailNext

-----------------------------------------------------------------------------
(* Types.                                                                  *)

WindowTypes ==
    /\ open \in {"open", "closed"} /\ account \in Accounts
    /\ generation \in Nat /\ operation \in 0..MaxOps /\ validity \in {0} \cup Validities
    /\ busy \in {"no", "reading", "sending"}
    /\ selected \in {0} \cup Uids /\ reader \in {NoText} \cup Messages

WorkTypes ==
    /\ launched \in 0..MaxOps /\ op \in [Ops -> OpType] /\ OpTypes
    /\ sock \in [Ops -> {"none", "open", "shut"}]
    /\ \A o \in Ops : op[o].at \in {"unused", "started", "connecting"} => sock[o] = "none"
    /\ result \in [Ops -> {"none", "ok", "failed", "uncertain"}]
    /\ served \in [Accounts -> Validities] /\ changes \in 0..MaxChanges

SetTypes ==
    /\ attached \subseteq Ops /\ cancelled \subseteq Ops /\ submitted \subseteq Ops
    /\ closing \subseteq Cancellers \X Ops
    /\ inflight \subseteq Ops /\ accepted \subseteq Ops /\ spared \subseteq Ops

LEMMA TypesParts == Types <=> WindowTypes /\ WorkTypes /\ SetTypes
BY DEF Types, MailTypeOK, WindowTypes, WorkTypes, SetTypes, OpType

LEMMA WindowTypesStep ==
    ASSUME Types, [MailNext]_mailVars
    PROVE  WindowTypes'
<1>0. WindowTypes /\ MailConstants
  BY TypesParts, MailConstants
<1> USE <1>0 DEF WindowTypes, MailKinds
<1>1. CASE UNCHANGED windowVars
  BY <1>1 DEF windowVars
<1>2. ASSUME NEW kind \in MailKinds, NEW uid \in {0} \cup Uids, Launch(kind, uid)
      PROVE  generation' \in Nat /\ operation' \in 0..MaxOps /\ busy' \in {"no", "reading", "sending"}
  <2>1. launched + 1 \in Ops
    BY <1>2, LaunchOp
  <2> QED BY <1>2, <2>1 DEF Launch, NextGeneration, Ops, MailConstants
<1>3. CASE Refresh \/ Send
  BY <1>2, <1>3 DEF Refresh, Send
<1>4. CASE Close
  BY <1>4 DEF Close, NextGeneration, MailConstants
<1>5. ASSUME NEW u \in Uids, Select(u) PROVE WindowTypes'
  BY <1>2, <1>5 DEF Select, NextGeneration, NotBusy, MailConstants
<1>6. ASSUME NEW a \in Accounts, AccountChanges(a) PROVE WindowTypes'
  BY <1>6 DEF AccountChanges, NextGeneration, MailConstants
<1>7. ASSUME NEW o \in Ops, Deliver(o) PROVE WindowTypes'
  <2>1. CASE ~IsCurrent(o)
    BY <1>1, <1>7, <2>1 DEF Deliver
  <2>2. CASE IsCurrent(o)
    <3>1. op[o] \in OpType /\ op[o].at = "posted"
      BY <1>7 DEF Deliver, Types, MailTypeOK, OpType
    <3>2. op[o].validity \in {0} \cup Validities
      BY <3>1 DEF OpType
    <3>3. op[o].kind = "message" =>
            [account |-> op[o].account, validity |-> op[o].validity, uid |-> op[o].uid] \in Messages
      BY <3>1 DEF Types, OpTypes, Messages
    <3>4. operation' = 0 /\ busy' = "no" /\ UNCHANGED <<open, account, generation, selected>>
          /\ validity' = (IF result[o] = "ok" /\ op[o].kind = "inbox" THEN op[o].validity ELSE validity)
          /\ reader' = (IF result[o] = "ok" /\ op[o].kind = "message"
                        THEN [account |-> op[o].account, validity |-> op[o].validity, uid |-> op[o].uid]
                        ELSE reader)
      BY <1>7, <2>2 DEF Deliver
    <3> QED BY <3>2, <3>3, <3>4 DEF MailConstants
  <2> QED BY <2>1, <2>2
<1>8. ASSUME NEW o \in Ops, Worker(o) \/ TimerFires(o) \/ ServerTakes(o) PROVE WindowTypes'
  BY <1>1, <1>8, WorkerStep DEF WorkerFrame, TimerFires, ServerTakes
<1>9. ASSUME NEW c \in Cancellers, NEW o \in Ops, CancelCloses(c, o) PROVE WindowTypes'
  BY <1>1, <1>9 DEF CancelCloses
<1>10. ASSUME NEW a \in Accounts, Renumbered(a) PROVE WindowTypes'
  BY <1>1, <1>10 DEF Renumbered
<1>11. CASE UNCHANGED mailVars
  BY <1>1, <1>11 DEF mailVars
<1> QED BY <1>3, <1>4, <1>5, <1>6, <1>7, <1>8, <1>9, <1>10, <1>11 DEF MailNext

LEMMA SetTypesStep ==
    ASSUME Types, [MailNext]_mailVars
    PROVE  SetTypes'
<1>0. SetTypes /\ operation \in 0..MaxOps
  BY TypesParts DEF Types, MailTypeOK
<1> USE <1>0 DEF SetTypes
<1>1. CancelCurrent => cancelled' \subseteq Ops /\ closing' \subseteq Cancellers \X Ops
  <2>1. operation # 0 => operation \in Ops /\ <<"window", operation>> \in Cancellers \X Ops
    BY MailConstants DEF Cancellers, Ops, MailConstants
  <2> QED BY <2>1 DEF CancelCurrent
<1>2. CASE Refresh \/ Send
  BY <1>1, <1>2 DEF Refresh, Send, Launch, serverVars
<1>3. CASE Close
  BY <1>1, <1>3 DEF Close, serverVars
<1>4. ASSUME NEW u \in Uids, Select(u) PROVE SetTypes'
  BY <1>1, <1>4 DEF Select, Launch, serverVars
<1>5. ASSUME NEW a \in Accounts, AccountChanges(a) PROVE SetTypes'
  BY <1>1, <1>5 DEF AccountChanges, serverVars
<1>6. ASSUME NEW o \in Ops, Worker(o) PROVE SetTypes'
  <2>1. UNCHANGED <<cancelled, closing, spared>>
    BY <1>6, WorkerStep DEF WorkerFrame, cancelVars
  <2>2. attached' \subseteq Ops /\ submitted' \subseteq Ops /\ inflight' \subseteq Ops /\ accepted' \subseteq Ops
    BY <1>6 DEF Worker, Begin, Connect, Attach, Attached, Login, SelectInbox, Fetch, Mark, Marked,
       Submit, Sent, Fails, Ends, serverVars
  <2> QED BY <2>1, <2>2
<1>7. ASSUME NEW o \in Ops, Deliver(o) PROVE SetTypes'
  BY <1>7 DEF Deliver, cancelVars, serverVars
<1>8. ASSUME NEW o \in Ops, TimerFires(o) PROVE SetTypes'
  BY <1>8 DEF TimerFires, serverVars, Cancellers
<1>9. ASSUME NEW c \in Cancellers, NEW o \in Ops, CancelCloses(c, o) PROVE SetTypes'
  BY <1>9 DEF CancelCloses, serverVars
<1>10. ASSUME NEW o \in Ops, ServerTakes(o) PROVE SetTypes'
  BY <1>10 DEF ServerTakes, cancelVars
<1>11. ASSUME NEW a \in Accounts, Renumbered(a) PROVE SetTypes'
  BY <1>11 DEF Renumbered, cancelVars
<1>12. CASE UNCHANGED mailVars
  BY <1>12 DEF mailVars, cancelVars, serverVars
<1> QED BY <1>2, <1>3, <1>4, <1>5, <1>6, <1>7, <1>8, <1>9, <1>10, <1>11, <1>12 DEF MailNext

LEMMA WorkTypesStep ==
    ASSUME Types, [MailNext]_mailVars
    PROVE  WorkTypes'
<1>0. WorkTypes /\ MailConstants
  BY TypesParts, MailConstants
<1> USE <1>0 DEF WorkTypes, OpTypes, MailKinds
<1>1. CASE UNCHANGED <<launched, op, sock, result, served, changes>>
  BY <1>1
<1>2. ASSUME NEW kind \in MailKinds, NEW uid \in {0} \cup Uids, Launch(kind, uid),
             kind = "message" => uid \in Uids /\ validity \in Validities,
             UNCHANGED <<sock, result, served, changes>>
      PROVE  WorkTypes'
  <2>1. launched + 1 \in Ops /\ op[launched + 1].at = "unused" /\ op' \in [Ops -> OpType]
        /\ \A o \in Ops : o # launched + 1 => op'[o] = op[o]
    BY <1>2, LaunchOp
  <2>2. op'[launched + 1] = [kind |-> kind, at |-> "started", generation |-> generation + 1,
                             account |-> account, validity |-> validity, uid |-> uid]
    BY <1>2, LaunchOp
  <2>3. launched' = launched + 1 /\ launched' \in 0..MaxOps
    BY <1>2, <2>1 DEF Launch, Ops, MailConstants
  <2>4. account \in Accounts
    BY DEF Types, MailTypeOK
  <2>5. \A o \in Ops : o > launched' => op'[o].at = "unused"
    BY <2>1, <2>3 DEF Ops
  <2>6. sock[launched + 1] = "none"
    BY <2>1
  <2>7. op'[launched + 1].account \in Accounts /\ op'[launched + 1].at = "started"
        /\ (op'[launched + 1].kind = "message" =>
                op'[launched + 1].validity \in Validities /\ op'[launched + 1].uid \in Uids)
    BY <1>2, <2>2, <2>4
  <2>8. \A o \in Ops : op'[o].at # "unused" => op'[o].account \in Accounts
    BY <2>1, <2>7
  <2>9. \A o \in Ops : op'[o].at # "unused" /\ op'[o].kind = "message" =>
                            op'[o].validity \in Validities /\ op'[o].uid \in Uids
    BY <2>1, <2>7
  <2>10. \A o \in Ops : op'[o].at \in {"unused", "started", "connecting"} => sock'[o] = "none"
    BY <1>2, <2>1, <2>6
  <2> QED BY <1>2, <2>1, <2>3, <2>5, <2>8, <2>9, <2>10
<1>3. CASE Refresh \/ Send
  BY <1>2, <1>3 DEF Refresh, Send, serverVars
<1>4. CASE Close
  BY <1>1, <1>4 DEF Close, serverVars
<1>5. ASSUME NEW u \in Uids, Select(u) PROVE WorkTypes'
  <2>1. validity \in Validities
    BY <1>5 DEF Select, Types, MailTypeOK
  <2> QED BY <1>1, <1>2, <1>5, <2>1 DEF Select, serverVars
<1>6. ASSUME NEW a \in Accounts, AccountChanges(a) PROVE WorkTypes'
  <2>1. changes' = changes + 1 /\ changes < MaxChanges
    BY <1>6 DEF AccountChanges
  <2>2. \A b \in Accounts : served[b] \in Nat
    BY <1>1 DEF Validities
  <2>3. changes' \in 0..MaxChanges
    BY <1>1, <2>1, MailConstants
  <2>4. UNCHANGED <<launched, op, sock, result, served>>
    BY <1>6 DEF AccountChanges, serverVars
  <2> QED BY <1>1, <2>1, <2>2, <2>3, <2>4
<1>7. ASSUME NEW o \in Ops, WorkerOp(o),
             op'[o].kind = "message" => op'[o].validity = op[o].validity,
             UNCHANGED <<launched, served, changes>>,
             result' \in [Ops -> {"none", "ok", "failed", "uncertain"}],
             sock' \in [Ops -> {"none", "open", "shut"}],
             \A p \in Ops : p # o => sock'[p] = sock[p],
             op'[o].at \in {"unused", "started", "connecting"} => sock'[o] = "none"
      PROVE  WorkTypes'
  <2>1. \A p \in Ops : op'[p].at # "unused" => op[p].at # "unused"
    BY <1>7 DEF WorkerOp
  <2>2. \A p \in Ops : op'[p].kind = op[p].kind /\ op'[p].account = op[p].account /\ op'[p].uid = op[p].uid
    BY <1>7 DEF WorkerOp
  <2>3. \A p \in Ops : op'[p].kind = "message" => op'[p].validity = op[p].validity
    BY <1>7 DEF WorkerOp
  <2>4. \A p \in Ops : p > launched' => op'[p].at = "unused"
    BY <1>7 DEF WorkerOp
  <2>5. \A p \in Ops : op'[p].at \in {"unused", "started", "connecting"} => sock'[p] = "none"
    BY <1>7 DEF WorkerOp
  <2> QED BY <1>7, <2>1, <2>2, <2>3, <2>4, <2>5 DEF WorkerOp
<1>8. ASSUME NEW o \in Ops, Worker(o) PROVE WorkTypes'
  <2>1. WorkerFrame(o)
    BY <1>8, WorkerStep
  <2>2. WorkerOp(o) /\ UNCHANGED <<launched, served, changes>>
        /\ (op'[o].kind = "message" => op'[o].validity = op[o].validity)
    BY <2>1 DEF WorkerFrame, WorkerOp
  <2>3. ASSUME NEW from, NEW to \in WorkerSteps, to # "unused", GoesTo(o, from, to), from # "unused"
        PROVE  op[o].at = from /\ op'[o].at = to /\ result' = result
    BY <2>3, StepOp DEF GoesTo
  <2>4. CASE Begin(o)
    BY <1>7, <2>2, <2>3, <2>4 DEF Begin, WorkerSteps
  <2>5. CASE Connect(o)
    BY <1>7, <2>2, <2>3, <2>5 DEF Connect, WorkerSteps
  <2>6. CASE Attach(o)
    BY <1>7, <2>2, <2>3, <2>6 DEF Attach, WorkerSteps
  <2>7. CASE Attached(o)
    BY <1>7, <2>2, <2>3, <2>7 DEF Attached, WorkerSteps
  <2>8. CASE Login(o)
    <3>1. op'[o].at \in {"marking", "selecting"} /\ UNCHANGED <<sock, result>>
      BY <2>3, <2>8 DEF Login, WorkerSteps
    <3> QED BY <1>7, <2>2, <3>1
  <2>9. CASE SelectInbox(o)
    <3>1. op'[o].at = "fetching" /\ UNCHANGED <<sock, result>>
      BY <2>9, SelectOp DEF SelectInbox
    <3> QED BY <1>7, <2>2, <3>1
  <2>10. ASSUME NEW told \in {"ok", "failed", "uncertain"}, Ends(o, told) PROVE WorkTypes'
    <3>1. op' = [op EXCEPT ![o].at = "posted"] /\ op[o].at # "unused"
      BY <2>2, <2>10 DEF Ends, WorkerOp
    <3>2. op'[o].at = "posted"
      BY <3>1, StepOp DEF WorkerSteps
    <3>3. result' \in [Ops -> {"none", "ok", "failed", "uncertain"}]
      BY <2>10 DEF Ends
    <3>4. sock' \in [Ops -> {"none", "open", "shut"}] /\ \A p \in Ops : p # o => sock'[p] = sock[p]
      BY <2>10 DEF Ends
    <3> QED BY <1>7, <2>2, <3>2, <3>3, <3>4
  <2>11. CASE Fetch(o)
    BY <2>10, <2>11 DEF Fetch
  <2>12. CASE Mark(o)
    BY <1>7, <2>2, <2>3, <2>12 DEF Mark, WorkerSteps
  <2>13. CASE Submit(o)
    BY <1>7, <2>2, <2>3, <2>13 DEF Submit, WorkerSteps
  <2>14. CASE Sent(o)
    BY <2>10, <2>14 DEF Sent
  <2>15. CASE Fails(o)
    BY <2>10, <2>15 DEF Fails, Verdict
  <2> QED BY <1>8, <2>4, <2>5, <2>6, <2>7, <2>8, <2>9, <2>11, <2>12, <2>13, <2>14, <2>15 DEF Worker
<1>9. ASSUME NEW o \in Ops, Deliver(o) PROVE WorkTypes'
  <2>1. op[o].at = "posted" /\ op' = [op EXCEPT ![o].at = "done"]
        /\ UNCHANGED <<launched, sock, result, served, changes>>
    BY <1>9 DEF Deliver, serverVars
  <2>2. WorkerOp(o) /\ op'[o].at = "done" /\ op'[o].validity = op[o].validity
    BY <2>1, StepOp DEF WorkerSteps
  <2> QED BY <1>7, <2>1, <2>2
<1>10. ASSUME NEW o \in Ops, TimerFires(o) \/ ServerTakes(o) PROVE WorkTypes'
  BY <1>1, <1>10 DEF TimerFires, ServerTakes, serverVars
<1>11. ASSUME NEW c \in Cancellers, NEW o \in Ops, CancelCloses(c, o) PROVE WorkTypes'
  <2>1. SocketAfter(o) \in {"none", "open", "shut"} /\ (sock[o] = "none" => SocketAfter(o) = "none")
    BY DEF SocketAfter
  <2>2. sock' = [sock EXCEPT ![o] = SocketAfter(o)] /\ UNCHANGED <<launched, op, result, served, changes>>
    BY <1>11 DEF CancelCloses, serverVars
  <2> QED BY <2>1, <2>2
<1>12. ASSUME NEW a \in Accounts, Renumbered(a) PROVE WorkTypes'
  <2>1. changes < MaxChanges /\ changes' = changes + 1 /\ served' = [served EXCEPT ![a] = @ + 1]
        /\ UNCHANGED <<launched, op, sock, result>>
    BY <1>12 DEF Renumbered
  <2>2. served[a] + 1 \in Validities /\ changes' \in 0..MaxChanges
    BY <2>1 DEF Validities, MailConstants
  <2>3. \A b \in Accounts : served'[b] <= changes' + 1
    BY <2>1 DEF Validities, MailConstants
  <2> QED BY <2>1, <2>2, <2>3
<1>13. CASE UNCHANGED mailVars
  BY <1>1, <1>13 DEF mailVars, serverVars
<1> QED BY <1>3, <1>4, <1>5, <1>6, <1>8, <1>9, <1>10, <1>11, <1>12, <1>13 DEF MailNext

-----------------------------------------------------------------------------
(* The theorems.                                                           *)

IInv == Types /\ SendInv /\ CancelInv /\ WindowInv /\ ReadInv

LEMMA InitInv == MailInit => IInv
<1> SUFFICES ASSUME MailInit PROVE IInv
  OBVIOUS
<1> USE DEF MailInit
<1>1. Unused \in OpType
  BY DEF Unused, OpType, MailKinds, WorkerSteps
<1>2. \A o \in Ops : op[o] = Unused /\ op[o].at = "unused" /\ sock[o] = "none" /\ result[o] = "none"
  BY DEF Unused
<1>3. Types
  <2>1. WindowTypes /\ SetTypes
    BY MailConstants DEF WindowTypes, SetTypes, MailConstants
  <2>2. WorkTypes
    BY <1>1, <1>2, MailConstants DEF WorkTypes, OpTypes, MailConstants, Validities
  <2> QED BY <2>1, <2>2, TypesParts
<1>4. SendInv /\ CancelInv
  BY <1>2 DEF SendInv, CancelInv, CancelledSendsNothing, Online
<1>5. WindowInv /\ ReadInv
  BY <1>2 DEF WindowInv, OneOperation, GenerationInv, Running, ReadInv, ReaderShowsSelected, Ops
<1> QED BY <1>3, <1>4, <1>5 DEF IInv

LEMMA StepInv == IInv /\ [MailNext]_mailVars => IInv'
<1> SUFFICES ASSUME IInv, [MailNext]_mailVars PROVE IInv'
  OBVIOUS
<1>1. Types'
  BY WindowTypesStep, WorkTypesStep, SetTypesStep DEF IInv, Types, MailTypeOK, WindowTypes,
     WorkTypes, SetTypes, OpType
<1> QED BY <1>1, SendStep, CancelStep, WindowStep, ReadStep DEF IInv

LEMMA Invariance == MailSpec => []IInv
BY InitInv, StepInv, PTL DEF MailSpec

\* Type correctness; no cancel touches the socket of an operation that has none.
THEOREM TypeCorrect == MailSpec => []MailTypeOK
BY Invariance, PTL DEF IInv, Types

\* Whoever is told that sending failed may send again without sending twice.
THEOREM FailureIsCertain == MailSpec => []FailedMeansNotSent
<1>1. IInv => FailedMeansNotSent
  BY DEF IInv, SendInv, FailedMeansNotSent
<1> QED BY <1>1, Invariance, PTL

\* A send cancelled before its submission began submits nothing.
THEOREM CancelIsFinal == MailSpec => []CancelledSendsNothing
BY Invariance, PTL DEF IInv, CancelInv

\* The buttons follow the one current operation; all others are cancelled.
THEOREM OneAtATime == MailSpec => []OneOperation
BY Invariance, PTL DEF IInv, WindowInv

\* No superseded or renumbered reading ever paints the reader.
THEOREM ReaderIsCurrent == MailSpec => []ReaderShowsSelected
BY Invariance, PTL DEF IInv, ReadInv
=============================================================================
