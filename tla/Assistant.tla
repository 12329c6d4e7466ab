--------------------------------- MODULE Assistant ---------------------------------
(***************************************************************************)
(* The assistant: the brain (ai_brain.py), which threads share and which   *)
(* answers from one of several providers; the actions a reply asks for     *)
(* (actions.py), each after a snapshot; and the recordings of the trigger  *)
(* (assistant_trigger.py).                                                 *)
(***************************************************************************)
EXTENDS Naturals, FiniteSets

CONSTANTS
    Threads,         \* of the typed chat and of the voice
    NoThread,
    ActionLimit,     \* actions of one reply
    MaxRequests,     \* bound
    MaxRecordings    \* bound

ASSUME AssistantConstants ==
    ActionLimit \in Nat /\ MaxRequests \in Nat /\ MaxRecordings \in Nat /\ NoThread \notin Threads

VARIABLES
    btrfs,           \* _snapshot_enabled
    lock,            \* _operation_lock: its holder
    lastResult,      \* _last_result: whose request it answers, and how many actions it asks for
    threadAt,        \* what each thread does
    operation,       \* for what: "chat", "voice" to be transcribed, or text to "speak"
    request,         \* its request, 0 for none
    reply,           \* its reply, like lastResult
    counted,         \* actions of the reply that were looked at
    explaining,      \* pending_explain
    protected,       \* whether a snapshot was made for the action at hand
    requests,
    acts             \* history: the actions done: [asker, from, safe, explained]

brainVars == <<btrfs, lock, lastResult, threadAt, operation, request, reply, counted, explaining, protected, requests, acts>>

VARIABLES
    keyHeld,          \* _active
    recorders,        \* recorder processes that run
    currentRecorder,  \* _recording_process
    wake,             \* the thread of the wake word: "listens", "records" or "stops"
    recordings,
    recordedTwice     \* history: both ways to record were used at a time

triggerVars == <<keyHeld, recorders, currentRecorder, wake, recordings, recordedTwice>>
assistantVars == <<brainVars, triggerVars>>

Replies == [for : 0..MaxRequests, actions : 0..ActionLimit + 1]
NoReply == [for |-> 0, actions |-> 0]
ThreadSteps == {"idle", "waits", "tries", "takes", "dispatches", "snapshots", "acts"}

AssistantTypeOK ==
    /\ btrfs \in BOOLEAN /\ lock \in Threads \cup {NoThread} /\ lastResult \in Replies
    /\ threadAt \in [Threads -> ThreadSteps] /\ operation \in [Threads -> {"chat", "voice", "speak"}]
    /\ request \in [Threads -> 0..MaxRequests]
    /\ reply \in [Threads -> Replies] /\ counted \in [Threads -> 0..ActionLimit + 1]
    /\ explaining \in [Threads -> {"no", "pending", "answered"}] /\ protected \in [Threads -> BOOLEAN]
    /\ requests \in 0..MaxRequests
    /\ acts \subseteq [asker : 1..MaxRequests, from : 0..MaxRequests, safe : BOOLEAN,
                 explained : BOOLEAN]
    /\ keyHeld \in BOOLEAN /\ recorders \subseteq 1..MaxRecordings
    /\ currentRecorder \in 0..MaxRecordings /\ wake \in {"listens", "records", "stops"}
    /\ recordings \in 0..MaxRecordings /\ recordedTwice \in BOOLEAN

AssistantInit ==
    /\ btrfs \in BOOLEAN /\ lock = NoThread /\ lastResult = NoReply /\ requests = 0 /\ acts = {}
    /\ threadAt = [t \in Threads |-> "idle"] /\ operation = [t \in Threads |-> "chat"] /\ request = [t \in Threads |-> 0]
    /\ reply = [t \in Threads |-> NoReply] /\ counted = [t \in Threads |-> 0]
    /\ explaining = [t \in Threads |-> "no"] /\ protected = [t \in Threads |-> FALSE]
    /\ keyHeld = FALSE /\ recorders = {} /\ currentRecorder = 0 /\ wake = "listens" /\ recordings = 0
    /\ recordedTwice = FALSE

GoesTo(t, step) == threadAt' = [threadAt EXCEPT ![t] = step]

-----------------------------------------------------------------------------
(* The brain.                                                              *)

Calls(t, what) ==
    /\ threadAt[t] = "idle" /\ requests < MaxRequests /\ requests' = requests + 1
    /\ request' = [request EXCEPT ![t] = requests'] /\ GoesTo(t, "waits")
    /\ operation' = [operation EXCEPT ![t] = what]
    /\ UNCHANGED <<btrfs, lock, lastResult, reply, counted, explaining, protected, acts>>

ProcessChat(t) == Calls(t, "chat")
ProcessVoice(t) == Calls(t, "voice")
Speak(t) == Calls(t, "speak")

\* Seeded bug: operations are not serialized.
Anytime(t) == TRUE

Serialized(t) == lock = NoThread

Locks(t) ==
    /\ threadAt[t] = "waits" /\ Serialized(t) /\ lock' = t /\ GoesTo(t, "tries")
    /\ UNCHANGED <<btrfs, lastResult, operation, request, reply, counted, explaining, protected, requests, acts>>

\* chat: the first provider that answers leaves its text in _last_result; a
\* request none of them answers gets a stub.  Arguments of a tool call that are
\* not complete are left out of the text.
TriesProviders(t) ==
    /\ threadAt[t] = "tries" /\ operation[t] = "chat"
    /\ \/ /\ \E n \in 0..ActionLimit + 1 : lastResult' = [for |-> request[t], actions |-> n]
          /\ GoesTo(t, "takes") /\ UNCHANGED reply
       \/ /\ reply' = [reply EXCEPT ![t] = [for |-> request[t], actions |-> 0]]
          /\ GoesTo(t, "dispatches") /\ UNCHANGED lastResult
    /\ UNCHANGED <<btrfs, lock, operation, request, counted, explaining, protected, requests, acts>>

\* A recording whose words a recognizer finds is returned like a reply.  A
\* recognizer that finds none leaves no words behind, one that fails what there
\* was; when none is left the answer is empty.
Transcribes(t) ==
    /\ threadAt[t] = "tries" /\ operation[t] = "voice"
    /\ LET words == [for |-> request[t], actions |-> 0] IN
       \/ lastResult' = words /\ GoesTo(t, "takes") /\ UNCHANGED reply
       \/ /\ lastResult' \in {lastResult, words}
          /\ reply' = [reply EXCEPT ![t] = words] /\ GoesTo(t, "dispatches")
    /\ UNCHANGED <<btrfs, lock, operation, request, counted, explaining, protected, requests, acts>>

\* One of four voices speaks, or none: _last_result stays.
Speaks(t) ==
    /\ threadAt[t] = "tries" /\ operation[t] = "speak"
    /\ reply' = [reply EXCEPT ![t] = [for |-> request[t], actions |-> 0]] /\ GoesTo(t, "dispatches")
    /\ UNCHANGED <<btrfs, lock, lastResult, operation, request, counted, explaining, protected, requests, acts>>

TakesResult(t) ==
    /\ threadAt[t] = "takes" /\ reply' = [reply EXCEPT ![t] = lastResult] /\ GoesTo(t, "dispatches")
    /\ UNCHANGED <<btrfs, lock, lastResult, operation, request, counted, explaining, protected, requests, acts>>

\* Seeded bug: the actions of the explanation are done too.
EveryReply(t) == reply[t].actions

\* The reply to what explain() found is only shown.
ToDispatch(t) == IF explaining[t] = "answered" THEN 0 ELSE reply[t].actions

Dispatched(t) ==
    threadAt[t] = "dispatches" /\ (counted[t] >= ToDispatch(t) \/ counted[t] = ActionLimit)

\* _dispatch_actions, one line: malformed, unsupported or refused by its own
\* checks; read-only; an explanation; or an action that changes something.
DispatchesAction(t) ==
    /\ threadAt[t] = "dispatches" /\ ~Dispatched(t)
    /\ counted' = [counted EXCEPT ![t] = @ + 1]
    /\ \/ GoesTo(t, "dispatches") /\ UNCHANGED explaining
       \/ GoesTo(t, "dispatches") /\ explaining' = [explaining EXCEPT ![t] = "pending"]
       \/ GoesTo(t, "snapshots") /\ UNCHANGED explaining
    /\ protected' = [protected EXCEPT ![t] = FALSE]
    /\ UNCHANGED <<btrfs, lock, lastResult, operation, request, reply, requests, acts>>

\* Seeded bug: a snapshot that cannot be made is left out.
OrWithout == {TRUE, FALSE}

WithSnapshot == {TRUE}

\* _snapshot: without Btrfs there is none; with it, its failure is the action's.
TakesSafetySnapshot(t) ==
    /\ threadAt[t] = "snapshots"
    /\ \/ ~btrfs /\ GoesTo(t, "acts") /\ UNCHANGED protected
       \/ btrfs /\ \E taken \in WithSnapshot : protected' = [protected EXCEPT ![t] = taken] /\ GoesTo(t, "acts")
       \/ btrfs /\ GoesTo(t, "dispatches") /\ UNCHANGED protected
    /\ UNCHANGED <<btrfs, lock, lastResult, operation, request, reply, counted, explaining, requests, acts>>

Acts(t) ==
    /\ threadAt[t] = "acts" /\ GoesTo(t, "dispatches")
    /\ acts' = acts \cup {[asker |-> request[t], from |-> reply[t].for, safe |-> protected[t],
                         explained |-> explaining[t] = "answered"]}
    /\ UNCHANGED <<btrfs, lock, lastResult, operation, request, reply, counted, explaining, protected, requests>>

\* The text that explain() found is given back to the brain once.
AsksAgain(t) ==
    /\ Dispatched(t) /\ explaining[t] = "pending"
    /\ explaining' = [explaining EXCEPT ![t] = "answered"] /\ GoesTo(t, "tries")
    /\ counted' = [counted EXCEPT ![t] = 0]
    /\ UNCHANGED <<btrfs, lock, lastResult, operation, request, reply, protected, requests, acts>>

Returns(t) ==
    /\ Dispatched(t) /\ explaining[t] # "pending"
    /\ GoesTo(t, "idle") /\ lock' = NoThread /\ request' = [request EXCEPT ![t] = 0]
    /\ reply' = [reply EXCEPT ![t] = NoReply] /\ counted' = [counted EXCEPT ![t] = 0]
    /\ explaining' = [explaining EXCEPT ![t] = "no"] /\ protected' = [protected EXCEPT ![t] = FALSE]
    /\ UNCHANGED <<btrfs, lastResult, operation, requests, acts>>

BrainNext ==
    \E t \in Threads :
        \/ ProcessChat(t) \/ ProcessVoice(t) \/ Speak(t) \/ Locks(t)
        \/ TriesProviders(t) \/ Transcribes(t) \/ Speaks(t) \/ TakesResult(t) \/ DispatchesAction(t)
        \/ TakesSafetySnapshot(t) \/ Acts(t) \/ AsksAgain(t) \/ Returns(t)

-----------------------------------------------------------------------------
(* The trigger.                                                            *)

\* _start_recording: nothing looks at a recording under way.
StartRecording ==
    /\ recordings < MaxRecordings /\ recordings' = recordings + 1
    /\ recorders' = recorders \cup {recordings'} /\ currentRecorder' = recordings'

\* Seeded bug: a key that repeats starts again.
Repeats == TRUE

NotPressed == ~keyHeld

\* on_push_to_talk_start; a recorder may be missing.
KeyPressed ==
    /\ NotPressed
    /\ \/ /\ StartRecording /\ keyHeld' = TRUE /\ UNCHANGED wake
          /\ recordedTwice' = (recordedTwice \/ wake # "listens")
       \/ UNCHANGED triggerVars

\* _stop_recording: the current process is ended, and forgotten.
StopRecording == recorders' = recorders \ {currentRecorder} /\ currentRecorder' = 0

\* on_push_to_talk_stop, or stop().
KeyReleased ==
    /\ keyHeld /\ keyHeld' = FALSE /\ StopRecording /\ UNCHANGED <<wake, recordings, recordedTwice>>

\* _dispatch_wake: five seconds in its thread.
WakeWordHeard ==
    /\ wake = "listens" /\ StartRecording /\ wake' = "records"
    /\ recordedTwice' = (recordedTwice \/ keyHeld) /\ UNCHANGED keyHeld

WakeRecorded ==
    /\ wake = "records" /\ recorders' = recorders \ {currentRecorder} /\ wake' = "stops"
    /\ UNCHANGED <<keyHeld, currentRecorder, recordings, recordedTwice>>

\* The process has ended, and what is current now is forgotten.
WakeStopped ==
    /\ wake = "stops" /\ wake' = "listens" /\ currentRecorder' = 0
    /\ UNCHANGED <<keyHeld, recorders, recordings, recordedTwice>>

TriggerNext == KeyPressed \/ KeyReleased \/ WakeWordHeard \/ WakeRecorded \/ WakeStopped

AssistantNext ==
    \/ BrainNext /\ UNCHANGED triggerVars
    \/ TriggerNext /\ UNCHANGED brainVars

AssistantSpec == AssistantInit /\ [][AssistantNext]_assistantVars

-----------------------------------------------------------------------------
\* Whatever threads ask at a time, an action is one of the reply to the request
\* it is done for, not of the explanation that reply led to, and on Btrfs a
\* snapshot was made for it.
ActsAreAskedFor ==
    \A act \in acts : act.asker = act.from /\ ~act.explained /\ (btrfs => act.safe)

\* What a thread is answered is for its own request, whether it chats, speaks
\* or has its voice transcribed.
RepliesAreTheirs == \A t \in Threads : threadAt[t] = "dispatches" => reply[t].for = request[t]

\* No recorder runs that nobody will stop, unless the wake word was heard
\* during a push-to-talk or the key was pressed during its recording.
RecordersAreStopped == ~recordedTwice => recorders \subseteq {currentRecorder} /\ (currentRecorder # 0 => keyHeld \/ wake # "listens")
=============================================================================
