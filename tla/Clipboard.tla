------------------------------ MODULE Clipboard ------------------------------
(***************************************************************************)
(* The clipboard manager (darkos-clipboard.py): it asks for the text       *)
(* whenever the clipboard changes owner and is answered later, keeps the   *)
(* newest texts, and keeps pinned ones in a file.                          *)
(***************************************************************************)
EXTENDS Naturals, Sequences, SequencesExt

CONSTANTS
    Clips,        \* texts that may be copied
    Blank,        \* what is no text, or white space
    MaxHistory,   \* MAX_HISTORY
    MaxCopies     \* bound

ASSUME ClipboardConstants == MaxHistory \in Nat \ {0} /\ MaxCopies \in Nat

VARIABLES
    clip,         \* what the clipboard's owner would answer
    asked,        \* requests without an answer
    lastText, clipHistory, pinned,
    pinFile,      \* clipboard-pinned.json
    copies,
    dropped,      \* history: texts the user has removed since they were last copied
                  \* or listed
    overlooked    \* history: the last answer was the text before it, which is not
                  \* in the history any more

clipboardVars == <<clip, asked, lastText, clipHistory, pinned, pinFile, copies, dropped, overlooked>>

ClipboardTypeOK ==
    /\ clip \in Clips \cup {Blank} /\ asked \in 0..MaxCopies /\ lastText \in Clips \cup {Blank}
    /\ IsInjective(clipHistory) /\ Len(clipHistory) <= MaxHistory
    /\ ToSet(clipHistory) \cup ToSet(pinned) \cup ToSet(pinFile) \subseteq Clips
    /\ IsInjective(pinned) /\ copies \in 0..MaxCopies /\ dropped \subseteq Clips
    /\ overlooked \in BOOLEAN

\* What was pinned before is read from the file.
ClipboardInit ==
    /\ clip = Blank /\ asked = 0 /\ lastText = Blank /\ clipHistory = <<>>
    /\ pinFile \in {<<>>} \cup {<<c>> : c \in Clips} /\ pinned = pinFile
    /\ copies = 0 /\ dropped = {} /\ overlooked = FALSE

\* A program, or _copy, becomes the owner: _on_owner_change asks.
Copy(c) ==
    /\ copies < MaxCopies /\ copies' = copies + 1
    /\ clip' = c /\ asked' = asked + 1 /\ dropped' = dropped \ {c}
    /\ UNCHANGED <<lastText, clipHistory, pinned, pinFile, overlooked>>

\* Seeded bug: a text that is in the history already stays where it is.
KeptInPlace(c) == IF Contains(clipHistory, c) THEN clipHistory ELSE <<c>> \o clipHistory

\* [h for h in history if h != text], where a text is at most once.
ToTheFront(c) == <<c>> \o RemoveFirst(clipHistory, c)

Newest(s) == SubSeq(s, 1, IF Len(s) < MaxHistory THEN Len(s) ELSE MaxHistory)

\* The text that came last changes nothing, wherever it is by now.
SameAgain(c) ==
    /\ c = lastText /\ overlooked' = (c \notin ToSet(clipHistory))
    /\ UNCHANGED <<lastText, clipHistory, dropped>>

Lists(c) ==
    /\ c # lastText /\ lastText' = c /\ clipHistory' = Newest(ToTheFront(c))
    /\ dropped' = dropped \ {c} /\ overlooked' = FALSE

\* _on_text_received.  An owner that is gone answers nothing.
Received ==
    /\ asked > 0 /\ asked' = asked - 1
    /\ \E c \in {clip} \cup (IF asked > 1 THEN {Blank} ELSE {}) :
           IF c = Blank THEN UNCHANGED <<lastText, clipHistory, dropped, overlooked>>
           ELSE SameAgain(c) \/ Lists(c)
    /\ UNCHANGED <<clip, pinned, pinFile, copies>>

Rows == ToSet(pinned) \cup ToSet(clipHistory)

\* _toggle_pin: the button's row may be of either section.
TogglePin(c) ==
    /\ c \in Rows
    /\ pinned' = IF Contains(pinned, c) THEN RemoveFirst(pinned, c) ELSE <<c>> \o pinned
    /\ pinFile' \in {pinned', pinFile}
    /\ UNCHANGED <<clip, asked, lastText, clipHistory, copies, dropped, overlooked>>

\* _remove: of the section its row is in.
RemoveClip(c) ==
    /\ c \in Rows
    /\ IF Contains(pinned, c)
       THEN /\ pinned' = RemoveFirst(pinned, c) /\ pinFile' \in {pinned', pinFile}
            /\ UNCHANGED <<clipHistory, dropped>>
       ELSE /\ clipHistory' = RemoveFirst(clipHistory, c) /\ dropped' = dropped \cup {c}
            /\ UNCHANGED <<pinned, pinFile>>
    /\ UNCHANGED <<clip, asked, lastText, copies, overlooked>>

ClearHistory ==
    /\ clipHistory # <<>> /\ clipHistory' = <<>>
    /\ dropped' = dropped \cup ToSet(clipHistory)
    /\ UNCHANGED <<clip, asked, lastText, pinned, pinFile, copies, overlooked>>

ClipboardNext ==
    \/ Received \/ ClearHistory
    \/ \E c \in Clips : TogglePin(c) \/ RemoveClip(c)
    \/ \E c \in Clips \cup {Blank} : Copy(c)

ClipboardSpec == ClipboardInit /\ [][ClipboardNext]_clipboardVars

-----------------------------------------------------------------------------
\* When every question is answered the newest text of the clipboard is on top,
\* however many copies overtook an answer and whatever was full, unless the
\* user has removed it since it was copied.  Excepted is the text that came last
\* and was removed and then copied again: the code takes it for the same copy,
\* and until another text comes it is not listed.
NewestOnTop ==
    asked = 0 /\ clip \notin dropped \cup {Blank} =>
        /\ lastText = clip
        /\ overlooked \/ (clipHistory # <<>> /\ clipHistory[1] = clip)
=============================================================================
