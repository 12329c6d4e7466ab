------------------------------- MODULE Calendar -------------------------------
(***************************************************************************)
(* Calendar (darkos-calendar.py): the events of each day, in one file that *)
(* every change reads anew, replaces as a whole, and only then takes over  *)
(* into memory and onto the screen.  The file may be unreadable for a      *)
(* while, or not be written; the window may be closed at any time.         *)
(***************************************************************************)
EXTENDS Naturals, SequencesExt

CONSTANTS
    Days, Events,
    MaxAdded,      \* bound: events of a day
    MaxOutages     \* bound: times the file cannot be read, or is not written

ASSUME CalendarConstants == MaxAdded \in Nat /\ MaxOutages \in Nat /\ Days # {}

VARIABLES
    eventsFile,    \* calendar-events.json: the events of each day
    readable,      \* whether it can be read now, "yes" or "no"
    calendarOpen,  \* "yes" or "no"
    events,        \* self.events
    selectedDay,
    eventRows,     \* the event of each row, whose number and day its button keeps
    rowsOf,        \* that day
    dialogOpen,    \* "none", "add" or "error"
    meantEvents,   \* history: how often each event is to be on each day, but for what failed
    outages

calendarVars == <<eventsFile, readable, calendarOpen, events, selectedDay, eventRows, rowsOf,
                  dialogOpen, meantEvents, outages>>

NoEvents == [d \in Days |-> <<>>]
EventLists == [Days -> SeqOf(Events, MaxAdded)]

CalendarTypeOK ==
    /\ eventsFile \in EventLists /\ events \in EventLists
    /\ meantEvents \in [Days -> [Events -> Nat]]
    /\ readable \in {"yes", "no"} /\ calendarOpen \in {"yes", "no"} /\ selectedDay \in Days
    /\ eventRows \in SeqOf(Events, MaxAdded) /\ rowsOf \in Days
    /\ dialogOpen \in {"none", "add", "error"} /\ outages \in 0..MaxOutages

CalendarInit ==
    /\ eventsFile = NoEvents /\ readable = "yes" /\ calendarOpen = "no" /\ events = NoEvents
    /\ selectedDay = (CHOOSE d \in Days : TRUE)
    /\ eventRows = <<>> /\ rowsOf = selectedDay
    /\ dialogOpen = "none" /\ meantEvents = [d \in Days |-> [e \in Events |-> 0]] /\ outages = 0

-----------------------------------------------------------------------------
AtCalendar == calendarOpen = "yes" /\ dialogOpen = "none"

\* _refresh_day.
ShowsDay(held, d) == eventRows' = held[d] /\ rowsOf' = d

\* A file that cannot be read leaves an empty calendar, and a message.
CalendarOpens ==
    /\ calendarOpen = "no" /\ calendarOpen' = "yes" /\ selectedDay' \in Days
    /\ events' = IF readable = "yes" THEN eventsFile ELSE NoEvents
    /\ dialogOpen' = IF readable = "yes" THEN "none" ELSE "error"
    /\ ShowsDay(events', selectedDay')
    /\ UNCHANGED <<eventsFile, readable, meantEvents, outages>>

SelectsDay(d) ==
    /\ AtCalendar /\ selectedDay' = d /\ ShowsDay(events, d)
    /\ UNCHANGED <<eventsFile, readable, calendarOpen, events, dialogOpen, meantEvents, outages>>

AddsEvent ==
    /\ AtCalendar /\ dialogOpen' = "add"
    /\ UNCHANGED <<eventsFile, readable, calendarOpen, events, selectedDay, eventRows, rowsOf,
                   meantEvents, outages>>

\* Seeded bug: a change is made to what is in memory.
InMemory == events

\* load_events, where a change begins.
Loaded == eventsFile

\* _commit_events: save_events stages, syncs and replaces, or fails before that.
CommitEvents(updated, wished) ==
    \/ /\ eventsFile' = updated /\ events' = updated /\ ShowsDay(updated, selectedDay)
       /\ meantEvents' = wished /\ dialogOpen' = "none" /\ UNCHANGED outages
    \/ /\ outages < MaxOutages /\ outages' = outages + 1 /\ dialogOpen' = "error"
       /\ UNCHANGED <<eventsFile, events, eventRows, rowsOf, meantEvents>>

CannotLoad ==
    /\ readable = "no" /\ dialogOpen' = "error"
    /\ UNCHANGED <<eventsFile, events, eventRows, rowsOf, meantEvents, outages>>

\* The rest of _add_event: cancelled, nothing typed, or an event for the day.
AddConfirmed ==
    /\ dialogOpen = "add"
    /\ \/ /\ dialogOpen' = "none"
          /\ UNCHANGED <<eventsFile, events, eventRows, rowsOf, meantEvents, outages>>
       \/ CannotLoad
       \/ /\ readable = "yes" /\ Len(eventsFile[selectedDay]) < MaxAdded
          /\ \E e \in Events :
                 CommitEvents([Loaded EXCEPT ![selectedDay] = Append(@, e)],
                              [meantEvents EXCEPT ![selectedDay][e] = @ + 1])
    /\ UNCHANGED <<readable, calendarOpen, selectedDay>>

\* The button of a row, with the day and the number it was made with.
RemovesEvent(n) ==
    /\ AtCalendar /\ n \in DOMAIN eventRows
    /\ \/ CannotLoad
       \/ /\ readable = "yes" /\ n \in DOMAIN Loaded[rowsOf]
          /\ CommitEvents([Loaded EXCEPT ![rowsOf] = RemoveAt(@, n)],
                          [meantEvents EXCEPT ![rowsOf][eventRows[n]] = @ - 1])
       \/ /\ readable = "yes" /\ n \notin DOMAIN Loaded[rowsOf]
          /\ UNCHANGED <<eventsFile, events, eventRows, rowsOf, dialogOpen, meantEvents, outages>>
    /\ UNCHANGED <<readable, calendarOpen, selectedDay>>

ErrorRead ==
    /\ dialogOpen = "error" /\ dialogOpen' = "none"
    /\ UNCHANGED <<eventsFile, readable, calendarOpen, events, selectedDay, eventRows, rowsOf,
                   meantEvents, outages>>

CalendarCloses ==
    /\ AtCalendar /\ calendarOpen' = "no"
    /\ UNCHANGED <<eventsFile, readable, events, selectedDay, eventRows, rowsOf, dialogOpen,
                   meantEvents, outages>>

ReadableChanges ==
    /\ \/ readable = "yes" /\ readable' = "no" /\ outages < MaxOutages /\ outages' = outages + 1
       \/ readable = "no" /\ readable' = "yes" /\ UNCHANGED outages
    /\ UNCHANGED <<eventsFile, calendarOpen, events, selectedDay, eventRows, rowsOf, dialogOpen,
                   meantEvents>>

CalendarNext ==
    \/ CalendarOpens \/ AddsEvent \/ AddConfirmed \/ ErrorRead \/ CalendarCloses \/ ReadableChanges
    \/ \E d \in Days : SelectsDay(d)
    \/ \E n \in 1..MaxAdded : RemovesEvent(n)

CalendarSpec == CalendarInit /\ [][CalendarNext]_calendarVars

-----------------------------------------------------------------------------
Occurrences(list, e) == Cardinality({n \in DOMAIN list : list[n] = e})

\* Whatever could not be read or written meanwhile, and when the calendar was
\* opened over a file it could not read, the file has what the user made of each
\* day; and a row that is shown is the event its button removes.
EventsAreKept ==
    /\ \A d \in Days, e \in Events : Occurrences(eventsFile[d], e) = meantEvents[d][e]
    /\ calendarOpen = "yes" => \A n \in DOMAIN eventRows : eventsFile[rowsOf][n] = eventRows[n]
=============================================================================
