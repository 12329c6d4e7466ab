----------------------------- MODULE QuickSettings -----------------------------
(***************************************************************************)
(* The quick settings of the Command Center (darkos_shell/__init__.py and  *)
(* surfaces.py): the radios and airplane mode, Focus and Night Light, and  *)
(* the volume slider.  Commands are started and not waited for: two of     *)
(* them may end in either order, and nobody learns that one has failed.    *)
(***************************************************************************)
EXTENDS Naturals, Sequences

CONSTANTS
    MaxToggles,    \* bound: toggles the user presses
    MaxSlides      \* bound: movements of the slider, and openings of the panel

ASSUME QuickConstants == MaxToggles \in Nat /\ MaxSlides \in Nat

VARIABLES
    toggle,        \* toggle_state, and the buttons, which follow it
    keptValues,    \* airplane_radio_state, or <<>>
    radio,         \* the radios
    launched,      \* the commands that have not ended: sequence of [sets, to]
    sunset,        \* hyprsunset: "on", "off", or "gone" when it has not started or
                   \* has ended by itself
    quiet,         \* whether mako is in do-not-disturb
    presses,
    meantRadio,    \* history: what the user last asked of each radio
    astray,        \* history: radios whose newest command failed, or was overtaken by
                   \* an older one, or whose button never knew
    mislaid,       \* history: airplane mode did not learn how the mobile radio was
    slider, volume, pendingLevel, levelTimer, fetches, slides,
    mixers,        \* the levels of the runs of pamixer that have not ended
    chosen,        \* history: where the user last left the slider
    slipped        \* history: the newest pamixer failed or was overtaken by an older one

radioVars == <<keptValues, radio, launched, meantRadio, astray, mislaid>>
toggleVars == <<toggle, radioVars, sunset, quiet, presses>>
levelVars == <<slider, volume, pendingLevel, levelTimer, fetches, slides, mixers, chosen, slipped>>
quickVars == <<toggleVars, levelVars>>

Radios == {"wifi", "bluetooth", "wwan"}
Switch == {"on", "off"}
ToggleNames == {"wifi", "bluetooth", "airplane", "night_light", "focus"}
Levels == 0..MaxSlides

QuickTypeOK ==
    /\ toggle \in [ToggleNames -> Switch] /\ keptValues \in {<<>>} \cup [Radios -> Switch]
    /\ radio \in [Radios -> Switch] /\ launched \in Seq([sets : SUBSET Radios, to : Switch])
    /\ sunset \in Switch \cup {"gone"} /\ quiet \in Switch /\ presses \in 0..MaxToggles
    /\ meantRadio \in [Radios -> Switch] /\ astray \subseteq Radios /\ mislaid \in BOOLEAN
    /\ slider \in Levels /\ volume \in Levels /\ pendingLevel \in {<<>>} \cup {<<n>> : n \in Levels}
    /\ levelTimer \in Switch /\ fetches \in Seq(Levels) /\ slides \in 0..MaxSlides
    /\ mixers \in Seq(Levels) /\ chosen \in Levels /\ slipped \in BOOLEAN

\* query_wifi and query_bluetooth, which take a command that fails for "off";
\* the other toggles begin off.  That Bluetooth begins on is a bound.
QuickInit ==
    /\ radio \in {r \in [Radios -> Switch] : r["bluetooth"] = "on"} /\ keptValues = <<>>
    /\ astray \in SUBSET {r \in {"wifi", "bluetooth"} : radio[r] = "on"} /\ mislaid = FALSE
    /\ toggle = [n \in ToggleNames |-> IF n \in {"wifi", "bluetooth"} \ astray THEN radio[n] ELSE "off"]
    /\ meantRadio = [r \in Radios |-> IF r \in astray THEN "off" ELSE radio[r]]
    /\ launched = <<>> /\ sunset = "off" /\ quiet = "off" /\ presses = 0
    /\ slider = 0 /\ volume = 0 /\ pendingLevel = <<>> /\ levelTimer = "off"
    /\ fetches = <<>> /\ slides = 0 /\ mixers = <<>> /\ chosen = 0 /\ slipped = FALSE

-----------------------------------------------------------------------------
(* set_toggle.                                                             *)

Pending == UNION {launched[i].sets : i \in DOMAIN launched}

Pressed == presses < MaxToggles /\ presses' = presses + 1

Other(name) == IF toggle[name] = "on" THEN "off" ELSE "on"

\* A radio's own button, which is insensitive in airplane mode.
TogglesRadio(name) ==
    /\ Pressed /\ toggle["airplane"] = "off"
    /\ toggle' = [toggle EXCEPT ![name] = Other(name)]
    /\ launched' = Append(launched, [sets |-> {name}, to |-> Other(name)])
    /\ meantRadio' = [meantRadio EXCEPT ![name] = Other(name)] /\ astray' = astray \ {name}
    /\ UNCHANGED <<keptValues, radio, mislaid, sunset, quiet, levelVars>>

\* Seeded bug: the radios are remembered after they were switched off.
Cleared(answer) == [r \in Radios |-> IF r = "wwan" THEN answer ELSE "off"]

\* query_wwan asks NetworkManager, the others are what the buttons show.
Remembered(answer) == [r \in Radios |-> IF r = "wwan" THEN answer ELSE toggle[r]]

\* A query that fails or takes too long answers "off".
AirplaneOn ==
    /\ Pressed /\ toggle["airplane"] = "off"
    /\ \E answer \in {radio["wwan"], "off"} :
           /\ keptValues' = IF keptValues = <<>> THEN Remembered(answer) ELSE keptValues
           /\ mislaid' = (mislaid \/ answer # radio["wwan"] \/ "wwan" \in Pending \cup astray)
    /\ launched' = launched \o <<[sets |-> {"wifi", "wwan"}, to |-> "off"],
                                 [sets |-> {"bluetooth"}, to |-> "off"]>>
    /\ toggle' = [toggle EXCEPT !["airplane"] = "on", !["wifi"] = "off", !["bluetooth"] = "off"]
    /\ astray' = {} /\ UNCHANGED <<radio, sunset, quiet, meantRadio, levelVars>>

AirplaneOff ==
    /\ Pressed /\ toggle["airplane"] = "on"
    /\ LET back == IF keptValues = <<>> THEN [r \in Radios |-> "off"] ELSE keptValues IN
       /\ launched' = launched \o <<[sets |-> {"wifi"}, to |-> back["wifi"]],
                                    [sets |-> {"wwan"}, to |-> back["wwan"]],
                                    [sets |-> {"bluetooth"}, to |-> back["bluetooth"]]>>
       /\ toggle' = [toggle EXCEPT !["airplane"] = "off", !["wifi"] = back["wifi"],
                                   !["bluetooth"] = back["bluetooth"]]
    /\ keptValues' = <<>>
    /\ astray' = {} /\ UNCHANGED <<radio, mislaid, sunset, quiet, meantRadio, levelVars>>

AllBut(seq, i) == [j \in 1..(Len(seq) - 1) |-> seq[IF j < i THEN j ELSE j + 1]]

\* Among the commands before, or after, the i-th there is one for r.
Older(r, i) == \E j \in DOMAIN launched : j < i /\ r \in launched[j].sets
Newer(r, i) == \E j \in DOMAIN launched : j > i /\ r \in launched[j].sets

\* One of the commands ends, perhaps before an older one, and perhaps without
\* effect; one that could not be launched is one of these.
CommandEnds(i, works) ==
    /\ i \in DOMAIN launched
    /\ LET c == launched[i] IN
       /\ radio' = [r \in Radios |-> IF works /\ r \in c.sets THEN c.to ELSE radio[r]]
       /\ astray' = astray \cup {r \in c.sets : ~Newer(r, i) /\ (Older(r, i) \/ ~works)}
    /\ launched' = AllBut(launched, i)
    /\ UNCHANGED <<toggle, keptValues, mislaid, sunset, quiet, presses, meantRadio, levelVars>>

\* Seeded bug: what could not be switched on is shown as it was asked for.
ShownAsAsked(wantedState) == wantedState

AfterFailure(wantedState) == "off"

\* _apply_night_light: what runs is killed, and another one started, unless
\* hyprsunset is not installed.
TogglesNightLight ==
    /\ Pressed
    /\ \/ /\ sunset' \in IF Other("night_light") = "on" THEN {"on", "gone"} ELSE {"off"}
          /\ toggle' = [toggle EXCEPT !["night_light"] = Other("night_light")]
       \/ /\ toggle' = [toggle EXCEPT !["night_light"] = AfterFailure(Other("night_light"))]
          /\ UNCHANGED sunset
    /\ UNCHANGED <<radioVars, quiet, levelVars>>

\* Nobody waits for hyprsunset.
SunsetExits ==
    /\ sunset = "on" /\ sunset' = "gone" /\ UNCHANGED <<toggle, radioVars, quiet, presses, levelVars>>

\* _apply_focus: makoctl succeeds or fails.
TogglesFocus ==
    /\ Pressed
    /\ \/ /\ quiet' = Other("focus") /\ toggle' = [toggle EXCEPT !["focus"] = Other("focus")]
       \/ /\ toggle' = [toggle EXCEPT !["focus"] = AfterFailure(Other("focus"))]
          /\ UNCHANGED quiet
    /\ UNCHANGED <<radioVars, sunset, levelVars>>

-----------------------------------------------------------------------------
(* The volume.                                                             *)

Slides == slides < MaxSlides /\ slides' = slides + 1

\* on_level_changed: the timer is not started again.
LevelChanges ==
    /\ Slides /\ slider' = slides + 1 /\ pendingLevel' = <<slides + 1>> /\ levelTimer' = "on"
    /\ chosen' = slides + 1
    /\ UNCHANGED <<volume, fetches, mixers, slipped, toggleVars>>

\* _flush_levels: pamixer is started and not waited for.
FlushLevels ==
    /\ levelTimer = "on" /\ levelTimer' = "off"
    /\ mixers' = Append(mixers, pendingLevel[1]) /\ pendingLevel' = <<>> /\ slipped' = FALSE
    /\ UNCHANGED <<slider, volume, fetches, slides, chosen, toggleVars>>

MixerEnds(i, works) ==
    /\ i \in DOMAIN mixers
    /\ volume' = IF works THEN mixers[i] ELSE volume
    /\ slipped' = (slipped \/ (i = Len(mixers) /\ (i > 1 \/ ~works)))
    /\ mixers' = AllBut(mixers, i)
    /\ UNCHANGED <<slider, pendingLevel, levelTimer, fetches, slides, chosen, toggleVars>>

\* The panel is opened: refresh_levels, whose thread reads the volume.
PanelOpens ==
    /\ Slides /\ fetches' = Append(fetches, volume)
    /\ UNCHANGED <<slider, volume, pendingLevel, levelTimer, mixers, chosen, slipped, toggleVars>>

\* _apply_levels, which may show what was true before the slider moved; without
\* an answer the row is hidden.
ApplyLevels ==
    /\ fetches # <<>> /\ slider' \in {Head(fetches), slider} /\ fetches' = Tail(fetches)
    /\ UNCHANGED <<volume, pendingLevel, levelTimer, slides, mixers, chosen, slipped, toggleVars>>

TogglesNext ==
    \/ \E name \in {"wifi", "bluetooth"} : TogglesRadio(name)
    \/ AirplaneOn \/ AirplaneOff \/ TogglesNightLight \/ SunsetExits \/ TogglesFocus
    \/ \E i \in DOMAIN launched, works \in BOOLEAN : CommandEnds(i, works)

LevelsNext ==
    \/ LevelChanges \/ FlushLevels \/ PanelOpens \/ ApplyLevels
    \/ \E i \in DOMAIN mixers, works \in BOOLEAN : MixerEnds(i, works)

QuickSpec == QuickInit /\ [][TogglesNext \/ LevelsNext]_quickVars

-----------------------------------------------------------------------------
\* Once the commands have ended every radio is off in airplane mode, and is
\* otherwise what its button shows and the user last asked for, the mobile
\* radio included.  Excepted is a radio whose newest command has failed or
\* ended before an older one, of which the code takes no notice, until the
\* next command for it; and the mobile radio once airplane mode has not learnt
\* how it was.  Focus is shown as on only when it is, and the night light when
\* hyprsunset was installed to be started; and the volume ends where the slider
\* was left, unless the last pamixer has failed or was overtaken.
ControlsAreTrue ==
    /\ launched = <<>> =>
        /\ \A r \in Radios \ astray :
               IF toggle["airplane"] = "on" THEN radio[r] = "off"
               ELSE (r = "wwan" /\ mislaid) \/ radio[r] = meantRadio[r]
        /\ \A r \in {"wifi", "bluetooth"} \ astray : toggle[r] = radio[r]
    /\ toggle["focus"] = "on" => quiet = "on"
    /\ toggle["night_light"] = "on" => sunset # "off"
    /\ levelTimer = "off" /\ mixers = <<>> /\ ~slipped => volume = chosen
=============================================================================
