-------------------------------- MODULE Network --------------------------------
(***************************************************************************)
(* The Network Center's window (darkos-network.py): its Wi-Fi, Bluetooth   *)
(* and Connect pages, each filled by a worker thread of which there is one *)
(* at a time for a page, and the actions on a KDE Connect device, which    *)
(* share the page's worker.                                                *)
(***************************************************************************)
EXTENDS Naturals, FiniteSets

CONSTANTS
    MaxJobs,      \* bound: workers that the user starts
    MaxNews       \* bound: changes of the device

ASSUME NetworkConstants == MaxJobs \in Nat /\ MaxNews \in Nat

VARIABLES
    netOpen,      \* whether the window is (not _closed)
    busy,         \* _busy
    worker,       \* what the thread of each page does, or has done
    page,         \* whether each page says that it is reading
    controls,     \* whether the Connect page and its Refresh are sensitive
    question,     \* the action a modal dialog asks about
    device,       \* the phone: its pairing, and whether it is reachable
    row,          \* what the page says of it, <<>> before it says anything
    jobs, news,
    acted         \* history: an action has ended and nothing was read since

networkVars == <<netOpen, busy, worker, page, controls, question, device, row, jobs, news, acted>>
networkWindowVars == <<netOpen, busy, worker, page, controls, question, row, jobs, acted>>

Pages == {"wifi", "bluetooth", "connect"}
Pairing == {"unpaired", "pending", "incoming", "paired"}
Reachable == {"online", "offline"}
DeviceActions == {"pair", "unpair", "ring", "share"}
NoJob == [at |-> "none", does |-> "read", result |-> <<>>]

NetworkTypeOK ==
    /\ netOpen \in {"no", "yes"} /\ busy \subseteq Pages /\ controls \in {"off", "on"}
    /\ worker \in [Pages -> [at : {"none", "running", "sending", "posted"},
                             does : {"read"} \cup DeviceActions,
                             result : {<<>>} \cup Pairing \X Reachable]]
    /\ page \in [Pages -> {"reading", "shown"}]
    /\ question \in {"none"} \cup DeviceActions
    /\ device \in Pairing \X Reachable /\ row \in {<<>>} \cup Pairing \X Reachable
    /\ jobs \in 0..MaxJobs /\ news \in 0..MaxNews /\ acted \in {"no", "yes"}

\* The pages are read while the window is built.
NetworkInit ==
    /\ netOpen = "yes" /\ busy = Pages
    /\ worker = [k \in Pages |-> [NoJob EXCEPT !.at = "running"]]
    /\ page = [k \in Pages |-> "reading"] /\ controls = "off" /\ question = "none"
    /\ device \in {<<"unpaired", "online">>, <<"paired", "offline">>}
    /\ row = <<>> /\ jobs = 0 /\ news = 0 /\ acted = "no"

\* _run_async(k, what, callback).
RunAsync(k, what, free) ==
    /\ busy' = free \cup {k}
    /\ worker' = [worker EXCEPT ![k] = [at |-> "running", does |-> what, result |-> <<>>]]

CountsJob == jobs < MaxJobs /\ jobs' = jobs + 1

\* _refresh_wifi, _refresh_bluetooth and _refresh_connect, by a button.
Refreshes(k) ==
    /\ netOpen = "yes" /\ question = "none" /\ k \notin busy
    /\ k = "connect" => controls = "on"
    /\ CountsJob /\ RunAsync(k, "read", busy)
    /\ page' = [page EXCEPT ![k] = "reading"]
    /\ controls' = IF k = "connect" THEN "off" ELSE controls
    /\ UNCHANGED <<netOpen, question, device, row, news, acted>>

\* Which buttons of the device's row are sensitive.
Offers(action) ==
    /\ row # <<>>
    /\ CASE action = "unpair" -> row[1] = "paired"
         [] action = "pair" -> row = <<"unpaired", "online">>
         [] OTHER -> row = <<"paired", "online">>

\* Ring starts at once; pairing, unpairing and sharing ask first.
Asks(action) ==
    /\ netOpen = "yes" /\ question = "none" /\ "connect" \notin busy /\ controls = "on"
    /\ Offers(action) /\ action # "ring" /\ question' = action
    /\ UNCHANGED <<netOpen, busy, worker, page, controls, device, row, jobs, news, acted>>

Refuses ==
    /\ question # "none" /\ question' = "none"
    /\ UNCHANGED <<netOpen, busy, worker, page, controls, device, row, jobs, news, acted>>

\* _start_connect_action.
StartsAction(action) ==
    /\ netOpen = "yes" /\ "connect" \notin busy /\ controls = "on"
    /\ \/ action = "ring" /\ question = "none" /\ Offers("ring")
       \/ action # "ring" /\ question = action
    /\ question' = "none" /\ controls' = "off"
    /\ CountsJob /\ RunAsync("connect", action, busy)
    /\ UNCHANGED <<netOpen, page, device, row, news, acted>>

\* perform_connect_action reads the device once more.
Allowed(action) ==
    /\ action # "unpair" => device[2] = "online"
    /\ IF action = "pair" THEN device[1] = "unpaired" ELSE device[1] = "paired"

\* A worker: run_tool and the calls to the bus have a time limit, and whatever
\* they raise is a result too.
Works(k) ==
    /\ worker[k].at \in {"running", "sending"}
    /\ LET does == worker[k].does IN
       \/ /\ does = "read"
          /\ \E showing \in {device, <<>>} :
                 worker' = [worker EXCEPT ![k].at = "posted", ![k].result = showing]
          /\ UNCHANGED device
       \/ /\ does # "read" /\ worker[k].at = "running"
          /\ worker' = [worker EXCEPT ![k].at = IF Allowed(does) THEN "sending" ELSE "posted"]
          /\ UNCHANGED device
       \/ /\ worker[k].at = "sending" /\ worker' = [worker EXCEPT ![k].at = "posted"]
          /\ device' \in {device} \cup
                 CASE does = "pair" -> {<<"pending", device[2]>>}
                   [] does = "unpair" -> {<<"unpaired", device[2]>>}
                   [] OTHER -> {}
    /\ UNCHANGED <<netOpen, busy, page, controls, question, row, jobs, news, acted>>

\* Seeded bug: the page is busy until its callback is back.
BusyDuringCallback(k) == busy

Discarded(k) == busy \ {k}

\* finish, and the callback: _show_wifi, _show_bluetooth, _show_connect, or
\* finished, which reads the devices again unless the page is busy.
Finishes(k) ==
    /\ worker[k].at = "posted"
    /\ LET again == /\ netOpen = "yes" /\ worker[k].does # "read"
                    /\ k \notin Discarded(k)
       IN IF again
          THEN /\ RunAsync(k, "read", Discarded(k))
               /\ page' = [page EXCEPT ![k] = "reading"] /\ controls' = "off"
               /\ acted' = "no" /\ UNCHANGED <<row, jobs>>
          ELSE /\ worker' = [worker EXCEPT ![k] = NoJob] /\ busy' = busy \ {k} /\ UNCHANGED jobs
               /\ IF netOpen = "no" THEN UNCHANGED <<page, controls, acted, row>>
                  ELSE /\ page' = [page EXCEPT ![k] = "shown"]
                       /\ controls' = IF k = "connect" THEN "on" ELSE controls
                       /\ row' = IF k = "connect" /\ worker[k].does = "read"
                                 THEN worker[k].result ELSE row
                       /\ acted' = IF worker[k].does = "read" THEN acted ELSE "yes"
    /\ UNCHANGED <<netOpen, question, device, news>>

\* The phone is paired, refused, unpaired or out of reach by its own user.
DeviceChanges ==
    /\ news < MaxNews /\ news' = news + 1
    /\ device' \in Pairing \X Reachable
    /\ UNCHANGED networkWindowVars

\* _on_destroy.
NetworkCloses ==
    /\ netOpen = "yes" /\ question = "none" /\ netOpen' = "no"
    /\ UNCHANGED <<busy, worker, page, controls, question, device, row, jobs, news, acted>>

NetworkNext ==
    \/ Refuses \/ DeviceChanges \/ NetworkCloses
    \/ \E k \in Pages : Refreshes(k) \/ Works(k) \/ Finishes(k)
    \/ \E action \in DeviceActions : Asks(action) \/ StartsAction(action)

NetworkSpec == NetworkInit /\ [][NetworkNext]_networkVars

-----------------------------------------------------------------------------
\* No page is left reading, and no control insensitive, without a worker that
\* will end it, whatever timed out, failed or was pressed meanwhile; and after
\* an action the devices are being read again, or have been.
PagesComeBack ==
    netOpen = "yes" =>
        /\ \A k \in Pages : k \in busy <=> worker[k].at # "none"
        /\ \A k \in Pages : page[k] = "reading" => k \in busy
        /\ controls = "off" => "connect" \in busy
        /\ acted = "no"
=============================================================================
