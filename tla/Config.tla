------------------------------- MODULE Config -------------------------------
(***************************************************************************)
(* The hot reload of rates.toml (internal/config/loader.go).  An operator  *)
(* saves the file, in place or by writing another file and renaming it     *)
(* over; the watcher posts an event per change of the file it watches; the *)
(* watch loop restarts a debounce timer on each event, and the timer runs  *)
(* reloadRates in a goroutine of its own, which reads and parses the file, *)
(* stores it under the lock and calls the subscribers.                     *)
(***************************************************************************)
EXTENDS Naturals, FiniteSets

CONSTANTS
    MaxSaves        \* bound on the saves of rates.toml

VARIABLES
    file,           \* what rates.toml holds: [version, kind] ("whole", "part", "broken")
    saving,         \* an in-place save has written only a part so far
    watched,        \* the watch is on the file the name stands for
    events,         \* events the loop has not taken
    timer,          \* the debounce timer is set
    reloads,        \* reloads under way: [id, at, content]
    loop,           \* "none", "loaded", "running", "over"
    rates,          \* the cached configuration: [version, kind]
    told,           \* what the subscribers were told last
    crossed,        \* ghost: the last reload began or ran beside another
    unseen          \* ghost: a change nobody was told of since the file was last read

vars == <<file, saving, watched, events, timer, reloads, loop, rates, told, crossed, unseen>>

Content(version, kind) == [version |-> version, kind |-> kind]
Zero == Content(0, "zero")
Reload(id, at, content) == [id |-> id, at |-> at, content |-> content]

Init == /\ file = Content(0, "whole") /\ saving = FALSE /\ watched = FALSE /\ events = 0
        /\ timer = FALSE /\ reloads = {} /\ loop = "none" /\ rates = Zero /\ told = Zero
        /\ crossed = FALSE /\ unseen = FALSE

Notify == IF watched THEN events' = events + 1 /\ UNCHANGED unseen ELSE unseen' = TRUE /\ UNCHANGED events

\* main: LoadRates, then WatchRates; a save between the two is not seen.
\* A file that does not parse leaves the zero rates.
LoadRates == /\ loop = "none" /\ loop' = "loaded" /\ unseen' = FALSE
             /\ rates' = (IF file.kind = "broken" THEN Zero ELSE file) /\ told' = rates'
             /\ UNCHANGED <<file, saving, watched, events, timer, reloads, crossed>>

\* WatchRates: the path is watched, and the loop starts.
WatchRates == /\ loop = "loaded" /\ loop' = "running" /\ watched' = TRUE
              /\ UNCHANGED <<file, saving, events, timer, reloads, rates, told, crossed, unseen>>

\* A save in place: truncated or half written, then whole or broken.
SaveBegins == /\ ~saving /\ file.version < MaxSaves /\ saving' = TRUE
              /\ file' = Content(file.version + 1, "part") /\ Notify
              /\ UNCHANGED <<watched, timer, reloads, loop, rates, told, crossed>>
SaveEnds == /\ saving /\ saving' = FALSE /\ Notify
            /\ \E kind \in {"whole", "broken"} : file' = Content(file.version, kind)
            /\ UNCHANGED <<watched, timer, reloads, loop, rates, told, crossed>>

\* A rename over the name takes the watched file away: fsnotify drops the watch
\* and posts an event the loop does not ask for.
SaveSwaps == /\ ~saving /\ file.version < MaxSaves
             /\ file' = Content(file.version + 1, "whole") /\ watched' = FALSE /\ unseen' = TRUE
             /\ UNCHANGED <<saving, events, timer, reloads, loop, rates, told, crossed>>

TakeEventIdle == /\ loop = "running" /\ events > 0 /\ events' = events - 1 /\ timer' = (reloads = {})
                 /\ UNCHANGED <<file, saving, watched, reloads, loop, rates, told, crossed, unseen>>

\* watchLoop: an event sets or restarts the timer.
TakeEvent == /\ loop = "running" /\ events > 0 /\ events' = events - 1 /\ timer' = TRUE
             /\ UNCHANGED <<file, saving, watched, reloads, loop, rates, told, crossed, unseen>>

FreeId == CHOOSE i \in 0..Cardinality(reloads) : \A r \in reloads : r.id # i

\* A quiet 200 ms: AfterFunc runs reloadRates in its own goroutine.
TimerFires == /\ timer /\ timer' = FALSE
              /\ reloads' = reloads \cup {Reload(FreeId, "read", Zero)}
              /\ crossed' = (reloads # {})
              /\ UNCHANGED <<file, saving, watched, events, loop, rates, told, unseen>>

Moves(r, at, content) == reloads' = (reloads \ {r}) \cup {Reload(r.id, at, content)}

\* LoadRates reads the file; a part of a TOML file is a TOML file, whose missing
\* keys are zero.
ReadRates(r) == IF file.kind = "broken" THEN reloads' = reloads \ {r} ELSE Moves(r, "store", file)
Read == /\ \E r \in reloads : r.at = "read" /\ ReadRates(r)
        /\ unseen' = FALSE
        /\ UNCHANGED <<file, saving, watched, events, timer, loop, rates, told, crossed>>

Store == /\ \E r \in reloads : r.at = "store" /\ rates' = r.content /\ Moves(r, "tell", r.content)
         /\ UNCHANGED <<file, saving, watched, events, timer, loop, told, crossed, unseen>>
Tell == /\ \E r \in reloads : r.at = "tell" /\ told' = r.content /\ reloads' = reloads \ {r}
        /\ UNCHANGED <<file, saving, watched, events, timer, loop, rates, crossed, unseen>>

\* Close stops the loop and the timer, not a reload under way.
Close == /\ loop = "running" /\ loop' = "over" /\ watched' = FALSE /\ events' = 0 /\ timer' = FALSE
         /\ UNCHANGED <<file, saving, reloads, rates, told, crossed, unseen>>

Next == \/ LoadRates \/ WatchRates \/ SaveBegins \/ SaveEnds \/ SaveSwaps \/ TakeEvent \/ TimerFires
        \/ Read \/ Store \/ Tell \/ Close

Spec == Init /\ [][Next]_vars

-----------------------------------------------------------------------------
Quiet == loop = "running" /\ events = 0 /\ ~timer /\ reloads = {}

\* Once everything has settled, the cache and the subscribers have what the file
\* says, unless it does not parse, it changed unwatched (a save before WatchRates,
\* or a rename that took the watch away), or two reloads ran side by side, where the
\* slow one may store the older file last (watchLoop, reloadRates).
Fresh == Quiet /\ file.kind # "broken" /\ ~unseen /\ ~crossed => rates = file /\ told = file

\* A save that does not parse never takes the old rates away (reloadRates).
NeverBroken == rates.kind # "broken" /\ told.kind # "broken"
=============================================================================
