------------------------------ MODULE Loadgen ------------------------------
(***************************************************************************)
(* The load generator (cmd/loadgen): workers that wait for a token of the  *)
(* ramp limiter, run one scripted session against the gateway and count    *)
(* it, until the duration or a signal cancels their context.  The session  *)
(* does not see the context: it ends by its own deadlines.  The counters   *)
(* are Prometheus metrics, each updated on its own; a scrape may read them *)
(* between any two updates.  What goes over the wire is in Wire.           *)
(***************************************************************************)
EXTENDS Naturals, FiniteSets, Sequences

CONSTANTS
    Workers,
    MaxSessions     \* bound on the sessions started

VARIABLES
    running,        \* the context is not cancelled
    pc,             \* per worker: "wait", "begin", a phase, "end", "count", "gone"
    failedRun,      \* per worker, whether Run returned an error
    started, active, success, failed,   \* the session metrics
    errors,         \* the sum of phase_errors_total
    tolerated,      \* ghost: failed character lists
    unobserved,     \* ghost: errors and panics outside a phase
    loggedOut       \* ghost: CM_LOGOUT packets sent

vars == <<running, pc, failedRun, started, active, success, failed, errors, tolerated,
          unobserved, loggedOut>>

AllPhases == <<"connect_auth", "recv_sm_key", "send_auth_login", "recv_login_resp", "send_play",
               "recv_play_resp", "connect_game", "recv_session_key", "send_session_confirm",
               "recv_char_list", "send_logout">>
Phases == {AllPhases[i] : i \in DOMAIN AllPhases}

Init == /\ running = TRUE
        /\ pc = [w \in Workers |-> "wait"] /\ failedRun = [w \in Workers |-> FALSE]
        /\ started = 0 /\ active = 0 /\ success = 0 /\ failed = 0 /\ errors = 0
        /\ tolerated = 0 /\ unobserved = 0 /\ loggedOut = 0

Go(w, next) == pc' = [pc EXCEPT ![w] = next]
Ghosts == <<tolerated, unobserved, loggedOut>>

\* lim.Wait, then SessionsStarted.Inc.
Token(w) == /\ pc[w] = "wait" /\ running /\ started < MaxSessions
            /\ started' = started + 1 /\ Go(w, "begin")
            /\ UNCHANGED <<running, failedRun, active, success, failed, errors, Ghosts>>

Begin(w) == /\ pc[w] = "begin" /\ active' = active + 1 /\ Go(w, AllPhases[1])
            /\ failedRun' = [failedRun EXCEPT ![w] = FALSE]
            /\ UNCHANGED <<running, started, success, failed, errors, Ghosts>>

After(p) == CHOOSE next \in Phases \cup {"end"} :
                \E i \in DOMAIN AllPhases : AllPhases[i] = p /\ next = Append(AllPhases, "end")[i + 1]

PhaseDone(w) == /\ pc[w] \in Phases /\ Go(w, After(pc[w]))
                /\ loggedOut' = loggedOut + (IF pc[w] = "send_logout" THEN 1 ELSE 0)
                /\ UNCHANGED <<running, failedRun, started, active, success, failed, errors,
                               tolerated, unobserved>>

\* runGame takes a failed character list for the end of a good session.
Tolerates(p) == p = "recv_char_list"

PhaseFails(w) ==
    /\ pc[w] \in Phases /\ Go(w, "end")
    /\ errors' = errors + 1
    /\ failedRun' = [failedRun EXCEPT ![w] = ~Tolerates(pc[w])]
    /\ tolerated' = tolerated + (IF pc[w] = "recv_char_list" THEN 1 ELSE 0)
    /\ UNCHANGED <<running, started, active, success, failed, unobserved, loggedOut>>

\* activateCrypto refuses a key between two phases, or anything panics: safeRun.
RecoveredByMain(w) == pc[w] \in Phases /\ Go(w, "gone")
Recovered(w) == pc[w] \in Phases /\ Go(w, "end")
RunBreaks(w) ==
    /\ Recovered(w)
    /\ failedRun' = [failedRun EXCEPT ![w] = TRUE] /\ unobserved' = unobserved + 1
    /\ UNCHANGED <<running, started, active, success, failed, errors, tolerated, loggedOut>>

End(w) == /\ pc[w] = "end" /\ active' = active - 1 /\ Go(w, "count")
          /\ UNCHANGED <<running, failedRun, started, success, failed, errors, Ghosts>>

Count(w) == /\ pc[w] = "count" /\ Go(w, "wait")
            /\ IF failedRun[w] THEN failed' = failed + 1 /\ UNCHANGED success
               ELSE success' = success + 1 /\ UNCHANGED failed
            /\ UNCHANGED <<running, failedRun, started, active, errors, Ghosts>>

\* -duration or a signal; a worker leaves only when it asks for a token, and
\* Wait also refuses one that would come after the deadline.
Cancel == /\ running /\ running' = FALSE
          /\ UNCHANGED <<pc, failedRun, started, active, success, failed, errors, Ghosts>>
Leave(w) == /\ pc[w] = "wait" /\ Go(w, "gone")
            /\ UNCHANGED <<running, failedRun, started, active, success, failed, errors, Ghosts>>

Next == \/ Cancel
        \/ \E w \in Workers : \/ Token(w) \/ Begin(w) \/ PhaseDone(w) \/ PhaseFails(w)
                              \/ RunBreaks(w) \/ End(w) \/ Count(w) \/ Leave(w)

Spec == Init /\ [][Next]_vars

-----------------------------------------------------------------------------
\* Whenever it is scraped, every session started is counted once or still under
\* way, and the gauge is the number of sessions inside Run, panics included.
Balanced == /\ started = success + failed + Cardinality({w \in Workers : pc[w] \notin {"wait", "gone"}})
            /\ active = Cardinality({w \in Workers : pc[w] \in Phases \cup {"end"}})

\* When all workers have left, every failed session is explained by one phase
\* error or by an error outside the phases, and every successful one by its
\* logout: the two sums are off by the failed character lists, and only by those
\* (metrics.go:73 counts as a success what ran through auth, game and logout).
FailuresExplained == (\A w \in Workers : pc[w] = "gone")
                        => /\ errors + unobserved = failed + tolerated
                           /\ success = loggedOut + tolerated
=============================================================================
