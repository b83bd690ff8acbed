-------------------------------- MODULE Jobs --------------------------------
(***************************************************************************)
(* The durable job queue of the World (internal/jobq, cmd/world/main.go,   *)
(* jobq.enqueue of internal/luahost/bridge.go) and the job that leans on   *)
(* it most: the expiry of an instance run (lib/instance.lua).              *)
(*                                                                         *)
(* A pooled Lua VM creates a run in its own tables and enqueues a delayed  *)
(* task <run_id, created_at_unix>.  asynq keeps tasks in Redis, hands each *)
(* to a worker when due, retries a failed one and gives one whose worker   *)
(* died to another: at least once.  The handler borrows any VM of the pool *)
(* and calls on_instance_expire there, which drops the run only if the     *)
(* creation second agrees.  The World crashes, restarts, shuts down with   *)
(* handlers in flight; a VM is reloaded and forgets its runs.              *)
(*                                                                         *)
(* River is started and stopped but nothing inserts a job into it, and no  *)
(* cron entry is registered: both are lifecycle only.                      *)
(***************************************************************************)
EXTENDS Integers, FiniteSets

CONSTANTS
    Vms,          \* the pooled VMs
    OtherKinds,   \* other kinds scripts enqueue
    Validity,     \* the delay of a run's expiry
    MaxTasks,     \* bound on the tasks ever accepted
    MaxRetry,     \* asynq's default is 25 retries, then the task is archived
    MaxClock,     \* bound on the seconds that pass
    MaxCrashes,   \* bound on ends of the World: crashes, shutdowns
    MaxFaults     \* bound on failures: River's start, a Redis command, a Lua error, a reload

VARIABLES
    world,      \* "down", "built", "up", "closing", "closed"
    bundle,     \* [river, asynq]: which backends the Bundle holds
    serving,    \* the asynq server takes tasks
    runs,       \* per VM, its runs: a set of [run, made, epoch]
    nextRun,    \* per VM, _next_run_id
    tasks,      \* Redis: a set of [id, kind, payload, epoch, st, tries]
    work,       \* handlers in flight: a set of [id, vm, ran]
    handled,    \* per accepted task, how often its handler ran to the end
    misfire,    \* a run was dropped by a task of an earlier World process
    clock, crashes, faults

vars == <<world, bundle, serving, runs, nextRun, tasks, work, handled, misfire,
          clock, crashes, faults>>

Epochs == 0..MaxCrashes
NoBundle == [river |-> FALSE, asynq |-> FALSE]
Fault == faults < MaxFaults /\ faults' = faults + 1
Accepted == DOMAIN handled
Task(i) == CHOOSE t \in tasks : t.id = i
WithTask(t) == {u \in tasks : u.id # t.id} \cup {t}
Mem == <<runs, nextRun>>

Init == /\ world = "down" /\ bundle = NoBundle /\ serving = FALSE
        /\ runs = [v \in Vms |-> {}] /\ nextRun = [v \in Vms |-> 1]
        /\ tasks = {} /\ work = {} /\ handled = <<>> /\ misfire = FALSE
        /\ clock = 0 /\ crashes = 0 /\ faults = 0

-----------------------------------------------------------------------------
(* The World's start.                                                      *)

\* New: the backends the configuration has; an error of River's migration
\* leaves the World with a bundle that holds neither.
New(pg, redis) ==
    \/ bundle' = [river |-> pg, asynq |-> redis] /\ UNCHANGED faults
    \/ pg /\ bundle' = NoBundle /\ Fault

\* The VM pool is fresh, its tables empty; bridge.Jobs is set in the same step.
Build == /\ world = "down" /\ world' = "built"
         /\ \E pg, redis \in BOOLEAN : New(pg, redis)
         /\ runs' = [v \in Vms |-> {}] /\ nextRun' = [v \in Vms |-> 1]
         /\ UNCHANGED <<serving, tasks, work, handled, misfire, clock, crashes>>

\* The server is started whatever the Bundle holds.
ServingAlways == TRUE

\* The server starts when the Bundle has one (its mux is always given).
Serving == bundle.asynq

\* Start: River, then the asynq server, then the scheduler; an error of one
\* returns and leaves the rest off, and the World goes on all the same.
Start == /\ world = "built" /\ world' = "up"
         /\ \/ serving' = Serving /\ UNCHANGED faults
            \/ bundle.river /\ serving' = FALSE /\ Fault
         /\ UNCHANGED <<bundle, Mem, tasks, work, handled, misfire, clock, crashes>>

-----------------------------------------------------------------------------
(* Enqueue.                                                                *)

\* A delay that is not positive is no delay.
Queued(delay) == IF delay <= 0 THEN "pending" ELSE "scheduled"

\* EnqueueKindIn: without asynq the task is dropped and the answer is nil, so
\* the script is told true; the command may fail before it runs.
EnqueueKindIn(kind, payload, delay) ==
    \/ ~bundle.asynq /\ UNCHANGED <<tasks, handled, faults>>
    \/ /\ bundle.asynq /\ Cardinality(Accepted) < MaxTasks
       /\ LET i == Cardinality(Accepted) + 1 IN
          /\ tasks' = tasks \cup {[id |-> i, kind |-> kind, payload |-> payload,
                                   epoch |-> crashes, st |-> Queued(delay), tries |-> 0]}
          /\ handled' = [j \in 1..i |-> IF j = i THEN 0 ELSE handled[j]]
       /\ UNCHANGED faults
    \/ bundle.asynq /\ Fault /\ UNCHANGED <<tasks, handled>>

\* The args table of Lua as the JSON object of the payload; other kinds are opaque.
Payload(r) == [run_id |-> r.run, created_at_unix |-> r.made]
Empty == [run_id |-> 0, created_at_unix |-> 0]

\* jobq.enqueue(kind) of a script, without a delay.
Enqueue(kind) == /\ world = "up"
                 /\ EnqueueKindIn(kind, Empty, 0)
                 /\ UNCHANGED <<world, bundle, serving, Mem, work, misfire, clock, crashes>>

\* instance.create on VM v: a run in v's tables, and its expiry.
CreateRun(v) ==
    /\ world = "up" /\ nextRun[v] <= MaxTasks
    /\ LET r == [run |-> nextRun[v], made |-> clock, epoch |-> crashes] IN
       /\ runs' = [runs EXCEPT ![v] = @ \cup {r}]
       /\ EnqueueKindIn("instance", Payload(r), Validity)
    /\ nextRun' = [nextRun EXCEPT ![v] = @ + 1]
    /\ UNCHANGED <<world, bundle, serving, work, misfire, clock, crashes>>

\* A reload puts a fresh VM in v's place: its tables and its counter are gone.
Reload(v) == /\ world = "up" /\ Fault /\ v \notin {w.vm : w \in work}
             /\ runs' = [runs EXCEPT ![v] = {}] /\ nextRun' = [nextRun EXCEPT ![v] = 1]
             /\ UNCHANGED <<world, bundle, serving, tasks, work, handled, misfire,
                            clock, crashes>>

-----------------------------------------------------------------------------
(* asynq's workers and the handlers of DefaultAsynqMux.                    *)

\* The tasks once a worker holds t.
Mark(t) == WithTask([t EXCEPT !.st = "active"])

\* The delay of a task is over (how many seconds that is is left out).
Falls(t) == /\ t.st = "scheduled"
            /\ tasks' = WithTask([t EXCEPT !.st = "pending"])
            /\ UNCHANGED <<world, bundle, serving, Mem, work, handled, misfire, clock,
                           crashes, faults>>

\* A worker takes a due task and borrows a VM of the pool.
Take(t, v) == /\ serving /\ t.st = "pending" /\ v \notin {w.vm : w \in work}
              /\ tasks' = Mark(t)
              /\ work' = work \cup {[id |-> t.id, vm |-> v, ran |-> FALSE]}
              /\ UNCHANGED <<world, bundle, serving, Mem, handled, misfire, clock,
                             crashes, faults>>

\* By number alone.
MatchesNumber(r, p) == r.run = p.run_id

\* instance.on_expire: same number and same second.
Matches(r, p) == r.run = p.run_id /\ r.made = p.created_at_unix

\* The kinds DefaultAsynqMux has a handler for; asynq fails a task of another kind.
Muxed == {"daily_reset", "pvp_ap_batch", "world_boss_spawn", "auction", "instance", "season"}

\* What the Lua call drops: for an instance task the run that matches the
\* decoded payload, another or none is left; other handlers drop no run.
Dropped(t, v) == IF t.kind = "instance" THEN {r \in runs[v] : Matches(r, t.payload)} ELSE {}

Handle(w) ==
    /\ w \in work /\ ~w.ran /\ Task(w.id).kind \in Muxed
    /\ LET t == Task(w.id)  gone == Dropped(t, w.vm) IN
       /\ runs' = [runs EXCEPT ![w.vm] = @ \ gone]
       /\ misfire' = (misfire \/ \E r \in gone : r.epoch # t.epoch)
    /\ work' = (work \ {w}) \cup {[w EXCEPT !.ran = TRUE]}
    /\ handled' = [handled EXCEPT ![w.id] = @ + 1]
    /\ UNCHANGED <<world, bundle, serving, nextRun, tasks, clock, crashes, faults>>

\* The handler returned nil: the task is deleted.
Done(w) == /\ w \in work /\ w.ran
           /\ work' = work \ {w}
           /\ tasks' = {t \in tasks : t.id # w.id}
           /\ UNCHANGED <<world, bundle, serving, Mem, handled, misfire, clock,
                          crashes, faults>>

\* A failed attempt: tried again, or archived after the last.
Again(t) == IF t.tries < MaxRetry THEN [t EXCEPT !.st = "pending", !.tries = @ + 1]
                                  ELSE [t EXCEPT !.st = "archived"]

\* The mux has no handler, or CallGlobal fails (a Lua error, a VM without the
\* global): the error goes back to asynq.
Fails(w) == /\ w \in work /\ ~w.ran
            /\ work' = work \ {w}
            /\ tasks' = WithTask(Again(Task(w.id)))
            /\ UNCHANGED <<world, bundle, serving, Mem, handled, misfire, clock, crashes>>
Unhandled(w) == Fails(w) /\ Task(w.id).kind \notin Muxed /\ UNCHANGED faults
LuaError(w) == Fails(w) /\ Task(w.id).kind \in Muxed /\ Fault

\* Only a task that was retried before.
OrphanedRetry(t) == t.st = "active" /\ t.tries > 0 /\ t.id \notin {w.id : w \in work}

\* The worker of an active task died.
Orphaned(t) == t.st = "active" /\ t.id \notin {w.id : w \in work}

\* The lease of such a worker runs out; asynq's recoverer retries.
Recover(t) == /\ serving /\ Orphaned(t)
              /\ tasks' = WithTask(Again(t))
              /\ UNCHANGED <<world, bundle, serving, Mem, work, handled, misfire, clock,
                             crashes, faults>>

-----------------------------------------------------------------------------
(* The World's end.                                                        *)

\* SIGTERM: Bundle.Close stops the server from taking tasks and waits.
Close == /\ world = "up" /\ crashes < MaxCrashes
         /\ world' = "closing" /\ serving' = FALSE
         /\ UNCHANGED <<bundle, Mem, tasks, work, handled, misfire, clock, crashes, faults>>

\* The tasks of workers that were given up are dropped.
RequeuedNone == {t \in tasks : t.st # "active"}

\* The workers are through; or the wait times out and their tasks go back.
Requeued == {IF t.st = "active" THEN [t EXCEPT !.st = "pending"] ELSE t : t \in tasks}

Closed == /\ world = "closing"
          /\ \/ work = {} /\ UNCHANGED <<tasks, faults>>
             \/ work # {} /\ tasks' = Requeued /\ Fault
          /\ world' = "down" /\ work' = {} /\ bundle' = NoBundle
          /\ crashes' = crashes + 1 /\ clock' = clock + 1
          /\ runs' = [v \in Vms |-> {}] /\ nextRun' = [v \in Vms |-> 1]
          /\ UNCHANGED <<serving, handled, misfire>>

\* The process dies.  What is in Redis stays; a second passes before the next.
Crash == /\ world \in {"built", "up", "closing"} /\ crashes < MaxCrashes
         /\ world' = "down" /\ serving' = FALSE /\ work' = {} /\ bundle' = NoBundle
         /\ crashes' = crashes + 1 /\ clock' = clock + 1
         /\ runs' = [v \in Vms |-> {}] /\ nextRun' = [v \in Vms |-> 1]
         /\ UNCHANGED <<tasks, handled, misfire, faults>>

Tick == /\ clock < MaxClock /\ clock' = clock + 1
        /\ UNCHANGED <<world, bundle, serving, Mem, tasks, work, handled, misfire,
                       crashes, faults>>

WorldStep == Build \/ Start \/ Closed
QueueStep == \/ \E t \in tasks : Falls(t) \/ Recover(t) \/ \E v \in Vms : Take(t, v)
             \/ \E w \in work : Handle(w) \/ Done(w) \/ Unhandled(w)

Next == \/ WorldStep \/ QueueStep \/ Tick \/ Close \/ Crash
        \/ \E v \in Vms : CreateRun(v) \/ Reload(v)
        \/ \E k \in OtherKinds : Enqueue(k)
        \/ \E w \in work : LuaError(w)

\* The container restarts the World (restart: on-failure), a delay ends, and
\* asynq's workers take what is due; handlers return.
Fairness == WF_vars(WorldStep) /\ WF_vars(QueueStep)
Spec == Init /\ [][Next]_vars /\ Fairness

-----------------------------------------------------------------------------
(* Properties.                                                             *)

TypeOK ==
    /\ world \in {"down", "built", "up", "closing"}
    /\ bundle \in [river : BOOLEAN, asynq : BOOLEAN]
    /\ serving \in BOOLEAN /\ (serving => world = "up" /\ bundle.asynq)
    /\ \A t \in tasks : /\ t.id \in Accepted /\ t.st \in {"scheduled", "pending", "active", "archived"}
                        /\ t.tries \in 0..MaxRetry /\ t.epoch \in Epochs
    /\ \A w \in work : w.id \in Accepted /\ w.vm \in Vms
    /\ \A v \in Vms : \A r \in runs[v] : r.run < nextRun[v]
    /\ misfire \in BOOLEAN

\* A task Redis accepted is still there or its handler ran to the end: neither
\* a crash in the middle of a handler, nor a shutdown that gives up waiting,
\* nor a failing handler loses it.
NothingLost == \A i \in Accepted : handled[i] = 0 => \E t \in tasks : t.id = i

\* Without a fault and without an end of the World a handler runs once.
OnceWithoutFault == faults = 0 /\ crashes = 0 => \A i \in Accepted : handled[i] <= 1

\* "A stale task that fires after a server restart (when run_id counters have
\* reset and been recycled) can be rejected as a mismatch instead of tearing
\* down an unrelated new run" (workers.go).
StaleRejected == ~misfire

\* A task in Redis is handled or archived, provided Redis stays configured and
\* the server is let start (a fault of River's start leaves it off).
Live == []<>(world = "up" => serving)
Settled(i) == i \in Accepted => handled[i] > 0 \/ \E t \in tasks : t.id = i /\ t.st = "archived"
EveryTaskSettles == Live => \A i \in 1..MaxTasks : []<>Settled(i)
=============================================================================
