--------------------------- MODULE ProgramsProofs ---------------------------
(***************************************************************************)
(* Proofs about the parts Programs puts side by side.  Each part has an    *)
(* inductive invariant of its own; a step of another part changes nothing  *)
(* of it.                                                                  *)
(***************************************************************************)
EXTENDS Programs, Totals, Integers, Sequences, FiniteSetTheorems, WellFoundedInduction, TLAPS

\* A step is one of the part the behaviour is of, and that does not change.
LEMMA PartOfStep ==
    ASSUME [Next]_all
    PROVE  /\ part' = part
           /\ part = "jobs" => J!Next \/ UNCHANGED jobs
           /\ part = "admin" => A!Next \/ UNCHANGED admin
           /\ part = "config" => R!Next \/ UNCHANGED config
           /\ part = "synth" => S!Next \/ UNCHANGED synth
           /\ part = "wire" => W!Next \/ UNCHANGED wire
           /\ part = "loadgen" => L!Next \/ UNCHANGED load
           /\ part = "tinyclient" => T!Next \/ UNCHANGED tiny
           /\ part = "mail" => M!Next \/ UNCHANGED mail
           /\ part = "party" => P!Next \/ UNCHANGED party
           /\ part = "log" => G!Next \/ UNCHANGED logging
BY DEF Next, all

-----------------------------------------------------------------------------
(* Jobs.                                                                   *)

TaskSet == [id : Nat, kind : OtherKinds \cup {"instance"},
            payload : [run_id : Nat, created_at_unix : Nat], epoch : Nat,
            st : {"scheduled", "pending", "active", "archived"}, tries : 0..MaxRetry]

WorldTyped ==
    /\ world \in {"down", "built", "up", "closing"}
    /\ bundle \in [river : BOOLEAN, asynq : BOOLEAN]
    /\ serving \in BOOLEAN /\ misfire \in BOOLEAN

QueueTyped ==
    /\ clock \in Nat /\ crashes \in 0..MaxCrashes /\ faults \in Nat
    /\ runs \in [Vms -> SUBSET [run : Nat, made : Nat, epoch : Nat]]
    /\ nextRun \in [Vms -> Nat]
    /\ tasks \subseteq TaskSet
    /\ work \subseteq [id : Nat, vm : Vms, ran : BOOLEAN]

\* The server runs only in a World that is up and has asynq; an end of the
\* World that began is not yet counted.
Lifecycle ==
    /\ serving => world = "up" /\ bundle.asynq
    /\ world = "closing" => crashes < MaxCrashes

\* Accepted tasks are numbered from 1.
Numbered == \E n \in Nat : handled \in [1..n -> Nat]

\* Redis has one task of a number; a handler in flight holds an active one,
\* alone.
OneEach ==
    /\ \A t \in tasks : t.id \in DOMAIN handled
    /\ \A t, u \in tasks : t.id = u.id => t = u
    /\ \A w \in work : \E t \in tasks : t.id = w.id /\ t.st = "active"
    /\ \A w, x \in work : w.id = x.id => w = x

\* A number without a task was handled; a handler in flight that ran was counted.
Counted ==
    /\ \A i \in DOMAIN handled : handled[i] = 0 => \E t \in tasks : t.id = i
    /\ \A w \in work : w.ran => handled[w.id] > 0

\* Without a fault or an end of the World a counted task that is still there
\* is held by the handler that counted it.
Once ==
    faults = 0 /\ crashes = 0 =>
        /\ \A i \in DOMAIN handled : handled[i] <= 1
        /\ \A t \in tasks : handled[t.id] > 0 => \E w \in work : w.id = t.id /\ w.ran

\* A second lies between the runs of two World processes.
EpochsApart ==
    /\ \A v \in Vms : \A r \in runs[v] : r.run < nextRun[v] /\ r.epoch = crashes /\ r.made <= clock
    /\ \A t \in tasks : t.epoch <= crashes /\ t.payload.created_at_unix <= clock
    /\ \A t \in tasks : t.epoch < crashes => t.payload.created_at_unix < clock
    /\ \A t \in tasks : \A v \in Vms : \A r \in runs[v] :
            t.epoch # r.epoch => t.payload.created_at_unix < r.made
    /\ ~misfire

JobsInv == WorldTyped /\ QueueTyped /\ Lifecycle /\ Numbered /\ OneEach /\ Counted /\ Once /\ EpochsApart
\* The task of a handler in flight is the active one of its number.
LEMMA JobsTaskOf ==
    ASSUME JobsInv, NEW w \in work
    PROVE  J!Task(w.id) \in tasks /\ J!Task(w.id).id = w.id /\ J!Task(w.id).st = "active"
<1>1. PICK t \in tasks : t.id = w.id /\ t.st = "active" BY DEF JobsInv, OneEach
<1>2. J!Task(w.id) \in tasks /\ J!Task(w.id).id = w.id BY <1>1 DEF J!Task
<1> QED BY <1>1, <1>2 DEF JobsInv, OneEach

\* A failed attempt changes the state and the tries of a task, no more.
LEMMA JobsAgain ==
    ASSUME NEW t \in TaskSet
    PROVE  J!Again(t) \in TaskSet /\ J!Again(t).id = t.id /\ J!Again(t).payload = t.payload
           /\ J!Again(t).epoch = t.epoch
<1>1. CASE t.tries < MaxRetry
  <2>1. t.tries + 1 \in 0..MaxRetry BY <1>1, JobsAssumption DEF TaskSet
  <2>2. J!Again(t) = [t EXCEPT !.st = "pending", !.tries = @ + 1] BY <1>1 DEF J!Again
  <2> QED BY <2>1, <2>2 DEF TaskSet
<1>2. CASE ~(t.tries < MaxRetry) BY <1>2 DEF TaskSet, J!Again
<1> QED BY <1>1, <1>2

\* What putting x in the place of the task of its number does to Redis.
LEMMA JobsWithTask ==
    ASSUME JobsInv, NEW t \in tasks, NEW x \in TaskSet, x.id = t.id
    PROVE  /\ J!WithTask(x) \subseteq TaskSet /\ x \in J!WithTask(x)
           /\ \A u \in J!WithTask(x) : u = x \/ (u \in tasks /\ u.id # t.id)
           /\ \A u \in tasks : u.id # t.id => u \in J!WithTask(x)
BY DEF JobsInv, QueueTyped, J!WithTask

\* A step that only moves task t on, and perhaps the handler that holds it,
\* keeps the invariant, provided a handler that was counted stays.
LEMMA JobsMoved ==
    ASSUME JobsInv, NEW t \in tasks, NEW x \in TaskSet,
           x.id = t.id, x.payload = t.payload, x.epoch = t.epoch,
           tasks' = J!WithTask(x),
           UNCHANGED <<world, bundle, serving, runs, nextRun, handled, misfire, clock, crashes>>,
           faults' \in Nat, faults' >= faults,
           work' \subseteq [id : Nat, vm : Vms, ran : BOOLEAN],
           \A w \in work : w.id # t.id => w \in work',
           \A w \in work' : w.id # t.id => w \in work,
           \A w \in work' : w.id = t.id => x.st = "active" /\ ~w.ran,
           \A w, y \in work' : w.id = t.id /\ y.id = t.id => w = y,
           \A w \in work : w.id = t.id => ~w.ran
    PROVE  JobsInv'
<1> USE DEF JobsInv
<1>1. /\ tasks' \subseteq TaskSet /\ x \in tasks'
      /\ \A u \in tasks' : u = x \/ (u \in tasks /\ u.id # t.id)
      /\ \A u \in tasks : u.id # t.id => u \in tasks'
  BY JobsWithTask
<1>2. WorldTyped' BY <1>1 DEF WorldTyped
<1>3. QueueTyped' BY <1>1 DEF QueueTyped
<1>4. Numbered' BY DEF Numbered
<1>5. Lifecycle' BY DEF Lifecycle
<1>6. OneEach' BY <1>1 DEF OneEach
<1>7. Counted' BY <1>1 DEF Counted
<1>8. Once'
  <2> SUFFICES ASSUME faults' = 0, crashes' = 0 PROVE
         /\ \A i \in DOMAIN handled : handled[i] <= 1
         /\ \A u \in tasks' : handled[u.id] > 0 => \E w \in work' : w.id = u.id /\ w.ran
    BY DEF Once
  <2>1. faults = 0 /\ crashes = 0 BY DEF WorldTyped, QueueTyped
  <2> QED BY <1>1, <2>1 DEF Once
<1>9. EpochsApart' BY <1>1 DEF EpochsApart
<1> QED BY <1>2, <1>3, <1>4, <1>5, <1>6, <1>7, <1>8, <1>9

LEMMA JobsBuild ==
    ASSUME JobsInv, J!Build
    PROVE  JobsInv'
<1> USE DEF JobsInv, J!Build, J!New, J!NoBundle, J!Fault
<1>1. WorldTyped'
  <2>1. PICK pg \in BOOLEAN, redis \in BOOLEAN : J!New(pg, redis) OBVIOUS
  <2>2. bundle' = [river |-> pg, asynq |-> redis] \/ bundle' = [river |-> FALSE, asynq |-> FALSE]
    BY <2>1
  <2>3. bundle' \in [river : BOOLEAN, asynq : BOOLEAN]
    <3>1. \A a, b \in BOOLEAN : [river |-> a, asynq |-> b] \in [river : BOOLEAN, asynq : BOOLEAN]
      OBVIOUS
    <3> QED BY <2>2, <3>1, Zenon
  <2> QED BY <2>3 DEF WorldTyped
<1>2. QueueTyped' BY DEF QueueTyped
<1>3. Numbered' BY DEF Numbered
<1>4. Lifecycle' BY DEF Lifecycle
<1>5. OneEach' BY DEF OneEach
<1>6. Counted' BY DEF Counted
<1>7. Once' BY DEF Once, WorldTyped, QueueTyped
<1>8. EpochsApart' BY DEF EpochsApart
<1> QED BY <1>1, <1>2, <1>3, <1>4, <1>5, <1>6, <1>7, <1>8

LEMMA JobsStart ==
    ASSUME JobsInv, J!Start
    PROVE  JobsInv'
<1> USE DEF JobsInv, J!Start, J!Serving, J!Mem, J!Fault
<1>1. WorldTyped' BY DEF WorldTyped
<1>2. QueueTyped' BY DEF QueueTyped
<1>3. Numbered' BY DEF Numbered
<1>4. Lifecycle' BY DEF Lifecycle
<1>5. OneEach' BY DEF OneEach
<1>6. Counted' BY DEF Counted
<1>7. Once' BY DEF Once, WorldTyped, QueueTyped
<1>8. EpochsApart' BY DEF EpochsApart
<1> QED BY <1>1, <1>2, <1>3, <1>4, <1>5, <1>6, <1>7, <1>8

LEMMA JobsFalls ==
    ASSUME JobsInv, NEW t \in tasks, J!Falls(t)
    PROVE  JobsInv'
<1> DEFINE x == [t EXCEPT !.st = "pending"]
<1> USE DEF JobsInv, J!Falls, J!Mem
<1>1. x \in TaskSet /\ x.id = t.id /\ x.payload = t.payload /\ x.epoch = t.epoch
  BY DEF WorldTyped, QueueTyped, TaskSet
<1>2. \A w \in work : w.id # t.id BY DEF OneEach
<1>3. tasks' = J!WithTask(x) OBVIOUS
<1>4. /\ faults' \in Nat /\ faults' >= faults
      /\ work' \subseteq [id : Nat, vm : Vms, ran : BOOLEAN] /\ work' = work
  BY DEF WorldTyped, QueueTyped
<1> HIDE DEF x
<1> QED BY <1>1, <1>2, <1>3, <1>4, JobsMoved

LEMMA JobsRecover ==
    ASSUME JobsInv, NEW t \in tasks, J!Recover(t)
    PROVE  JobsInv'
<1> USE JobsAssumption DEF JobsInv, J!Recover, J!Mem
<1> DEFINE x == J!Again(t)
<1>1. x \in TaskSet /\ x.id = t.id /\ x.payload = t.payload /\ x.epoch = t.epoch
  BY JobsAgain DEF WorldTyped, QueueTyped
<1>2. \A w \in work : w.id # t.id BY DEF J!Orphaned
<1>3. tasks' = J!WithTask(x) OBVIOUS
<1>4. /\ faults' \in Nat /\ faults' >= faults
      /\ work' \subseteq [id : Nat, vm : Vms, ran : BOOLEAN] /\ work' = work
  BY DEF WorldTyped, QueueTyped
<1> HIDE DEF x
<1> QED BY <1>1, <1>2, <1>3, <1>4, JobsMoved

LEMMA JobsTake ==
    ASSUME JobsInv, NEW t \in tasks, NEW v \in Vms, J!Take(t, v)
    PROVE  JobsInv'
<1> USE DEF JobsInv, J!Take, J!Mem, J!Mark
<1> DEFINE x == [t EXCEPT !.st = "active"]
           h == [id |-> t.id, vm |-> v, ran |-> FALSE]
<1>1. x \in TaskSet /\ x.id = t.id /\ x.payload = t.payload /\ x.epoch = t.epoch /\ x.st = "active"
  BY DEF WorldTyped, QueueTyped, TaskSet
<1>2. \A w \in work : w.id # t.id BY DEF OneEach
<1>3. h \in [id : Nat, vm : Vms, ran : BOOLEAN] /\ h.id = t.id /\ ~h.ran /\ work' = work \cup {h}
  BY DEF WorldTyped, QueueTyped, TaskSet
<1>4. tasks' = J!WithTask(x) OBVIOUS
<1>5. /\ faults' \in Nat /\ faults' >= faults
      /\ work \subseteq [id : Nat, vm : Vms, ran : BOOLEAN]
  BY DEF WorldTyped, QueueTyped
<1> HIDE DEF x, h
<1> QED BY <1>1, <1>2, <1>3, <1>4, <1>5, JobsMoved

LEMMA JobsFails ==
    ASSUME JobsInv, NEW w \in work, J!Fails(w), faults' \in Nat, faults' >= faults
    PROVE  JobsInv'
<1> USE JobsAssumption DEF JobsInv, J!Fails, J!Mem
<1> DEFINE t == J!Task(w.id)
           x == J!Again(t)
<1>1. t \in tasks /\ t.id = w.id /\ t.st = "active" BY JobsTaskOf
<1> HIDE DEF t
<1>2. x \in TaskSet /\ x.id = t.id /\ x.payload = t.payload /\ x.epoch = t.epoch
  BY <1>1, JobsAgain DEF WorldTyped, QueueTyped
<1>3. tasks' = J!WithTask(x) BY DEF t
<1>4. /\ work' = work \ {w} /\ ~w.ran
      /\ \A y \in work : y.id = t.id => y = w
  BY <1>1 DEF OneEach
<1>5. work' \subseteq [id : Nat, vm : Vms, ran : BOOLEAN]
  BY DEF WorldTyped, QueueTyped
<1> HIDE DEF x
<1> QED BY <1>1, <1>2, <1>3, <1>4, <1>5, JobsMoved

LEMMA JobsHandle ==
    ASSUME JobsInv, NEW w \in work, J!Handle(w)
    PROVE  JobsInv'
<1> USE DEF JobsInv
<1> DEFINE t == J!Task(w.id)
           gone == J!Dropped(t, w.vm)
           x == [w EXCEPT !.ran = TRUE]
<1>1. t \in tasks /\ t.id = w.id /\ t.st = "active" BY JobsTaskOf
<1>2. /\ ~w.ran
      /\ runs' = [runs EXCEPT ![w.vm] = @ \ gone]
      /\ misfire' = (misfire \/ \E r \in gone : r.epoch # t.epoch)
      /\ work' = (work \ {w}) \cup {x}
      /\ handled' = [handled EXCEPT ![w.id] = @ + 1]
      /\ UNCHANGED <<world, bundle, serving, nextRun, tasks, clock, crashes, faults>>
  BY DEF J!Handle
<1>3. \A r \in gone : r \in runs[w.vm] /\ r.made = t.payload.created_at_unix
  BY DEF J!Dropped, J!Matches
<1> HIDE DEF t, gone
<1>4. x.id = w.id /\ x.vm = w.vm /\ x.ran /\ x \in [id : Nat, vm : Vms, ran : BOOLEAN]
  BY DEF WorldTyped, QueueTyped
<1> HIDE DEF x
<1>5. w.vm \in Vms /\ w.id \in DOMAIN handled
  BY <1>1 DEF WorldTyped, QueueTyped, OneEach
<1>6. ~ \E r \in gone : r.epoch # t.epoch
  <2> SUFFICES ASSUME NEW r \in gone, r.epoch # t.epoch PROVE FALSE OBVIOUS
  <2>1. t.payload.created_at_unix < r.made BY <1>1, <1>3, <1>5 DEF EpochsApart
  <2>2. r.made \in Nat /\ r.made = t.payload.created_at_unix
    BY <1>3, <1>5 DEF WorldTyped, QueueTyped
  <2> QED BY <2>1, <2>2
<1>7. /\ \A i \in DOMAIN handled : i # w.id => handled'[i] = handled[i]
      /\ DOMAIN handled' = DOMAIN handled
      /\ handled[w.id] \in Nat /\ handled'[w.id] = handled[w.id] + 1
  BY <1>2, <1>5 DEF Numbered
<1>8. WorldTyped' BY <1>2, <1>6 DEF WorldTyped
<1>9. QueueTyped' BY <1>2, <1>4 DEF WorldTyped, QueueTyped
<1>10. Numbered' BY <1>2, <1>5 DEF Numbered
<1>11. Lifecycle' BY <1>2 DEF Lifecycle
<1>12. OneEach' BY <1>1, <1>2, <1>4, <1>7 DEF OneEach
<1>13. Counted' BY <1>1, <1>2, <1>4, <1>7 DEF Counted, OneEach
<1>14. Once'
  <2> SUFFICES ASSUME faults = 0, crashes = 0 PROVE
         /\ \A i \in DOMAIN handled : handled'[i] <= 1
         /\ \A u \in tasks : handled'[u.id] > 0 => \E y \in work' : y.id = u.id /\ y.ran
    BY <1>2, <1>7 DEF Once
  <2>1. ~(handled[w.id] > 0) BY <1>1, <1>2 DEF Once, OneEach
  <2>2. \A i \in DOMAIN handled : handled'[i] <= 1 BY <2>1, <1>7 DEF Once
  <2>3. ASSUME NEW u \in tasks, handled'[u.id] > 0
        PROVE  \E y \in work' : y.id = u.id /\ y.ran
    <3>1. CASE u.id = w.id BY <3>1, <1>2, <1>4
    <3>2. CASE u.id # w.id
      <4>1. handled[u.id] > 0 BY <2>3, <3>2, <1>7 DEF OneEach
      <4>2. PICK y \in work : y.id = u.id /\ y.ran BY <4>1 DEF Once
      <4> QED BY <4>2, <3>2, <1>2
    <3> QED BY <3>1, <3>2
  <2> QED BY <2>2, <2>3
<1>15. EpochsApart' BY <1>2, <1>5, <1>6 DEF WorldTyped, QueueTyped, EpochsApart
<1> QED BY <1>8, <1>9, <1>10, <1>11, <1>12, <1>13, <1>14, <1>15

LEMMA JobsDone ==
    ASSUME JobsInv, NEW w \in work, J!Done(w)
    PROVE  JobsInv'
<1> USE DEF JobsInv, J!Done, J!Mem
<1>1. WorldTyped' BY DEF WorldTyped
<1>2. QueueTyped' BY DEF QueueTyped
<1>3. Numbered' BY DEF Numbered
<1>4. Lifecycle' BY DEF Lifecycle
<1>5. OneEach' BY DEF OneEach
<1>6. Counted' BY DEF Counted
<1>7. Once' BY DEF Once, WorldTyped, QueueTyped, OneEach
<1>8. EpochsApart' BY DEF EpochsApart
<1> QED BY <1>1, <1>2, <1>3, <1>4, <1>5, <1>6, <1>7, <1>8

\* The library's operator, reached through Jobs or directly, is the same.
LEMMA JobsCardinality == \A X : J!Cardinality(X) = Cardinality(X)
BY DEF J!Cardinality, Cardinality

\* EnqueueKindIn accepts nothing, or one task with the next number.
LEMMA JobsAccepts ==
    ASSUME JobsInv, NEW taskKind \in OtherKinds \cup {"instance"}, NEW delay,
           NEW payload \in [run_id : Nat, created_at_unix : Nat],
           J!EnqueueKindIn(taskKind, payload, delay)
    PROVE  /\ faults' \in Nat /\ faults' >= faults
           /\ \/ UNCHANGED <<tasks, handled>>
              \/ \E n \in Nat, x \in TaskSet :
                    /\ DOMAIN handled = 1..n /\ handled' \in [1..(n + 1) -> Nat]
                    /\ handled'[n + 1] = 0 /\ \A i \in 1..n : handled'[i] = handled[i]
                    /\ x.id = n + 1 /\ x.payload = payload /\ x.epoch = crashes
                    /\ tasks' = tasks \cup {x}
<1> USE JobsAssumption DEF JobsInv
<1>1. faults' \in Nat /\ faults' >= faults
  BY DEF J!EnqueueKindIn, J!Fault, WorldTyped, QueueTyped
<1>2. CASE UNCHANGED <<tasks, handled>> BY <1>1, <1>2
<1>3. ASSUME ~UNCHANGED <<tasks, handled>>
      PROVE  \E n \in Nat, x \in TaskSet :
                    /\ DOMAIN handled = 1..n /\ handled' \in [1..(n + 1) -> Nat]
                    /\ handled'[n + 1] = 0 /\ \A i \in 1..n : handled'[i] = handled[i]
                    /\ x.id = n + 1 /\ x.payload = payload /\ x.epoch = crashes
                    /\ tasks' = tasks \cup {x}
  <2>1. PICK n \in Nat : handled \in [1..n -> Nat] BY DEF Numbered
  <2>2. Cardinality(DOMAIN handled) = n BY <2>1, FS_Interval
  <2> DEFINE x == [id |-> n + 1, kind |-> taskKind, payload |-> payload, epoch |-> crashes,
                   st |-> J!Queued(delay), tries |-> 0]
  <2>3. /\ tasks' = tasks \cup {x}
        /\ handled' = [j \in 1..(n + 1) |-> IF j = n + 1 THEN 0 ELSE handled[j]]
    <3> HIDE DEF JobsInv
    <3>1. bundle.asynq /\ ~(UNCHANGED <<tasks, handled>>) BY <1>3 DEF J!EnqueueKindIn
    <3>2. J!Cardinality(J!Accepted) = n BY <2>2, JobsCardinality DEF J!Accepted
    <3> QED BY <1>3, <3>1, <3>2 DEF J!EnqueueKindIn
  <2>4. x \in TaskSet /\ x.id = n + 1 /\ x.payload = payload /\ x.epoch = crashes
    BY DEF TaskSet, J!Queued, WorldTyped, QueueTyped
  <2>5. /\ handled' \in [1..(n + 1) -> Nat] /\ handled'[n + 1] = 0
        /\ \A i \in 1..n : handled'[i] = handled[i]
    BY <2>1, <2>3
  <2> HIDE DEF x
  <2> QED BY <2>1, <2>3, <2>4, <2>5
<1> QED BY <1>1, <1>2, <1>3

LEMMA JobsEnqueued ==
    ASSUME JobsInv, NEW taskKind \in OtherKinds \cup {"instance"}, NEW delay,
           NEW payload \in [run_id : Nat, created_at_unix : Nat],
           payload.created_at_unix <= clock,
           J!EnqueueKindIn(taskKind, payload, delay),
           runs' \in [Vms -> SUBSET [run : Nat, made : Nat, epoch : Nat]],
           nextRun' \in [Vms -> Nat],
           \A v \in Vms : \A r \in runs'[v] :
                r.run < nextRun'[v] /\ r.epoch = crashes /\ r.made <= clock,
           \A v \in Vms : \A r \in runs'[v] : r \in runs[v] \/ r.made = clock,
           UNCHANGED <<world, bundle, serving, work, misfire, clock, crashes>>
    PROVE  JobsInv'
<1>1. faults' \in Nat /\ faults' >= faults BY JobsAccepts
<1>2. \/ UNCHANGED <<tasks, handled>>
      \/ \E n \in Nat, x \in TaskSet :
                    /\ DOMAIN handled = 1..n /\ handled' \in [1..(n + 1) -> Nat]
                    /\ handled'[n + 1] = 0 /\ \A i \in 1..n : handled'[i] = handled[i]
                    /\ x.id = n + 1 /\ x.payload = payload /\ x.epoch = crashes
                    /\ tasks' = tasks \cup {x}
  BY JobsAccepts
<1> USE DEF JobsInv
<1>3. CASE UNCHANGED <<tasks, handled>>
  <2>1. WorldTyped' BY <1>1, <1>3 DEF WorldTyped
  <2>2. QueueTyped' BY <1>1, <1>3 DEF QueueTyped
  <2>3. Numbered' /\ Lifecycle' /\ OneEach' /\ Counted' BY <1>3 DEF Numbered, Lifecycle, OneEach, Counted
  <2>4. Once' BY <1>1, <1>3 DEF Once, WorldTyped, QueueTyped
  <2>5. EpochsApart' BY <1>3 DEF EpochsApart, WorldTyped, QueueTyped, TaskSet
  <2> QED BY <2>1, <2>2, <2>3, <2>4, <2>5
<1>4. ASSUME NEW n \in Nat, NEW x \in TaskSet,
             DOMAIN handled = 1..n, handled' \in [1..(n + 1) -> Nat],
             handled'[n + 1] = 0, \A i \in 1..n : handled'[i] = handled[i],
             x.id = n + 1, x.payload = payload, x.epoch = crashes,
             tasks' = tasks \cup {x}
      PROVE  JobsInv'
  <2>1. WorldTyped' BY <1>1, <1>4 DEF WorldTyped
  <2>2. QueueTyped' BY <1>1, <1>4 DEF QueueTyped
  <2>3. Numbered' /\ Lifecycle' BY <1>4 DEF Numbered, Lifecycle
  <2>4. OneEach' BY <1>4 DEF OneEach
  <2>5. Counted'
    <3>1. \A w \in work : w.id \in 1..n BY <1>4 DEF OneEach
    <3>2. (\A w \in work : w.ran => handled[w.id] > 0)' BY <1>4, <3>1 DEF Counted
    <3>3. (\A i \in DOMAIN handled : handled[i] = 0 => \E t \in tasks : t.id = i)'
      <4> SUFFICES ASSUME NEW i \in 1..(n + 1), handled'[i] = 0 PROVE \E t \in tasks' : t.id = i
        BY <1>4
      <4>1. CASE i = n + 1 BY <4>1, <1>4
      <4>2. CASE i \in 1..n BY <4>2, <1>4 DEF Counted
      <4> QED BY <4>1, <4>2
    <3> QED BY <3>2, <3>3 DEF Counted
  <2>6. Once'
    <3> SUFFICES ASSUME faults' = 0, crashes' = 0 PROVE
         /\ \A i \in 1..(n + 1) : handled'[i] <= 1
         /\ \A u \in tasks' : handled'[u.id] > 0 => \E w \in work : w.id = u.id /\ w.ran
      BY <1>4 DEF Once
    <3>1. faults = 0 /\ crashes = 0 BY <1>1 DEF WorldTyped, QueueTyped
    <3>2. \A i \in 1..(n + 1) : handled'[i] <= 1
      <4> SUFFICES ASSUME NEW i \in 1..(n + 1) PROVE handled'[i] <= 1 OBVIOUS
      <4>1. CASE i = n + 1 BY <4>1, <1>4
      <4>2. CASE i \in 1..n BY <4>2, <1>4, <3>1 DEF Once
      <4> QED BY <4>1, <4>2
    <3>3. \A u \in tasks : u.id \in 1..n BY <1>4 DEF OneEach
    <3> QED BY <1>4, <3>1, <3>2, <3>3 DEF Once
  <2>7. EpochsApart' BY <1>4 DEF EpochsApart, WorldTyped, QueueTyped, TaskSet
  <2> QED BY <2>1, <2>2, <2>3, <2>4, <2>5, <2>6, <2>7
<1> QED BY <1>3, <1>4, <1>2

LEMMA JobsEnqueue ==
    ASSUME JobsInv, NEW k \in OtherKinds, J!Enqueue(k)
    PROVE  JobsInv'
BY JobsEnqueued DEF J!Empty, JobsInv, WorldTyped, QueueTyped, J!Enqueue, J!Mem, EpochsApart

LEMMA JobsCreateRun ==
    ASSUME JobsInv, NEW v \in Vms, J!CreateRun(v)
    PROVE  JobsInv'
<1> USE DEF JobsInv
<1> DEFINE r == [run |-> nextRun[v], made |-> clock, epoch |-> crashes]
<1>1. /\ runs' = [runs EXCEPT ![v] = @ \cup {r}]
      /\ J!EnqueueKindIn("instance", J!Payload(r), Validity)
      /\ nextRun' = [nextRun EXCEPT ![v] = @ + 1]
      /\ UNCHANGED <<world, bundle, serving, work, misfire, clock, crashes>>
  BY DEF J!CreateRun
<1>2. /\ r.run = nextRun[v] /\ r.made = clock /\ r.epoch = crashes
      /\ r \in [run : Nat, made : Nat, epoch : Nat]
  BY DEF WorldTyped, QueueTyped
<1>3. /\ J!Payload(r) \in [run_id : Nat, created_at_unix : Nat]
      /\ J!Payload(r).created_at_unix <= clock
  BY DEF J!Payload, WorldTyped, QueueTyped
<1> HIDE DEF r
<1>4. /\ runs' \in [Vms -> SUBSET [run : Nat, made : Nat, epoch : Nat]]
      /\ nextRun' \in [Vms -> Nat]
  BY <1>1, <1>2 DEF WorldTyped, QueueTyped
<1>5. \A u \in Vms : \A s \in runs'[u] : s \in runs[u] \/ (u = v /\ s = r)
  BY <1>1 DEF WorldTyped, QueueTyped
<1>6. \A u \in Vms : \A s \in runs'[u] :
                s.run < nextRun'[u] /\ s.epoch = crashes /\ s.made <= clock
  BY <1>1, <1>2, <1>5 DEF WorldTyped, QueueTyped, EpochsApart
<1> QED BY <1>1, <1>2, <1>3, <1>4, <1>5, <1>6, JobsEnqueued

LEMMA JobsReload ==
    ASSUME JobsInv, NEW v \in Vms, J!Reload(v)
    PROVE  JobsInv'
<1> USE DEF JobsInv, J!Reload, J!Fault
<1>1. WorldTyped' BY DEF WorldTyped
<1>2. QueueTyped' BY DEF QueueTyped
<1>3. Numbered' BY DEF Numbered
<1>4. Lifecycle' BY DEF Lifecycle
<1>5. OneEach' BY DEF OneEach
<1>6. Counted' BY DEF Counted
<1>7. Once' BY DEF Once, WorldTyped, QueueTyped
<1>8. EpochsApart' BY DEF EpochsApart, WorldTyped, QueueTyped
<1> QED BY <1>1, <1>2, <1>3, <1>4, <1>5, <1>6, <1>7, <1>8

LEMMA JobsClosed ==
    ASSUME JobsInv, J!Closed
    PROVE  JobsInv'
<1> USE JobsAssumption DEF JobsInv, J!Closed, J!NoBundle
<1>1. /\ \A t \in tasks' : \E u \in tasks : t.id = u.id /\ t.payload = u.payload /\ t.epoch = u.epoch
                                            /\ t \in TaskSet /\ (u.st # "active" => t = u)
                                            /\ (u.st = "active" => t = [u EXCEPT !.st = "pending"] \/ t = u)
      /\ \A u \in tasks : \E t \in tasks' : t.id = u.id
  <2>1. CASE UNCHANGED tasks BY <2>1 DEF WorldTyped, QueueTyped
  <2>2. CASE tasks' = J!Requeued
    <3>1. \A u \in TaskSet :
             LET t == [u EXCEPT !.st = "pending"] IN
             t \in TaskSet /\ t.id = u.id /\ t.payload = u.payload /\ t.epoch = u.epoch
      BY DEF TaskSet
    <3>2. tasks \subseteq TaskSet BY DEF WorldTyped, QueueTyped
    <3>3. \A t \in tasks' : \E u \in tasks : t = IF u.st = "active" THEN [u EXCEPT !.st = "pending"] ELSE u
      BY <2>2 DEF J!Requeued
    <3>4. \A u \in tasks : (IF u.st = "active" THEN [u EXCEPT !.st = "pending"] ELSE u) \in tasks'
      BY <2>2 DEF J!Requeued
    <3> DEFINE Back(u) == IF u.st = "active" THEN [u EXCEPT !.st = "pending"] ELSE u
    <3>5. \A u \in tasks : /\ Back(u) \in TaskSet /\ Back(u).id = u.id
                           /\ Back(u).payload = u.payload /\ Back(u).epoch = u.epoch
                           /\ u.st # "active" => Back(u) = u
                           /\ u.st = "active" => Back(u) = [u EXCEPT !.st = "pending"]
      BY <3>1, <3>2
    <3>6. (\A t \in tasks' : \E u \in tasks : t = Back(u)) /\ \A u \in tasks : Back(u) \in tasks'
      BY <3>3, <3>4
    <3> HIDE DEF Back, J!Closed
    <3> QED BY <3>5, <3>6
  <2> QED BY <2>1, <2>2
<1>2. WorldTyped' BY DEF WorldTyped
<1>3. QueueTyped' BY <1>1 DEF J!Fault, QueueTyped, Lifecycle, WorldTyped
<1>4. Numbered' BY DEF Numbered
<1>5. Lifecycle' BY DEF Lifecycle
<1>6. OneEach'
  <2>1. (\A t, u \in tasks : t.id = u.id => t = u)'
    <3>1. CASE UNCHANGED tasks BY <3>1 DEF OneEach
    <3>2. CASE tasks' = J!Requeued
      <4>1. ASSUME NEW t \in tasks', NEW u \in tasks', t.id = u.id PROVE t = u
        <5>1. PICK a \in tasks : t = IF a.st = "active" THEN [a EXCEPT !.st = "pending"] ELSE a
          BY <3>2 DEF J!Requeued
        <5>2. PICK b \in tasks : u = IF b.st = "active" THEN [b EXCEPT !.st = "pending"] ELSE b
          BY <3>2 DEF J!Requeued
        <5>3. a \in TaskSet /\ b \in TaskSet BY DEF WorldTyped, QueueTyped
        <5>4. a.id = t.id /\ b.id = u.id BY <5>1, <5>2, <5>3 DEF TaskSet
        <5>5. a = b BY <4>1, <5>4 DEF OneEach
        <5> QED BY <5>1, <5>2, <5>5
      <4> QED BY <4>1
    <3> QED BY <3>1, <3>2
  <2> QED BY <2>1, <1>1 DEF OneEach
<1>7. Counted' BY <1>1 DEF Counted
<1>8. Once' BY DEF Once, WorldTyped, QueueTyped
<1>9. EpochsApart' BY <1>1 DEF EpochsApart, WorldTyped, QueueTyped, TaskSet
<1> QED BY <1>2, <1>3, <1>4, <1>5, <1>6, <1>7, <1>8, <1>9

LEMMA JobsCrash ==
    ASSUME JobsInv, J!Crash
    PROVE  JobsInv'
<1> USE JobsAssumption DEF JobsInv, J!Crash, J!NoBundle
<1>1. WorldTyped' BY DEF WorldTyped
<1>2. QueueTyped' BY DEF QueueTyped
<1>3. Numbered' BY DEF Numbered
<1>4. Lifecycle' BY DEF Lifecycle
<1>5. OneEach' BY DEF OneEach
<1>6. Counted' BY DEF Counted
<1>7. Once' BY DEF Once, WorldTyped, QueueTyped
<1>8. EpochsApart' BY DEF EpochsApart, WorldTyped, QueueTyped, TaskSet
<1> QED BY <1>1, <1>2, <1>3, <1>4, <1>5, <1>6, <1>7, <1>8

LEMMA JobsTick ==
    ASSUME JobsInv, J!Tick \/ J!Close
    PROVE  JobsInv'
<1> USE DEF JobsInv, J!Tick, J!Close, J!Mem
<1>1. WorldTyped' BY DEF WorldTyped
<1>2. QueueTyped' BY DEF QueueTyped
<1>3. Numbered' BY DEF Numbered
<1>4. Lifecycle' BY DEF Lifecycle
<1>5. OneEach' BY DEF OneEach
<1>6. Counted' BY DEF Counted
<1>7. Once' BY DEF Once, WorldTyped, QueueTyped
<1>8. EpochsApart' BY DEF EpochsApart, WorldTyped, QueueTyped, TaskSet
<1> QED BY <1>1, <1>2, <1>3, <1>4, <1>5, <1>6, <1>7, <1>8

LEMMA JobsStep ==
    ASSUME JobsInv, J!Next
    PROVE  JobsInv'
<1>1. CASE J!WorldStep BY <1>1, JobsBuild, JobsStart, JobsClosed DEF J!WorldStep
<1>2. CASE J!QueueStep
  <2>1. ASSUME NEW t \in tasks, J!Falls(t) \/ J!Recover(t) \/ \E v \in Vms : J!Take(t, v)
        PROVE  JobsInv'
    BY <2>1, JobsFalls, JobsRecover, JobsTake
  <2>2. ASSUME NEW w \in work, J!Handle(w) \/ J!Done(w)
        PROVE  JobsInv'
    BY <2>2, JobsHandle, JobsDone
  <2>3. ASSUME NEW w \in work, J!Unhandled(w)
        PROVE  JobsInv'
    BY <2>3, JobsFails DEF J!Unhandled, JobsInv, WorldTyped, QueueTyped
  <2> QED BY <1>2, <2>1, <2>2, <2>3 DEF J!QueueStep
<1>3. CASE J!Tick \/ J!Close BY <1>3, JobsTick
<1>4. CASE J!Crash BY <1>4, JobsCrash
<1>5. ASSUME NEW v \in Vms, J!CreateRun(v) \/ J!Reload(v) PROVE JobsInv'
  BY <1>5, JobsCreateRun, JobsReload
<1>6. ASSUME NEW k \in OtherKinds, J!Enqueue(k) PROVE JobsInv' BY <1>6, JobsEnqueue
<1>7. ASSUME NEW w \in work, J!LuaError(w) PROVE JobsInv'
  BY <1>7, JobsFails DEF J!LuaError, J!Fault, JobsInv, WorldTyped, QueueTyped
<1> QED BY <1>1, <1>2, <1>3, <1>4, <1>5, <1>6, <1>7 DEF J!Next

LEMMA JobsInvariant == Spec => [](part = "jobs" => JobsInv)
<1>1. Init => (part = "jobs" => JobsInv)
  <2> SUFFICES ASSUME J!Init PROVE JobsInv BY DEF Init
  <2> USE JobsAssumption DEF J!Init
  <2>1. WorldTyped BY DEF WorldTyped, J!NoBundle
  <2>2. QueueTyped BY DEF QueueTyped
  <2>3. Numbered /\ Lifecycle /\ handled = <<>> /\ DOMAIN handled = {}
    BY DEF Numbered, Lifecycle
  <2>4. OneEach /\ Counted /\ Once BY <2>3 DEF OneEach, Counted, Once
  <2>5. EpochsApart BY DEF EpochsApart
  <2> QED BY <2>1, <2>2, <2>3, <2>4, <2>5 DEF JobsInv
<1>2. (part = "jobs" => JobsInv) /\ [Next]_all => (part = "jobs" => JobsInv)'
  <2> SUFFICES ASSUME part = "jobs", JobsInv, [Next]_all PROVE JobsInv'
    BY PartOfStep
  <2>1. CASE J!Next BY <2>1, JobsStep
  <2>2. CASE UNCHANGED jobs
    BY <2>2 DEF jobs, JobsInv, WorldTyped, QueueTyped, Numbered, Lifecycle, OneEach, Counted, Once, EpochsApart
  <2> QED BY <2>1, <2>2, PartOfStep
<1> QED BY <1>1, <1>2, PTL DEF Spec

\* A task Redis accepted is handled or still there, whatever crashes, lost
\* leases, shutdowns and failing handlers come between, and without any of them
\* its handler runs once.
THEOREM JobsKeepTasks == Spec => []NothingLost
<1>1. (part = "jobs" => JobsInv) => NothingLost
  <2> SUFFICES ASSUME part = "jobs", JobsInv PROVE J!TypeOK /\ J!NothingLost /\ J!OnceWithoutFault
    BY DEF NothingLost
  <2> USE JobsAssumption DEF JobsInv
  <2>1. J!TypeOK
    BY DEF WorldTyped, QueueTyped, TaskSet, EpochsApart, J!Epochs, OneEach, Lifecycle, J!TypeOK,
       J!Accepted
  <2>2. J!NothingLost BY DEF J!NothingLost, J!Accepted, Counted
  <2>3. J!OnceWithoutFault BY DEF J!OnceWithoutFault, J!Accepted, Once
  <2> QED BY <2>1, <2>2, <2>3
<1> QED BY <1>1, JobsInvariant, PTL

\* An expiry enqueued by an earlier World process never drops a run of this one,
\* though run numbers start again: their creation seconds differ.
THEOREM JobsStaleRejected == Spec => []StaleRejected
<1>1. (part = "jobs" => JobsInv) => StaleRejected
  BY DEF StaleRejected, J!StaleRejected, JobsInv, EpochsApart
<1> QED BY <1>1, JobsInvariant, PTL


-----------------------------------------------------------------------------
(* Config.                                                                 *)

\* What was read in, and what is stored and told, parsed.
ConfigTyped ==
    /\ events \in Nat
    /\ loop \in {"none", "loaded", "running", "over"}
    /\ rates.kind # "broken" /\ told.kind # "broken"
    /\ \A r \in reloads : r.at \in {"read", "store", "tell"} /\ r.content.kind # "broken"

\* Nothing is watched and no reload runs before the loop does.
BeforeLoop ==
    /\ watched => loop = "running"
    /\ loop \in {"none", "loaded"} => events = 0 /\ ~timer /\ reloads = {}

\* A reload is alone unless it is known to be crossed.
AloneUnlessCrossed == ~crossed => \A r, q \in reloads : r = q

\* Unless an event, the timer or a reload that has yet to read will bring it,
\* what the file says is stored and told, or held by the one reload under way.
FileArrives ==
    loop \in {"loaded", "running"} /\ events = 0 /\ ~timer /\ ~unseen /\ ~crossed
            /\ file.kind # "broken" =>
        \/ \E r \in reloads : r.at = "read"
        \/ \E r \in reloads : r.at = "store" /\ r.content = file
        \/ \E r \in reloads : r.at = "tell" /\ r.content = file /\ rates = file
        \/ reloads = {} /\ rates = file /\ told = file

ConfigInv == ConfigTyped /\ BeforeLoop /\ AloneUnlessCrossed /\ FileArrives

\* The file changes: somebody is told, or it is known that nobody was.
LEMMA ConfigSave ==
    ASSUME ConfigInv, R!SaveBegins \/ R!SaveEnds \/ R!SaveSwaps
    PROVE  ConfigInv'
<1> USE DEF ConfigInv, R!SaveBegins, R!SaveEnds, R!SaveSwaps, R!Notify
<1>1. ConfigTyped' BY DEF ConfigTyped
<1>2. BeforeLoop' BY DEF BeforeLoop
<1>3. AloneUnlessCrossed' BY DEF AloneUnlessCrossed
<1>4. FileArrives' BY DEF ConfigTyped, FileArrives
<1> QED BY <1>1, <1>2, <1>3, <1>4

\* A reload moves on: of several the file's fate is unknown, one alone brings
\* what it read.
LEMMA ConfigReloads ==
    ASSUME ConfigInv, R!Read \/ R!Store \/ R!Tell
    PROVE  ConfigInv'
<1> USE DEF ConfigInv, R!Moves
<1>1. PICK r \in reloads : \/ r.at = "read" /\ R!ReadRates(r) /\ R!Read
                           \/ r.at = "store" /\ rates' = r.content /\ R!Store
                              /\ R!Moves(r, "tell", r.content)
                           \/ r.at = "tell" /\ told' = r.content /\ R!Tell
                              /\ reloads' = reloads \ {r}
  BY DEF R!Read, R!Store, R!Tell
<1>2. UNCHANGED <<file, saving, watched, events, timer, loop, crossed>>
  BY DEF R!Read, R!Store, R!Tell
<1>3. ASSUME NEW q \in reloads', q \notin reloads
      PROVE  q.at \in {"store", "tell"} /\ q.content.kind # "broken"
  BY <1>1, <1>3 DEF R!ReadRates, R!Reload, ConfigTyped
<1>4. ConfigTyped' BY <1>1, <1>2, <1>3 DEF ConfigTyped, R!Read, R!Store, R!Tell
<1>5. BeforeLoop' BY <1>1, <1>2 DEF BeforeLoop
<1>6. AloneUnlessCrossed' BY <1>1, <1>2 DEF AloneUnlessCrossed, R!ReadRates
<1>7. FileArrives'
  <2> SUFFICES ASSUME loop \in {"loaded", "running"}, events = 0, ~timer, ~unseen', ~crossed,
                      file.kind # "broken"
               PROVE  FileArrives'
    BY <1>2 DEF FileArrives
  <2>1. reloads = {r} BY <1>1, <1>2 DEF AloneUnlessCrossed
  <2>2. CASE r.at = "read"
    <3>1. reloads' = {R!Reload(r.id, "store", file)}
      BY <1>1, <2>1, <2>2 DEF R!ReadRates
    <3>2. \E q \in reloads' : q.at = "store" /\ q.content = file
      BY <3>1 DEF R!Reload
    <3> QED BY <3>2, <1>2 DEF FileArrives
  <2>3. CASE r.at = "store"
    <3>1. reloads' = {R!Reload(r.id, "tell", r.content)} /\ rates' = r.content /\ ~unseen
      BY <1>1, <2>1, <2>3 DEF R!Store
    <3>2. r.content = file BY <2>1, <2>3, <3>1 DEF FileArrives
    <3>3. \E q \in reloads' : q.at = "tell" /\ q.content = file /\ rates' = file
      BY <3>1, <3>2 DEF R!Reload
    <3> QED BY <3>3, <1>2 DEF FileArrives
  <2>4. CASE r.at = "tell" BY <1>1, <2>1, <2>4, <1>2 DEF R!Tell, FileArrives
  <2> QED BY <1>1, <2>2, <2>3, <2>4
<1> QED BY <1>4, <1>5, <1>6, <1>7

LEMMA ConfigStep ==
    ASSUME ConfigInv, R!Next
    PROVE  ConfigInv'
<1>1. CASE R!LoadRates
  <2> USE <1>1 DEF ConfigInv, R!LoadRates, R!Zero, R!Content
  <2>1. ConfigTyped' BY DEF ConfigTyped
  <2>2. BeforeLoop' BY DEF BeforeLoop
  <2>3. AloneUnlessCrossed' BY DEF AloneUnlessCrossed
  <2>4. FileArrives' BY DEF FileArrives, BeforeLoop
  <2> QED BY <2>1, <2>2, <2>3, <2>4
<1>2. CASE R!WatchRates
  <2> USE <1>2 DEF ConfigInv, R!WatchRates
  <2>1. ConfigTyped' BY DEF ConfigTyped
  <2>2. BeforeLoop' BY DEF BeforeLoop
  <2>3. AloneUnlessCrossed' BY DEF AloneUnlessCrossed
  <2>4. FileArrives' BY DEF FileArrives
  <2> QED BY <2>1, <2>2, <2>3, <2>4
<1>3. CASE R!SaveBegins \/ R!SaveEnds \/ R!SaveSwaps BY <1>3, ConfigSave
<1>4. CASE R!TakeEvent
  <2> USE <1>4 DEF ConfigInv, R!TakeEvent
  <2>1. ConfigTyped' BY DEF ConfigTyped
  <2>2. BeforeLoop' BY DEF BeforeLoop
  <2>3. AloneUnlessCrossed' BY DEF AloneUnlessCrossed
  <2>4. FileArrives' BY DEF FileArrives
  <2> QED BY <2>1, <2>2, <2>3, <2>4
<1>5. CASE R!TimerFires
  <2> USE <1>5 DEF ConfigInv, R!TimerFires
  <2> DEFINE q == R!Reload(R!FreeId, "read", R!Zero)
  <2>1. q.at = "read" /\ q.content.kind # "broken" BY DEF R!Reload, R!Zero, R!Content
  <2>2. reloads' = reloads \cup {q} OBVIOUS
  <2> HIDE DEF q
  <2>3. ConfigTyped' BY <2>1, <2>2 DEF ConfigTyped
  <2>4. BeforeLoop' BY DEF BeforeLoop
  <2>5. AloneUnlessCrossed' BY <2>2 DEF AloneUnlessCrossed
  <2>6. FileArrives' BY <2>1, <2>2 DEF FileArrives
  <2> QED BY <2>3, <2>4, <2>5, <2>6
<1>6. CASE R!Read \/ R!Store \/ R!Tell BY <1>6, ConfigReloads
<1>7. CASE R!Close
  <2> USE <1>7 DEF ConfigInv, R!Close
  <2>1. ConfigTyped' BY DEF ConfigTyped
  <2>2. BeforeLoop' BY DEF BeforeLoop
  <2>3. AloneUnlessCrossed' BY DEF AloneUnlessCrossed
  <2>4. FileArrives' BY DEF FileArrives
  <2> QED BY <2>1, <2>2, <2>3, <2>4
<1> QED BY <1>1, <1>2, <1>3, <1>4, <1>5, <1>6, <1>7 DEF R!Next

LEMMA ConfigInvariant == Spec => [](part = "config" => ConfigInv)
<1>1. Init => (part = "config" => ConfigInv)
  BY DEF Init, R!Init, R!Zero, R!Content, ConfigInv, ConfigTyped, BeforeLoop, AloneUnlessCrossed,
         FileArrives
<1>2. (part = "config" => ConfigInv) /\ [Next]_all => (part = "config" => ConfigInv)'
  <2> SUFFICES ASSUME part = "config", ConfigInv, [Next]_all PROVE ConfigInv'
    BY PartOfStep
  <2>1. CASE R!Next BY <2>1, ConfigStep
  <2>2. CASE UNCHANGED config
    BY <2>2 DEF config, ConfigInv, ConfigTyped, BeforeLoop, AloneUnlessCrossed, FileArrives
  <2> QED BY <2>1, <2>2, PartOfStep
<1> QED BY <1>1, <1>2, PTL DEF Spec

\* A reload never takes the rates away for a file that does not parse, and once
\* nothing is under way the cache and the subscribers have what the file says,
\* but for the changes nobody was told of and the reloads that crossed: those
\* are the only ways to a stale cache, however saves, events, the timer, reloads
\* and Close interleave.
THEOREM ConfigRatesSound == Spec => []RatesSound
<1>1. (part = "config" => ConfigInv) => RatesSound
  BY DEF RatesSound, R!Fresh, R!Quiet, R!NeverBroken, ConfigInv, ConfigTyped, FileArrives
<1> QED BY <1>1, ConfigInvariant, PTL

-----------------------------------------------------------------------------
(* Synth.                                                                  *)

\* An order can be undone, and one order put after another is an order.
LEMMA OrderUndone ==
    ASSUME NEW n \in Nat, NEW p \in S!Orders(n)
    PROVE  \E u \in S!Orders(n) : \A k \in 1..n : u[p[k]] = k /\ p[u[k]] = k
<1>1. p \in [1..n -> 1..n] /\ (\A i \in 1..n : \E k \in 1..n : p[k] = i)
      /\ (\A i, k \in 1..n : p[i] = p[k] => i = k)
  BY DEF S!Orders
<1>2. PICK u : u = [i \in 1..n |-> CHOOSE k \in 1..n : p[k] = i] OBVIOUS
<1>3. ASSUME NEW i \in 1..n PROVE u[i] \in 1..n /\ p[u[i]] = i BY <1>1, <1>2
<1>4. \A k \in 1..n : p[k] \in 1..n /\ u[p[k]] = k BY <1>1, <1>3
<1>5. u \in [1..n -> 1..n] BY <1>2, <1>3
<1>6. u \in S!Orders(n) BY <1>4, <1>3, <1>5 DEF S!Orders
<1> QED BY <1>3, <1>4, <1>6

LEMMA OrderAfterOrder ==
    ASSUME NEW n \in Nat, NEW p \in S!Orders(n), NEW q \in S!Orders(n)
    PROVE  \E r \in S!Orders(n) : \A k \in 1..n : r[k] = q[p[k]]
<1>1. /\ p \in [1..n -> 1..n] /\ (\A i \in 1..n : \E k \in 1..n : p[k] = i)
      /\ \A i, k \in 1..n : p[i] = p[k] => i = k
  BY DEF S!Orders
<1>2. /\ q \in [1..n -> 1..n] /\ (\A i \in 1..n : \E k \in 1..n : q[k] = i)
      /\ \A i, k \in 1..n : q[i] = q[k] => i = k
  BY DEF S!Orders
<1>3. PICK r : r = [k \in 1..n |-> q[p[k]]] OBVIOUS
<1>4. r \in [1..n -> 1..n] /\ \A k \in 1..n : r[k] = q[p[k]] /\ p[k] \in 1..n
  BY <1>1, <1>2, <1>3
<1>5. ASSUME NEW i \in 1..n, NEW k \in 1..n, r[i] = r[k] PROVE i = k
  <2>1. p[i] \in 1..n /\ p[k] \in 1..n /\ q[p[i]] = q[p[k]] BY <1>4, <1>5
  <2>2. p[i] = p[k] BY <1>2, <2>1
  <2> QED BY <1>1, <2>2
<1>6. ASSUME NEW i \in 1..n PROVE \E k \in 1..n : r[k] = i
  <2>1. PICK j \in 1..n : q[j] = i BY <1>2
  <2>2. PICK k \in 1..n : p[k] = j BY <1>1
  <2> QED BY <1>4, <2>1, <2>2
<1>7. r \in S!Orders(n) BY <1>4, <1>5, <1>6 DEF S!Orders
<1> QED BY <1>4, <1>7

\* Two sequences of keys that rise and are one another's in another order are the
\* same: were f less than g somewhere, the places up to there would all go to
\* places before it.
LEMMA SortedNotLess ==
    ASSUME NEW n \in Nat, NEW f \in [1..n -> Int], NEW g \in [1..n -> Int],
           NEW r \in S!Orders(n), \A k \in 1..n : f[k] = g[r[k]],
           \A i, k \in 1..n : i < k => f[i] <= f[k],
           \A i, k \in 1..n : i < k => g[i] <= g[k]
    PROVE  \A k \in 1..n : f[k] >= g[k]
<1> SUFFICES ASSUME NEW k \in 1..n, ~(f[k] >= g[k]) PROVE FALSE OBVIOUS
<1>1. /\ r \in [1..n -> 1..n] /\ (\A i, j \in 1..n : r[i] = r[j] => i = j)
      /\ f[k] < g[k] /\ k \in Nat /\ k >= 1 /\ 1..k \subseteq 1..n
  <2>1. r \in [1..n -> 1..n] /\ (\A i, j \in 1..n : r[i] = r[j] => i = j)
    BY DEF S!Orders
  <2>2. k \in Nat /\ k >= 1 /\ f[k] \in Int /\ g[k] \in Int OBVIOUS
  <2> QED BY <2>1, <2>2
<1>2. ASSUME NEW i \in 1..k PROVE r[i] \in 1..k - 1
  <2>1. i \in 1..n /\ r[i] \in 1..n /\ f[i] \in Int /\ f[k] \in Int /\ g[k] \in Int /\ g[r[i]] \in Int
    BY <1>1
  <2>2. f[i] <= f[k] BY <2>1
  <2>3. f[i] = g[r[i]] BY <2>1
  <2>4. g[r[i]] < g[k] BY <1>1, <2>1, <2>2, <2>3
  <2>5. ~(k < r[i]) /\ k # r[i] BY <2>1, <2>4
  <2> QED BY <1>1, <2>1, <2>5
<1>3. PICK h : h = [i \in 1..k |-> r[i]] OBVIOUS
<1>4. h \in [1..k -> 1..k - 1] BY <1>2, <1>3
<1>5. IsFiniteSet(1..k) /\ IsFiniteSet(1..k - 1) /\ Cardinality(1..k) = k /\ Cardinality(1..k - 1) = k - 1
  <2>1. 1 \in Int /\ k \in Int /\ k - 1 \in Int /\ ~(1 > k) /\ k - 1 + 1 = k BY <1>1
  <2>2. IsFiniteSet(1..k) /\ Cardinality(1..k) = k BY <2>1, FS_Interval
  <2>3. IsFiniteSet(1..k - 1) /\ Cardinality(1..k - 1) = IF 1 > k - 1 THEN 0 ELSE k - 1 - 1 + 1
    BY <2>1, FS_Interval
  <2> QED BY <1>1, <2>2, <2>3
<1>6. \E i, j \in 1..k : i # j /\ h[i] = h[j]
  <2>1. Cardinality(1..k - 1) < Cardinality(1..k) BY <1>1, <1>5
  <2>2. PICK places, fewer : places = 1..k /\ fewer = 1..k - 1 OBVIOUS
  <2>3. /\ IsFiniteSet(places) /\ IsFiniteSet(fewer) /\ Cardinality(fewer) < Cardinality(places)
        /\ h \in [places -> fewer]
    BY <1>4, <1>5, <2>1, <2>2
  <2>4. \E i, j \in places : i # j /\ h[i] = h[j] BY <2>3, FS_PigeonHole
  <2> QED BY <2>2, <2>4
<1> QED BY <1>1, <1>3, <1>6

LEMMA SortedAgree ==
    ASSUME NEW n \in Nat, NEW f \in [1..n -> Int], NEW g \in [1..n -> Int],
           NEW r \in S!Orders(n), \A k \in 1..n : f[k] = g[r[k]],
           \A i, k \in 1..n : i < k => f[i] <= f[k],
           \A i, k \in 1..n : i < k => g[i] <= g[k]
    PROVE  \A k \in 1..n : f[k] = g[k]
<1>1. \A k \in 1..n : f[k] >= g[k] BY SortedNotLess
<1>2. PICK u \in S!Orders(n) : \A k \in 1..n : r[u[k]] = k BY OrderUndone
<1>3. u \in [1..n -> 1..n] BY DEF S!Orders
<1>4. \A k \in 1..n : g[k] = f[u[k]] BY <1>2, <1>3
<1>5. \A k \in 1..n : g[k] >= f[k] BY <1>4, SortedNotLess
<1> QED BY <1>1, <1>5

\* The texts of the numbers, each number's its own.
TextsTyped == textOrder \in [Numbers -> Int] /\ \A m, n \in Numbers : m # n => textOrder[m] # textOrder[n]

\* A result, and what sorting makes of it.
LEMMA ResultRows ==
    ASSUME NEW a \in S!Results
    PROVE  Len(a) \in Nat /\ a \in [1..Len(a) -> S!Values]
<1>1. PICK n \in 0..MaxRows : a \in [1..n -> S!Values] BY DEF S!Results
<1>2. n \in Nat BY SynthAssumption
<1>3. a \in Seq(S!Values) /\ Len(a) = n BY <1>1, <1>2
<1> QED BY <1>1, <1>2, <1>3

LEMMA SortedRows ==
    ASSUME NEW a \in S!Results, NEW s \in S!SortRows(a)
    PROVE  /\ s \in [1..Len(a) -> S!Values] /\ Len(s) = Len(a)
           /\ \E p \in S!Orders(Len(a)) : \A k \in 1..Len(a) : s[k] = a[p[k]]
           /\ \A i, k \in 1..Len(a) : i < k => S!RowKey(s[i]) <= S!RowKey(s[k])
<1>1. PICK n \in Nat : n = Len(a) /\ a \in [1..n -> S!Values] BY ResultRows
<1>2. PICK p \in S!Orders(n) : /\ \A i, k \in 1..n : i < k => S!RowKey(a[p[i]]) <= S!RowKey(a[p[k]])
                              /\ s = [k \in 1..n |-> a[p[k]]]
  BY <1>1 DEF S!SortRows
<1>3. p \in [1..n -> 1..n] BY DEF S!Orders
<1>4. s \in [1..n -> S!Values] /\ \A k \in 1..n : s[k] = a[p[k]] BY <1>1, <1>2, <1>3
<1>5. s \in Seq(S!Values) /\ Len(s) = n BY <1>4
<1> QED BY <1>1, <1>2, <1>4, <1>5

\* No difference is counted if and only if there is none.
LEMMA DifferencesCount ==
    ASSUME NEW s, NEW t, NEW n \in Nat
    PROVE  /\ S!DiffCount(s, t, n) \in Nat
           /\ S!DiffCount(s, t, n) = 0 <=> S!Differing(s, t, n) = {}
<1>1. PICK places : places = S!Differing(s, t, n) OBVIOUS
<1>2. places \subseteq 1..n BY <1>1 DEF S!Differing
<1>3. IsFiniteSet(places)
  <2>1. IsFiniteSet(1..n) BY FS_Interval
  <2> QED BY <1>2, <2>1, FS_Subset
<1>4. Cardinality(places) \in Nat /\ (Cardinality(places) = 0 <=> places = {})
  BY <1>3, FS_CardinalityType, FS_EmptySet
<1>5. S!Cardinality(places) = Cardinality(places) BY DEF S!Cardinality, Cardinality
<1> QED BY <1>1, <1>4, <1>5, SynthAssumption DEF S!DiffCount

\* A comparison that finds nothing has paired all rows; one of the same rows, no
\* two of them with one text, finds nothing.
LEMMA ComparisonRight ==
    ASSUME TextsTyped, NEW a \in S!Results, NEW b \in S!Results, NEW count \in S!CompareOutputs(a, b)
    PROVE  count \in Nat /\ (count = 0 => S!SameRows(a, b)) /\ (S!Permuted(a, b) => count = 0)
<1>1. PICK s \in S!SortRows(a), t \in S!SortRows(b) : count = S!DiffCount(s, t, S!Longer(s, t))
  BY DEF S!CompareOutputs
<1>2. PICK n \in Nat : n = Len(a) /\ a \in [1..n -> S!Values] BY ResultRows
<1>3. PICK m \in Nat : m = Len(b) /\ b \in [1..m -> S!Values] BY ResultRows
<1>4. /\ s \in [1..n -> S!Values] /\ Len(s) = n
      /\ \A i, k \in 1..n : i < k => S!RowKey(s[i]) <= S!RowKey(s[k])
  BY <1>1, <1>2, SortedRows
<1>5. /\ t \in [1..m -> S!Values] /\ Len(t) = m
      /\ \A i, k \in 1..m : i < k => S!RowKey(t[i]) <= S!RowKey(t[k])
  BY <1>1, <1>3, SortedRows
<1>6. PICK p \in S!Orders(n) : \A k \in 1..n : s[k] = a[p[k]]
  BY <1>1, <1>2, SortedRows
<1>7. PICK q \in S!Orders(m) : \A k \in 1..m : t[k] = b[q[k]]
  BY <1>1, <1>3, SortedRows
<1>8. PICK most \in Nat : most = S!Longer(s, t) /\ n <= most /\ m <= most /\ (n = m => most = n)
  BY <1>4, <1>5 DEF S!Longer
<1>9. count \in Nat /\ (count = 0 <=> S!Differing(s, t, most) = {})
  BY <1>1, <1>8, DifferencesCount
<1>10. p \in [1..n -> 1..n] /\ q \in [1..m -> 1..m] BY DEF S!Orders
<1>11. ASSUME count = 0 PROVE S!SameRows(a, b)
  <2>1. ASSUME NEW i \in 1..most PROVE i <= n /\ i <= m /\ S!NormalizeValue(s[i], t[i])
    BY <1>9, <1>11, <1>4, <1>5 DEF S!Differing
  <2>2. n = m BY <1>8, <2>1
  <2>3. PICK u \in S!Orders(n) : \A k \in 1..n : p[u[k]] = k BY OrderUndone
  <2>4. PICK match \in S!Orders(n) : \A i \in 1..n : match[i] = q[u[i]]
    BY <2>2, <2>3, OrderAfterOrder
  <2>5. u \in [1..n -> 1..n] BY DEF S!Orders
  <2>6. ASSUME NEW i \in 1..n PROVE S!NormalizeValue(a[i], b[match[i]])
    BY <1>8, <2>5, <1>6, <1>7, <2>2, <2>3, <2>4, <2>1
  <2> QED BY <1>2, <1>3, <2>2, <2>6 DEF S!SameRows
<1>12. ASSUME S!Permuted(a, b) PROVE count = 0
  <2>1. n = m /\ most = n /\ \A v, w \in S!Range(a) : v.num = w.num => v = w
    BY <1>2, <1>3, <1>8, <1>12 DEF S!Permuted
  <2>2. PICK match \in S!Orders(n) : \A i \in 1..n : a[i] = b[match[i]]
    BY <1>2, <1>12 DEF S!Permuted
  <2>3. PICK u \in S!Orders(n) : \A k \in 1..n : u[q[k]] = k /\ q[u[k]] = k
    BY <2>1, OrderUndone
  <2>4. PICK mp \in S!Orders(n) : \A k \in 1..n : mp[k] = match[p[k]]
    BY OrderAfterOrder
  <2>5. PICK r \in S!Orders(n) : \A k \in 1..n : r[k] = u[mp[k]] BY OrderAfterOrder
  <2>6. /\ match \in [1..n -> 1..n] /\ u \in [1..n -> 1..n] /\ mp \in [1..n -> 1..n] /\ r \in [1..n -> 1..n]
        /\ \A i \in 1..n : \E k \in 1..n : match[k] = i
    BY DEF S!Orders
  <2>7. \A k \in 1..n : s[k] = t[r[k]]
    <3> SUFFICES ASSUME NEW k \in 1..n PROVE s[k] = t[r[k]] OBVIOUS
    <3>1. p[k] \in 1..n /\ match[p[k]] \in 1..n /\ r[k] \in 1..n BY <1>10, <2>6
    <3>2. s[k] = b[match[p[k]]] BY <1>6, <2>2, <3>1
    <3>3. q[r[k]] = match[p[k]] BY <2>3, <2>4, <2>5, <3>1
    <3>4. t[r[k]] = b[q[r[k]]] BY <1>7, <2>1, <3>1
    <3> QED BY <3>2, <3>3, <3>4
  <2>8. PICK f, g : f = [k \in 1..n |-> S!RowKey(s[k])] /\ g = [k \in 1..n |-> S!RowKey(t[k])]
    OBVIOUS
  <2>9. \A v \in S!Values : v.num \in Numbers /\ v.num \in Int /\ S!RowKey(v) \in Int /\ S!RowKey(v) = textOrder[v.num]
    BY SynthAssumption DEF TextsTyped, S!Values, S!RowKey
  <2>10. f \in [1..n -> Int] /\ g \in [1..n -> Int] BY <1>4, <1>5, <2>1, <2>8, <2>9
  <2>11. \A k \in 1..n : f[k] = g[r[k]] BY <2>6, <2>7, <2>8
  <2>12. /\ \A i, k \in 1..n : i < k => f[i] <= f[k]
         /\ \A i, k \in 1..n : i < k => g[i] <= g[k]
    BY <1>4, <1>5, <2>1, <2>8
  <2>13. \A k \in 1..n : f[k] = g[k] BY <2>10, <2>11, <2>12, SortedAgree
  <2>14. ASSUME NEW k \in 1..n PROVE S!NormalizeValue(s[k], t[k])
    <3>1. s[k] \in S!Values /\ t[k] \in S!Values /\ S!RowKey(s[k]) = S!RowKey(t[k])
      BY <1>4, <1>5, <2>1, <2>8, <2>13
    <3>2. s[k].num = t[k].num BY <2>9, <3>1 DEF TextsTyped
    <3>3. s[k] \in S!Range(a) BY <1>2, <1>6, <1>10 DEF S!Range
    <3>4. PICK i \in 1..n : match[i] = q[k] BY <1>10, <2>1, <2>6
    <3>5. t[k] = a[i] BY <1>7, <2>1, <2>2, <3>4
    <3>6. t[k] \in S!Range(a) BY <1>2, <3>5 DEF S!Range
    <3>7. s[k] = t[k] BY <2>1, <3>2, <3>3, <3>6
    <3>8. t[k].num - t[k].num \in -1..1 BY <2>9, <3>1
    <3> QED BY <3>7, <3>8 DEF S!NormalizeValue
  <2>15. S!Differing(s, t, most) = {} BY <1>4, <1>5, <2>1, <2>14 DEF S!Differing
  <2> QED BY <1>9, <2>15
<1> QED BY <1>9, <1>11, <1>12

\* Nothing was counted unless something was not the same, and whatever was
\* counted was not the same rows; only a report passes, at the end.
SynthInv ==
    /\ TextsTyped /\ diffs \in Nat
    /\ diffs = 0 => allSame
    /\ allPermuted => diffs = 0
    /\ passed => phase = "done" /\ method = "validator" /\ left = 0 /\ diffs = 0

LEMMA SynthStep ==
    ASSUME SynthInv, S!Next
    PROVE  SynthInv'
<1>1. CASE S!Round
  <2>0. PICK a \in S!Results, b \in S!Results :
          /\ \E d \in S!CompareOutputs(a, b) : diffs' = diffs + d
          /\ allSame' = (allSame /\ S!SameRows(a, b))
          /\ allPermuted' = (allPermuted /\ S!Permuted(a, b))
    BY <1>1 DEF S!Round
  <2>1. PICK count \in S!CompareOutputs(a, b) : diffs' = diffs + count BY <2>0
  <2>2. phase = "rounds" /\ UNCHANGED <<phase, textOrder, passed>>
    BY <1>1 DEF S!Round
  <2>3. TextsTyped /\ TextsTyped' /\ ~passed' BY <2>2 DEF SynthInv, TextsTyped
  <2>4. count \in Nat /\ (count = 0 => S!SameRows(a, b)) /\ (S!Permuted(a, b) => count = 0)
    BY <2>3, ComparisonRight
  <2>5. diffs \in Nat /\ (diffs = 0 => allSame) /\ (allPermuted => diffs = 0)
    BY DEF SynthInv
  <2>6. diffs' \in Nat /\ (diffs' = 0 => diffs = 0 /\ count = 0) /\ (diffs = 0 /\ count = 0 => diffs' = 0)
    BY <2>1, <2>4, <2>5
  <2> QED BY <2>0, <2>3, <2>4, <2>5, <2>6 DEF SynthInv
<1>2. CASE S!Fails \/ S!Read \/ S!Convert \/ S!RunnerFails \/ S!Report
  <2>1. UNCHANGED <<textOrder, diffs, allSame, allPermuted, left>>
    BY <1>2 DEF S!Fails, S!Read, S!Convert, S!RunnerFails, S!Report, S!Rest
  <2>2. passed' => phase' = "done" /\ method' = "validator" /\ left' = 0 /\ diffs' = 0
    BY <1>2, <2>1 DEF S!Fails, S!Read, S!Convert, S!RunnerFails, S!Report, SynthInv
  <2> QED BY <2>1, <2>2 DEF SynthInv, TextsTyped
<1> QED BY <1>1, <1>2 DEF S!Next

LEMMA SynthInvariant == Spec => [](part = "synth" => SynthInv)
<1>1. Init => (part = "synth" => SynthInv)
  <2> SUFFICES ASSUME part = "synth", S!Init PROVE SynthInv BY DEF Init
  <2>1. S!Cardinality(Numbers) = Cardinality(Numbers)
    BY DEF S!Cardinality, Cardinality
  <2>2. Cardinality(Numbers) \in Nat BY SynthAssumption, FS_CardinalityType
  <2>3. TextsTyped BY <2>1, <2>2 DEF S!Init, TextsTyped
  <2> QED BY <2>3 DEF S!Init, SynthInv
<1>2. (part = "synth" => SynthInv) /\ [Next]_all => (part = "synth" => SynthInv)'
  <2> SUFFICES ASSUME part = "synth", SynthInv, [Next]_all PROVE SynthInv'
    BY PartOfStep
  <2>1. CASE S!Next BY <2>1, SynthStep
  <2>2. CASE UNCHANGED synth BY <2>2 DEF synth, SynthInv, TextsTyped
  <2> QED BY <2>1, <2>2, PartOfStep
<1> QED BY <1>1, <1>2, PTL DEF Spec

\* Evidence that says passed is right, whatever the two sides return in however
\* many rounds and however sort.Slice orders rows of one text (Synth, Validate,
\* CompareOutputs): each pair of results can be matched row by row; and the same
\* rows in another order are never reported as a difference.
THEOREM SynthEvidenceSound == Spec => []EvidenceSound
<1>1. (part = "synth" => SynthInv) => EvidenceSound
  BY DEF EvidenceSound, S!PassedMeansSame, S!OrderIgnored, SynthInv
<1> QED BY <1>1, SynthInvariant, PTL

-----------------------------------------------------------------------------
(* Admin.                                                                  *)

Full == Burst * Cost
Bucket == [debt : 0..Full, idle : 0..(EvictAfter + 1)]
Token == [sub : Users \cup {""}, role : A!Roles \cup {""}, left : Nat]

AdminTyped ==
    /\ store \in {"off", "pg", "mem"} /\ changes \in 0..MaxChanges
    /\ users \in [Users -> [role : A!Roles, disabled : BOOLEAN]]

BucketsTyped ==
    /\ buckets \in [A!Keys -> Bucket \cup {A!NoBucket}]
    /\ paid \in [A!Keys -> Nat]

TokensTyped ==
    /\ tokens \in [Clients -> Token] /\ pending \in [Clients -> Token]
    /\ since \in [Users -> [A!Routes -> 0..A!Forget]]
    /\ \A c \in Clients : /\ tokens[c].left <= TTL /\ pending[c].left <= MaxHold
                          /\ tokens[c].left > 0 => tokens[c].sub \in Users
                          /\ pending[c] # A!None => pending[c].sub \in Users

\* A bucket's debt covers what its key owes, and each idle tick took one off
\* what it can be, so an evicted bucket owes nothing.
DebtsPaid ==
    \A k \in A!Keys :
        IF buckets[k] = A!NoBucket THEN paid[k] = 0
        ELSE /\ paid[k] <= buckets[k].debt
             /\ buckets[k].debt = 0 \/ buckets[k].debt + buckets[k].idle <= Full

\* A right that is held now is held since no tick.
HeldNow == \A u \in Users, r \in A!Routes : A!Holds(store, users, u, r) => since[u][r] = 0

\* How long ago the right a login in progress or a token carries was held.
RightsAge ==
    /\ \A c \in Clients, r \in A!Routes : pending[c] # A!None /\ pending[c].role \in A!Allowed(r)
            => since[pending[c].sub][r] <= pending[c].left
    /\ \A c \in Clients, r \in A!Routes : tokens[c].left > 0 /\ tokens[c].role \in A!Allowed(r)
            => since[tokens[c].sub][r] + tokens[c].left <= TTL + MaxHold

\* The right behind the last answer.
AnswerEarned ==
    last.status \in {200, 202} /\ last.route \in A!Routes
        => last.sub \in Users /\ since[last.sub][last.route] <= TTL + MaxHold

AdminInv == /\ AdminTyped /\ BucketsTyped /\ TokensTyped
            /\ DebtsPaid /\ HeldNow /\ RightsAge /\ AnswerEarned

LEMMA AdminFull == Full \in Nat /\ Cost \in Nat /\ Full <= EvictAfter + 1 /\ EvictAfter \in Nat
                   /\ TTL \in Nat /\ MaxHold \in Nat /\ MaxChanges \in Nat
BY AdminAssumption DEF Full

\* Every client's key is one of the limiter's.
LEMMA AdminKeys ==
    ASSUME NEW c \in Clients
    PROVE  <<"login", [d \in Clients |-> CHOOSE ip \in Ips : TRUE][c]>> \in A!Keys
           /\ A!ApiKey(c) \in A!Keys
BY AdminAssumption DEF A!Keys, A!ApiKey

\* A request charges its key's bucket, and the debt of the key, alike.
LEMMA AdminAllow ==
    ASSUME BucketsTyped, DebtsPaid, NEW k \in A!Keys, A!Allow(k)
    PROVE  BucketsTyped' /\ DebtsPaid'
<1> USE AdminFull
<1> DEFINE new == [debt |-> buckets[k].debt + A!Charge(k), idle |-> 0]
<1>1. buckets[k].debt \in 0..Full /\ paid[k] \in Nat /\ paid[k] <= buckets[k].debt
  BY DEF BucketsTyped, DebtsPaid, Bucket, A!NoBucket
<1>2. A!Charge(k) \in Nat /\ buckets[k].debt + A!Charge(k) <= Full
  BY <1>1 DEF A!Charge, A!Grants, Full
<1>3. new \in Bucket /\ new.debt = buckets[k].debt + A!Charge(k) /\ new.idle = 0 /\ new # A!NoBucket
  BY <1>1, <1>2 DEF Bucket, A!NoBucket
<1>4. /\ buckets' = [buckets EXCEPT ![k] = new]
      /\ paid' = [paid EXCEPT ![k] = @ + A!Charge(k)]
  BY DEF A!Allow
<1> HIDE DEF new
<1>5. BucketsTyped' BY <1>1, <1>2, <1>3, <1>4 DEF BucketsTyped
<1>6. DebtsPaid'
  <2> SUFFICES ASSUME NEW j \in A!Keys
               PROVE  IF buckets'[j] = A!NoBucket THEN paid'[j] = 0
                      ELSE /\ paid'[j] <= buckets'[j].debt
                           /\ buckets'[j].debt = 0 \/ buckets'[j].debt + buckets'[j].idle <= Full
    BY DEF DebtsPaid
  <2>1. CASE j = k BY <2>1, <1>4, <1>1, <1>2, <1>3 DEF BucketsTyped
  <2>2. CASE j # k BY <2>2, <1>4 DEF BucketsTyped, DebtsPaid
  <2> QED BY <2>1, <2>2
<1> QED BY <1>5, <1>6

\* An idle bucket has drained.
LEMMA AdminGc ==
    ASSUME BucketsTyped, DebtsPaid, A!Gc
    PROVE  BucketsTyped' /\ DebtsPaid'
<1> USE AdminFull
<1>1. buckets' = [k \in A!Keys |-> IF A!Idle(buckets[k]) THEN A!NoBucket ELSE buckets[k]]
      /\ paid' = paid
  BY DEF A!Gc
<1>2. ASSUME NEW k \in A!Keys, A!Idle(buckets[k])
      PROVE  paid[k] = 0
  BY <1>2 DEF A!Idle, A!NoBucket, BucketsTyped, DebtsPaid, Bucket
<1>3. BucketsTyped' BY <1>1 DEF BucketsTyped
<1>4. DebtsPaid' BY <1>1, <1>2 DEF DebtsPaid
<1> QED BY <1>3, <1>4

\* A tick takes one off every debt.
LEMMA AdminTickBuckets ==
    ASSUME BucketsTyped, DebtsPaid, A!Tick
    PROVE  BucketsTyped' /\ DebtsPaid'
<1> USE AdminFull
<1> DEFINE new(b) == [debt |-> A!Less(b.debt), idle |-> A!Upto(b.idle, EvictAfter + 1)]
<1>1. /\ buckets' = [k \in A!Keys |-> IF buckets[k] = A!NoBucket THEN A!NoBucket ELSE new(buckets[k])]
      /\ paid' = [k \in A!Keys |-> A!Less(paid[k])]
  BY DEF A!Tick
<1>2. \A b \in Bucket : /\ new(b) \in Bucket /\ new(b) # A!NoBucket
                        /\ new(b).debt = (IF b.debt = 0 THEN 0 ELSE b.debt - 1)
                        /\ new(b).idle <= b.idle + 1
  <2> SUFFICES ASSUME NEW b \in Bucket
               PROVE  /\ new(b) \in Bucket /\ new(b) # A!NoBucket
                      /\ new(b).debt = (IF b.debt = 0 THEN 0 ELSE b.debt - 1)
                      /\ new(b).idle <= b.idle + 1
    OBVIOUS
  <2>1. b.debt \in 0..Full /\ b.idle \in 0..(EvictAfter + 1) BY DEF Bucket
  <2>2. A!Less(b.debt) = (IF b.debt = 0 THEN 0 ELSE b.debt - 1) /\ A!Less(b.debt) \in 0..Full
    BY <2>1 DEF A!Less
  <2>3. A!Upto(b.idle, EvictAfter + 1) \in 0..(EvictAfter + 1)
        /\ A!Upto(b.idle, EvictAfter + 1) <= b.idle + 1
    BY <2>1 DEF A!Upto
  <2> QED BY <2>2, <2>3 DEF Bucket, A!NoBucket
<1> HIDE DEF new
<1>3. \A n \in Nat : A!Less(n) \in Nat /\ A!Less(n) = (IF n = 0 THEN 0 ELSE n - 1)
  BY DEF A!Less
<1>4. BucketsTyped' BY <1>1, <1>2, <1>3 DEF BucketsTyped
<1>5. DebtsPaid'
  <2> SUFFICES ASSUME NEW j \in A!Keys
               PROVE  IF buckets'[j] = A!NoBucket THEN paid'[j] = 0
                      ELSE /\ paid'[j] <= buckets'[j].debt
                           /\ buckets'[j].debt = 0 \/ buckets'[j].debt + buckets'[j].idle <= Full
    BY DEF DebtsPaid
  <2>1. paid[j] \in Nat /\ paid'[j] = (IF paid[j] = 0 THEN 0 ELSE paid[j] - 1)
    BY <1>1, <1>3 DEF BucketsTyped
  <2>2. CASE buckets[j] = A!NoBucket BY <2>1, <2>2, <1>1 DEF DebtsPaid
  <2>3. CASE buckets[j] # A!NoBucket
    BY <2>3, <1>1, <1>2, <2>1 DEF BucketsTyped, Bucket, DebtsPaid
  <2> QED BY <2>2, <2>3
<1> QED BY <1>4, <1>5

\* No token, no answer, and a token with another time left.
LEMMA AdminNone ==
    /\ A!None \in Token /\ A!None.left = 0
    /\ A!NoAnswer.status = 0
    /\ \A p \in Token, n \in Nat :
          /\ [p EXCEPT !.left = n] \in Token /\ [p EXCEPT !.left = n].left = n
          /\ [p EXCEPT !.left = n].sub = p.sub /\ [p EXCEPT !.left = n].role = p.role
BY DEF A!None, Token, A!NoAnswer

\* A right that is held is fresh, another ages on.
LEMMA AdminRefresh ==
    ASSUME NEW old \in [Users -> [A!Routes -> 0..A!Forget]], NEW st, NEW tab
    PROVE  /\ A!Refresh(old, st, tab) \in [Users -> [A!Routes -> 0..A!Forget]]
           /\ \A u \in Users, r \in A!Routes :
                 /\ A!Holds(st, tab, u, r) => A!Refresh(old, st, tab)[u][r] = 0
                 /\ A!Refresh(old, st, tab)[u][r] <= old[u][r]
<1> USE AdminFull
<1>1. A!Forget \in Nat BY DEF A!Forget
<1>2. \A u \in Users, r \in A!Routes :
         A!Refresh(old, st, tab)[u][r] = IF A!Holds(st, tab, u, r) THEN 0 ELSE old[u][r]
  BY DEF A!Refresh
<1>3. A!Refresh(old, st, tab) \in [Users -> [A!Routes -> 0..A!Forget]]
  BY <1>1 DEF A!Refresh
<1> QED BY <1>1, <1>2, <1>3

\* What the limiter and its collector leave alone.
RightsTyped == AdminTyped /\ TokensTyped /\ HeldNow /\ RightsAge /\ AnswerEarned

\* A change of the store or of its table: the ages start from what now holds.
LEMMA AdminRefreshed ==
    ASSUME RightsTyped, since' = A!Refresh(since, store', users'),
           UNCHANGED <<pending, tokens, last>>
    PROVE  TokensTyped' /\ HeldNow' /\ RightsAge' /\ AnswerEarned'
<1> USE AdminFull DEF RightsTyped
<1>1. /\ since' \in [Users -> [A!Routes -> 0..A!Forget]]
      /\ \A u \in Users, r \in A!Routes :
            /\ A!Holds(store', users', u, r) => since'[u][r] = 0
            /\ since'[u][r] <= since[u][r]
  BY AdminRefresh DEF TokensTyped
<1>2. \A u \in Users, r \in A!Routes : since[u][r] \in Nat /\ since'[u][r] \in Nat
  BY <1>1 DEF TokensTyped
<1>3. TokensTyped' BY <1>1 DEF TokensTyped
<1>4. HeldNow' BY <1>1 DEF HeldNow
<1>5. RightsAge'
  <2>1. ASSUME NEW c \in Clients, NEW r \in A!Routes, pending[c] # A!None,
               pending[c].role \in A!Allowed(r)
        PROVE  since'[pending[c].sub][r] <= pending[c].left
    <3>1. pending[c].sub \in Users /\ pending[c].left \in Nat BY <2>1 DEF TokensTyped, Token
    <3> QED BY <2>1, <3>1, <1>1, <1>2 DEF RightsAge
  <2>2. ASSUME NEW c \in Clients, NEW r \in A!Routes, tokens[c].left > 0,
               tokens[c].role \in A!Allowed(r)
        PROVE  since'[tokens[c].sub][r] + tokens[c].left <= TTL + MaxHold
    <3>1. tokens[c].sub \in Users /\ tokens[c].left \in Nat BY <2>2 DEF TokensTyped, Token
    <3> QED BY <2>2, <3>1, <1>1, <1>2 DEF RightsAge
  <2> QED BY <2>1, <2>2 DEF RightsAge
<1>6. AnswerEarned' BY <1>1, <1>2 DEF AnswerEarned
<1> QED BY <1>3, <1>4, <1>5, <1>6

LEMMA AdminStart ==
    ASSUME AdminInv, NEW dsn \in BOOLEAN, NEW fallback \in BOOLEAN, NEW secretOK \in BOOLEAN,
           A!Start(dsn, fallback, secretOK)
    PROVE  AdminInv'
<1> USE DEF AdminInv, A!Start
<1>1. AdminTyped' BY DEF AdminTyped
<1>2. BucketsTyped' BY DEF BucketsTyped
<1>3. DebtsPaid' BY DEF DebtsPaid
<1>4. TokensTyped' /\ HeldNow' /\ RightsAge' /\ AnswerEarned'
  BY AdminRefreshed DEF RightsTyped
<1> QED BY <1>1, <1>2, <1>3, <1>4

LEMMA AdminSetUser ==
    ASSUME AdminInv, NEW u \in Users, NEW role \in A!Roles, NEW d \in BOOLEAN,
           A!SetUser(u, role, d)
    PROVE  AdminInv'
<1> USE DEF AdminInv, A!SetUser
<1>1. AdminTyped' BY AdminFull DEF AdminTyped
<1>2. BucketsTyped' BY DEF BucketsTyped
<1>3. DebtsPaid' BY DEF DebtsPaid
<1>4. TokensTyped' /\ HeldNow' /\ RightsAge' /\ AnswerEarned'
  BY AdminRefreshed DEF RightsTyped
<1> QED BY <1>1, <1>2, <1>3, <1>4

LEMMA AdminStop ==
    ASSUME AdminInv, A!Stop
    PROVE  AdminInv'
<1> USE AdminFull DEF AdminInv, A!Stop
<1>1. AdminTyped' BY DEF AdminTyped
<1>2. BucketsTyped' BY DEF BucketsTyped
<1>3. DebtsPaid' BY DEF DebtsPaid
<1>4. TokensTyped' BY AdminNone DEF TokensTyped
<1>5. HeldNow' BY DEF HeldNow, A!Holds, A!Enabled
<1>6. RightsAge' BY DEF RightsAge
<1>7. AnswerEarned' BY AdminNone DEF AnswerEarned
<1> QED BY <1>1, <1>2, <1>3, <1>4, <1>5, <1>6, <1>7

LEMMA AdminTick ==
    ASSUME AdminInv, A!Tick
    PROVE  AdminInv'
<1> USE AdminFull DEF AdminInv
<1> DEFINE older == [u \in Users |-> [r \in A!Routes |-> A!Upto(since[u][r], A!Forget)]]
<1>1. /\ \A c \in Clients : pending[c] # A!None => pending[c].left < MaxHold
      /\ pending' = [c \in Clients |-> IF pending[c] = A!None THEN A!None
                                       ELSE [pending[c] EXCEPT !.left = @ + 1]]
      /\ tokens' = [c \in Clients |-> [tokens[c] EXCEPT !.left = A!Less(@)]]
      /\ since' = A!Refresh(older, store, users)
      /\ last' = A!NoAnswer
      /\ UNCHANGED <<store, users, changes>>
  BY DEF A!Tick
<1>2. A!Forget \in Nat BY DEF A!Forget
<1>3. /\ older \in [Users -> [A!Routes -> 0..A!Forget]]
      /\ \A u \in Users, r \in A!Routes : older[u][r] <= since[u][r] + 1
  BY <1>2 DEF TokensTyped, A!Upto
<1> HIDE DEF older
<1>4. /\ since' \in [Users -> [A!Routes -> 0..A!Forget]]
      /\ \A u \in Users, r \in A!Routes :
            /\ A!Holds(store, users, u, r) => since'[u][r] = 0
            /\ since'[u][r] <= older[u][r]
  BY <1>1, <1>3, AdminRefresh
<1>5. \A u \in Users, r \in A!Routes : since'[u][r] \in Nat /\ since[u][r] \in Nat
                                       /\ since'[u][r] <= since[u][r] + 1
  BY <1>2, <1>3, <1>4 DEF TokensTyped
<1>6. ASSUME NEW c \in Clients
      PROVE  /\ tokens'[c] \in Token /\ tokens'[c].left <= TTL
             /\ tokens'[c].sub = tokens[c].sub /\ tokens'[c].role = tokens[c].role
             /\ tokens[c].left \in Nat /\ tokens'[c].left \in Nat
             /\ tokens'[c].left > 0 => tokens'[c].left = tokens[c].left - 1 /\ tokens[c].left > 0
  <2>1. tokens[c] \in Token /\ tokens[c].left \in Nat /\ tokens[c].left <= TTL
    BY DEF TokensTyped, Token
  <2>2. /\ A!Less(tokens[c].left) \in Nat /\ A!Less(tokens[c].left) <= TTL
        /\ A!Less(tokens[c].left) > 0 => A!Less(tokens[c].left) = tokens[c].left - 1 /\ tokens[c].left > 0
    BY <2>1 DEF A!Less
  <2>3. tokens'[c] = [tokens[c] EXCEPT !.left = A!Less(tokens[c].left)] BY <1>1
  <2> QED BY <2>1, <2>2, <2>3 DEF Token
<1>7. ASSUME NEW c \in Clients, pending[c] # A!None
      PROVE  /\ pending'[c] \in Token /\ pending'[c].left <= MaxHold
             /\ pending'[c].sub = pending[c].sub /\ pending'[c].role = pending[c].role
             /\ pending'[c].left = pending[c].left + 1 /\ pending[c].left \in Nat
  <2>1. pending[c] \in Token /\ pending[c].left \in Nat /\ pending[c].left < MaxHold
    BY <1>1, <1>7 DEF TokensTyped, Token
  <2>2. pending'[c] = [pending[c] EXCEPT !.left = pending[c].left + 1] BY <1>1, <1>7
  <2>3. pending[c].left + 1 \in Nat /\ pending[c].left + 1 <= MaxHold BY <2>1
  <2> QED BY <2>1, <2>2, <2>3, AdminNone
<1>8. \A c \in Clients : pending[c] = A!None => pending'[c] = A!None BY <1>1
<1>9. AdminTyped' BY <1>1 DEF AdminTyped
<1>10. BucketsTyped' /\ DebtsPaid' BY AdminTickBuckets
<1>11. TokensTyped' BY AdminNone, <1>7, <1>8, <1>1, <1>6, <1>4 DEF TokensTyped
<1>12. HeldNow' BY <1>1, <1>4 DEF HeldNow
<1>13. RightsAge'
  <2>1. ASSUME NEW c \in Clients, NEW r \in A!Routes, pending'[c] # A!None,
               pending'[c].role \in A!Allowed(r)
        PROVE  since'[pending'[c].sub][r] <= pending'[c].left
    BY <1>8, <2>1, <1>7, <1>5 DEF TokensTyped, RightsAge
  <2>2. ASSUME NEW c \in Clients, NEW r \in A!Routes, tokens'[c].left > 0,
               tokens'[c].role \in A!Allowed(r)
        PROVE  since'[tokens'[c].sub][r] + tokens'[c].left <= TTL + MaxHold
    BY <2>2, <1>6, <1>5 DEF TokensTyped, RightsAge
  <2> QED BY <2>1, <2>2 DEF RightsAge
<1>14. AnswerEarned' BY <1>1, AdminNone DEF AnswerEarned
<1> QED BY <1>9, <1>10, <1>11, <1>12, <1>13, <1>14

LEMMA AdminSignToken ==
    ASSUME AdminInv, NEW c \in Clients, A!SignToken(c)
    PROVE  AdminInv'
<1> USE AdminFull DEF AdminInv
<1> DEFINE t == [pending[c] EXCEPT !.left = TTL]
<1>1. /\ pending[c] # A!None
      /\ tokens' = [tokens EXCEPT ![c] = t]
      /\ pending' = [pending EXCEPT ![c] = A!None]
      /\ last' = [status |-> 200, sub |-> pending[c].sub, route |-> "login"]
      /\ UNCHANGED <<store, users, buckets, changes, paid, since>>
  BY DEF A!SignToken, A!Answer
<1>2. pending[c] \in Token /\ pending[c].sub \in Users /\ pending[c].left \in 0..MaxHold
  <2>1. pending[c] \in Token /\ pending[c].sub \in Users /\ pending[c].left <= MaxHold
    BY <1>1 DEF TokensTyped
  <2>2. pending[c].left \in Nat BY <2>1 DEF Token
  <2> HIDE DEF AdminInv
  <2> QED BY <2>1, <2>2
<1>3. t \in Token /\ t.left = TTL /\ t.sub = pending[c].sub /\ t.role = pending[c].role
  BY <1>2 DEF Token
<1> HIDE DEF t
<1>4. AdminTyped' BY <1>1 DEF AdminTyped
<1>5. BucketsTyped' /\ DebtsPaid' BY <1>1 DEF BucketsTyped, DebtsPaid
<1>6. TokensTyped' BY AdminNone, <1>1, <1>3, <1>2 DEF TokensTyped
<1>7. HeldNow' BY <1>1 DEF HeldNow
<1>8. RightsAge'
  <2>1. \A r \in A!Routes : t.role \in A!Allowed(r) => since[t.sub][r] + t.left <= TTL + MaxHold
    <3> SUFFICES ASSUME NEW r \in A!Routes, t.role \in A!Allowed(r)
                 PROVE  since[t.sub][r] + t.left <= TTL + MaxHold
      OBVIOUS
    <3>1. since[t.sub][r] <= pending[c].left BY <1>1, <1>3 DEF RightsAge
    <3>2. since[t.sub][r] \in 0..A!Forget BY <1>2, <1>3 DEF TokensTyped
    <3> QED BY <3>1, <3>2, <1>2, <1>3
  <2>2. \A d \in Clients : /\ tokens'[d] = IF d = c THEN t ELSE tokens[d]
                           /\ pending'[d] = IF d = c THEN A!None ELSE pending[d]
    BY <1>1 DEF TokensTyped
  <2> QED BY <2>1, <2>2, <1>1 DEF RightsAge
<1>9. AnswerEarned' BY <1>1 DEF AnswerEarned, A!Routes
<1> QED BY <1>4, <1>5, <1>6, <1>7, <1>8, <1>9

LEMMA AdminLoginVerified ==
    ASSUME AdminInv, NEW c \in Clients, NEW u \in Users, A!LoginVerified(c, u)
    PROVE  AdminInv'
<1> USE AdminFull DEF AdminInv
<1> DEFINE p == [sub |-> u, left |-> 0, role |-> A!RoleIn(store, users, u)]
<1>1. /\ pending[c] = A!None /\ A!Enabled(store, users, u)
      /\ A!Allow(<<"login", [d \in Clients |-> CHOOSE ip \in Ips : TRUE][c]>>)
      /\ pending' = [pending EXCEPT ![c] = p]
      /\ last' = A!NoAnswer
      /\ UNCHANGED <<store, users, tokens, changes, since>>
  BY DEF A!LoginVerified
<1>2. p \in Token /\ p.sub = u /\ p.left = 0 /\ p.role = A!RoleIn(store, users, u)
  BY AdminAssumption DEF A!RoleIn, A!Roles, AdminTyped, Token
<1> HIDE DEF p
<1>3. AdminTyped' BY <1>1 DEF AdminTyped
<1>4. BucketsTyped' /\ DebtsPaid' BY <1>1, AdminKeys, AdminAllow
<1>5. \A d \in Clients : pending'[d] = IF d = c THEN p ELSE pending[d]
  BY <1>1 DEF TokensTyped
<1>6. TokensTyped' BY <1>1, <1>2, <1>5 DEF TokensTyped
<1>7. HeldNow' BY <1>1 DEF HeldNow
<1>8. RightsAge' BY <1>1, <1>2, <1>5 DEF HeldNow, A!Holds, RightsAge
<1>9. AnswerEarned' BY <1>1, AdminNone DEF AnswerEarned
<1> QED BY <1>3, <1>4, <1>6, <1>7, <1>8, <1>9

LEMMA AdminLoginRefused ==
    ASSUME AdminInv, NEW c \in Clients, A!LoginRefused(c)
    PROVE  AdminInv'
<1> USE DEF AdminInv
<1>1. /\ A!Allow(<<"login", [d \in Clients |-> CHOOSE ip \in Ips : TRUE][c]>>)
      /\ last'.route = "login"
      /\ UNCHANGED <<store, users, pending, tokens, changes, since>>
  BY DEF A!LoginRefused, A!Answer
<1>2. AdminTyped' BY <1>1 DEF AdminTyped
<1>3. BucketsTyped' /\ DebtsPaid' BY <1>1, AdminKeys, AdminAllow
<1>4. TokensTyped' BY <1>1 DEF TokensTyped
<1>5. HeldNow' /\ RightsAge' BY <1>1 DEF HeldNow, RightsAge
<1>6. AnswerEarned' BY <1>1 DEF AnswerEarned, A!Routes
<1> QED BY <1>2, <1>3, <1>4, <1>5, <1>6

LEMMA AdminApi ==
    ASSUME AdminInv, NEW c \in Clients, NEW r \in A!Routes, A!Api(c, r)
    PROVE  AdminInv'
<1> USE AdminFull DEF AdminInv
<1>1. PICK t \in {tokens[c], A!None} :
          /\ A!Allow(A!ApiKey(c))
          /\ last' = [status |-> A!Status(c, t, r),
                      sub |-> IF t.left > 0 \/ A!Accepts(t) THEN t.sub ELSE "", route |-> r]
          /\ UNCHANGED <<store, users, pending, tokens, changes, since>>
  BY DEF A!Api, A!Answer
<1>2. AdminTyped' BY <1>1 DEF AdminTyped
<1>3. BucketsTyped' /\ DebtsPaid' BY <1>1, AdminKeys, AdminAllow
<1>4. TokensTyped' BY <1>1 DEF TokensTyped
<1>5. HeldNow' /\ RightsAge' BY <1>1 DEF HeldNow, RightsAge
<1>6. AnswerEarned'
  <2> SUFFICES ASSUME last'.status \in {200, 202}
               PROVE  last'.sub \in Users /\ since[last'.sub][r] <= TTL + MaxHold
    BY <1>1 DEF AnswerEarned
  <2>1. A!Status(c, t, r) \in {200, 202} BY <1>1
  <2>2. A!Accepts(t) /\ A!MayRun(t, r) BY <2>1 DEF A!Status
  <2>3. t = tokens[c] /\ tokens[c].left > 0 BY <2>2, AdminNone DEF A!Accepts
  <2>4. tokens[c].sub \in Users /\ tokens[c].left \in Nat
    BY <2>3 DEF TokensTyped, Token
  <2>5. since[tokens[c].sub][r] + tokens[c].left <= TTL + MaxHold
    BY <2>2, <2>3 DEF RightsAge, A!MayRun
  <2>6. since[tokens[c].sub][r] \in 0..A!Forget BY <2>4 DEF TokensTyped
  <2>7. last'.sub = tokens[c].sub BY <1>1, <2>3
  <2> HIDE DEF AdminInv
  <2> QED BY <2>4, <2>5, <2>6, <2>7
<1> QED BY <1>2, <1>3, <1>4, <1>5, <1>6

LEMMA AdminStep ==
    ASSUME AdminInv, A!Next
    PROVE  AdminInv'
<1>1. CASE A!Gc
  BY <1>1, AdminGc DEF AdminInv, A!Gc, AdminTyped, TokensTyped, HeldNow, RightsAge, AnswerEarned
<1>2. CASE A!Tick \/ A!Stop BY <1>2, AdminTick, AdminStop
<1>3. ASSUME NEW c \in Clients, A!LoginRefused(c) \/ A!SignToken(c) PROVE AdminInv'
  BY <1>3, AdminLoginRefused, AdminSignToken
<1>4. ASSUME NEW c \in Clients, NEW u \in Users, A!LoginVerified(c, u) PROVE AdminInv'
  BY <1>4, AdminLoginVerified
<1>5. ASSUME NEW c \in Clients, NEW r \in A!Routes, A!Api(c, r) PROVE AdminInv'
  BY <1>5, AdminApi
<1>6. ASSUME NEW dsn \in BOOLEAN, NEW fallback \in BOOLEAN, NEW secretOK \in BOOLEAN,
             A!Start(dsn, fallback, secretOK)
      PROVE  AdminInv'
  BY <1>6, AdminStart
<1>7. ASSUME NEW u \in Users, NEW role \in A!Roles \cap Users, NEW d \in BOOLEAN,
             A!SetUser(u, role, d)
      PROVE  AdminInv'
  BY <1>7, AdminSetUser
<1> QED BY <1>1, <1>2, <1>3, <1>4, <1>5, <1>6, <1>7 DEF A!Next

LEMMA AdminInvariant == Spec => [](part = "admin" => AdminInv)
<1>1. Init => (part = "admin" => AdminInv)
  <2> SUFFICES ASSUME A!Init PROVE AdminInv BY DEF Init
  <2> USE AdminFull DEF A!Init
  <2>1. AdminTyped BY AdminAssumption DEF A!Roles, AdminTyped
  <2>2. BucketsTyped BY DEF BucketsTyped
  <2>3. TokensTyped BY AdminNone DEF A!Forget, TokensTyped
  <2>4. DebtsPaid BY DEF DebtsPaid
  <2>5. HeldNow BY DEF HeldNow, A!Holds, A!Enabled
  <2>6. RightsAge BY AdminNone DEF RightsAge
  <2>7. AnswerEarned BY AdminNone DEF AnswerEarned
  <2> QED BY <2>1, <2>2, <2>3, <2>4, <2>5, <2>6, <2>7 DEF AdminInv
<1>2. (part = "admin" => AdminInv) /\ [Next]_all => (part = "admin" => AdminInv)'
  <2> SUFFICES ASSUME part = "admin", AdminInv, [Next]_all PROVE AdminInv'
    BY PartOfStep
  <2>1. CASE A!Next BY <2>1, AdminStep
  <2>2. CASE UNCHANGED admin
    BY <2>2 DEF admin, AdminInv, AdminTyped, BucketsTyped, TokensTyped, DebtsPaid, HeldNow,
                RightsAge, AnswerEarned
  <2> QED BY <2>1, <2>2, PartOfStep
<1> QED BY <1>1, <1>2, PTL DEF Spec

\* Evicting idle buckets forgets no debt: no key is granted more than its bucket
\* holds and refills, whatever requests, ticks and collections interleave.
THEOREM AdminLimitHolds == Spec => []LimitHolds
<1>1. (part = "admin" => AdminInv) => LimitHolds
  <2> SUFFICES ASSUME AdminInv PROVE A!TypeOK /\ A!LimitHolds BY DEF LimitHolds
  <2> USE AdminFull DEF AdminInv
  <2>1. \A k \in A!Keys : buckets[k].debt \in 0..Full /\ paid[k] <= Full
    <3> SUFFICES ASSUME NEW k \in A!Keys PROVE buckets[k].debt \in 0..Full /\ paid[k] <= Full
      OBVIOUS
    <3>1. paid[k] \in Nat BY DEF BucketsTyped
    <3>2. CASE buckets[k] = A!NoBucket BY <3>1, <3>2 DEF DebtsPaid, A!NoBucket
    <3>3. CASE buckets[k] # A!NoBucket
      BY <3>3, <3>1 DEF BucketsTyped, DebtsPaid, Bucket
    <3> QED BY <3>2, <3>3
  <2>2. \A c \in Clients : tokens[c].left \in 0..TTL /\ pending[c].left \in 0..MaxHold
    <3> SUFFICES ASSUME NEW c \in Clients
                 PROVE  tokens[c].left \in 0..TTL /\ pending[c].left \in 0..MaxHold
      OBVIOUS
    <3>1. tokens[c] \in Token /\ tokens[c].left <= TTL /\ pending[c] \in Token
          /\ pending[c].left <= MaxHold
      BY DEF TokensTyped
    <3>2. tokens[c].left \in Nat /\ pending[c].left \in Nat BY <3>1 DEF Token
    <3> QED BY <3>1, <3>2
  <2>3. A!TypeOK BY <2>1, <2>2 DEF A!TypeOK, AdminTyped, Full
  <2>4. A!LimitHolds BY <2>1 DEF A!LimitHolds, Full
  <2> QED BY <2>3, <2>4
<1> QED BY <1>1, AdminInvariant, PTL

\* A request is answered only for a login that held the right to it at most a
\* token's life and one login's length ago: a role taken away, an account
\* disabled, another store after a restart reach no further.
THEOREM AdminRightsVerified == Spec => []RightsVerified
<1>1. (part = "admin" => AdminInv) => RightsVerified
  <2> SUFFICES ASSUME AdminInv, last.status \in {200, 202}, last.route \in A!Routes
               PROVE  since[last.sub][last.route] < A!Forget
    BY DEF RightsVerified, A!RightsVerified
  <2>1. last.sub \in Users /\ since[last.sub][last.route] <= TTL + MaxHold
    BY DEF AdminInv, AnswerEarned
  <2>2. since[last.sub][last.route] \in 0..A!Forget BY <2>1 DEF AdminInv, TokensTyped
  <2> QED BY <2>1, <2>2, AdminFull DEF A!Forget
<1> QED BY <1>1, AdminInvariant, PTL

-----------------------------------------------------------------------------
(* Loadgen.                                                                *)

\* The workers with a session, inside Run, and with an outcome not yet counted.
Busy == {w \in Workers : pc[w] \notin {"wait", "gone"}}
Inside == {w \in Workers : pc[w] \in L!Phases \cup {"end"}}
Lost == {w \in Workers : pc[w] \in {"end", "count"} /\ failedRun[w]}
Won == {w \in Workers : pc[w] \in {"end", "count"} /\ ~failedRun[w]}

LoadTyped ==
    /\ pc \in [Workers -> L!Phases \cup {"wait", "begin", "end", "count", "gone"}]
    /\ failedRun \in [Workers -> BOOLEAN]
    /\ \A w \in Workers : pc[w] \in L!Phases => ~failedRun[w]

CountersTyped ==
    /\ started \in Nat /\ active \in Nat /\ success \in Nat /\ failed \in Nat /\ errors \in Nat
    /\ tolerated \in Nat /\ unobserved \in Nat /\ loggedOut \in Nat

\* Every session started is counted or has a worker, every failure and every
\* success is counted or about to be.
Tallied ==
    /\ started = success + failed + Cardinality(Busy) /\ active = Cardinality(Inside)
    /\ errors + unobserved = failed + tolerated + Cardinality(Lost)
    /\ success + Cardinality(Won) = loggedOut + tolerated

LoadInv == LoadTyped /\ CountersTyped /\ Tallied

\* The phases follow each other, and the logout is the last.
LEMMA LoadPhases ==
    /\ L!AllPhases[1] \in L!Phases /\ "recv_char_list" \in L!Phases
    /\ {"wait", "begin", "end", "count", "gone"} \cap L!Phases = {}
    /\ \A p \in L!Phases : IF p = "send_logout" THEN L!After(p) = "end" ELSE L!After(p) \in L!Phases
<1> DEFINE All == <<"connect_auth", "recv_sm_key", "send_auth_login", "recv_login_resp",
                    "send_play", "recv_play_resp", "connect_game", "recv_session_key",
                    "send_session_confirm", "recv_char_list", "send_logout">>
<1>1. L!AllPhases = All /\ DOMAIN All = 1..11 BY DEF L!AllPhases
<1>2. L!Phases = {"connect_auth", "recv_sm_key", "send_auth_login", "recv_login_resp",
                  "send_play", "recv_play_resp", "connect_game", "recv_session_key",
                  "send_session_confirm", "recv_char_list", "send_logout"}
  BY <1>1 DEF L!Phases
<1>3. \A i \in 1..11 : Append(All, "end")[i + 1] = IF i = 11 THEN "end" ELSE All[i + 1]
  OBVIOUS
<1>4. \A i, j \in 1..11 : All[i] = All[j] => i = j OBVIOUS
<1>5. \A i \in 1..11 : All[i] \in L!Phases /\ (All[i] = "send_logout" <=> i = 11)
  BY <1>2
<1>6. \A p \in L!Phases : \E i \in 1..11 : All[i] = p BY <1>1 DEF L!Phases
<1> HIDE DEF All
<1>7. ASSUME NEW p \in L!Phases
      PROVE  IF p = "send_logout" THEN L!After(p) = "end" ELSE L!After(p) \in L!Phases
  <2>1. PICK i \in 1..11 : All[i] = p BY <1>6
  <2> DEFINE next == IF i = 11 THEN "end" ELSE All[i + 1]
  <2>2. next \in L!Phases \cup {"end"} BY <1>5
  <2>3. \A j \in DOMAIN L!AllPhases : L!AllPhases[j] = p => j = i
    BY <1>1, <1>4, <2>1
  <2>4. \A n : (\E j \in DOMAIN L!AllPhases : L!AllPhases[j] = p /\ n = Append(L!AllPhases, "end")[j + 1])
               <=> n = next
    BY <1>1, <1>3, <2>1, <2>3
  <2>5. L!After(p) = next BY <2>2, <2>4 DEF L!After
  <2> QED BY <2>1, <2>5, <1>5
<1> QED BY <1>1, <1>2, <1>5, <1>7

\* A set that one worker enters, leaves or stays in.
LEMMA LoadMoved ==
    ASSUME NEW T1 \in SUBSET Workers, NEW T2 \in SUBSET Workers, NEW w \in Workers,
           \A v \in Workers \ {w} : v \in T1 <=> v \in T2
    PROVE  /\ Cardinality(T1) \in Nat /\ Cardinality(T2) \in Nat
           /\ w \notin T1 /\ w \in T2 => Cardinality(T2) = Cardinality(T1) + 1
           /\ w \in T1 /\ w \notin T2 => Cardinality(T2) = Cardinality(T1) - 1
           /\ (w \in T1 <=> w \in T2) => Cardinality(T2) = Cardinality(T1)
<1>1. IsFiniteSet(T1) /\ IsFiniteSet(T2) BY LoadAssumption, FS_Subset
<1>2. Cardinality(T1) \in Nat /\ Cardinality(T2) \in Nat BY <1>1, FS_CardinalityType
<1>3. ASSUME w \notin T1, w \in T2 PROVE Cardinality(T2) = Cardinality(T1) + 1
  BY <1>3, <1>1, FS_AddElement
<1>4. ASSUME w \in T1, w \notin T2 PROVE Cardinality(T2) = Cardinality(T1) - 1
  BY <1>4, <1>1, FS_RemoveElement
<1>5. ASSUME w \in T1 <=> w \in T2 PROVE Cardinality(T2) = Cardinality(T1) BY <1>5
<1> QED BY <1>2, <1>3, <1>4, <1>5

\* What the sets gain and lose when worker w alone moves, to next.
LoadMove(w, next) ==
    /\ Cardinality(Busy) \in Nat /\ Cardinality(Busy')
         = Cardinality(Busy) + (IF w \in Busy' THEN 1 ELSE 0) - (IF w \in Busy THEN 1 ELSE 0)
    /\ Cardinality(Inside) \in Nat /\ Cardinality(Inside')
         = Cardinality(Inside) + (IF w \in Inside' THEN 1 ELSE 0) - (IF w \in Inside THEN 1 ELSE 0)
    /\ Cardinality(Lost) \in Nat /\ Cardinality(Lost')
         = Cardinality(Lost) + (IF w \in Lost' THEN 1 ELSE 0) - (IF w \in Lost THEN 1 ELSE 0)
    /\ Cardinality(Won) \in Nat /\ Cardinality(Won')
         = Cardinality(Won) + (IF w \in Won' THEN 1 ELSE 0) - (IF w \in Won THEN 1 ELSE 0)
    /\ w \in Busy' <=> next \notin {"wait", "gone"}
    /\ w \in Inside' <=> next \in L!Phases \cup {"end"}
    /\ w \in Lost' <=> next \in {"end", "count"} /\ failedRun'[w]
    /\ w \in Won' <=> next \in {"end", "count"} /\ ~failedRun'[w]

\* A step of worker w alone: what it enters and leaves is added and taken off.
LEMMA LoadCounts ==
    ASSUME LoadInv, NEW w \in Workers, NEW next,
           pc' = [pc EXCEPT ![w] = next],
           \A v \in Workers \ {w} : failedRun'[v] = failedRun[v]
    PROVE  LoadMove(w, next)
<1> USE DEF LoadInv
<1>1. pc'[w] = next /\ \A v \in Workers \ {w} : pc'[v] = pc[v] BY DEF LoadTyped
<1>2. \A v \in Workers \ {w} : v \in Busy <=> v \in Busy' BY <1>1 DEF Busy
<1>3. \A v \in Workers \ {w} : v \in Inside <=> v \in Inside' BY <1>1 DEF Inside
<1>4. \A v \in Workers \ {w} : v \in Lost <=> v \in Lost' BY <1>1 DEF Lost
<1>5. \A v \in Workers \ {w} : v \in Won <=> v \in Won' BY <1>1 DEF Won
<1>6. /\ Busy \in SUBSET Workers /\ Busy' \in SUBSET Workers
      /\ Inside \in SUBSET Workers /\ Inside' \in SUBSET Workers
      /\ Lost \in SUBSET Workers /\ Lost' \in SUBSET Workers
      /\ Won \in SUBSET Workers /\ Won' \in SUBSET Workers
  BY DEF Busy, Inside, Lost, Won
<1>7. /\ Cardinality(Busy) \in Nat /\ Cardinality(Busy')
                = Cardinality(Busy) + (IF w \in Busy' THEN 1 ELSE 0) - (IF w \in Busy THEN 1 ELSE 0)
  BY <1>2, <1>6, LoadMoved
<1>8. /\ Cardinality(Inside) \in Nat /\ Cardinality(Inside')
                = Cardinality(Inside) + (IF w \in Inside' THEN 1 ELSE 0) - (IF w \in Inside THEN 1 ELSE 0)
  BY <1>3, <1>6, LoadMoved
<1>9. /\ Cardinality(Lost) \in Nat /\ Cardinality(Lost')
                = Cardinality(Lost) + (IF w \in Lost' THEN 1 ELSE 0) - (IF w \in Lost THEN 1 ELSE 0)
  BY <1>4, <1>6, LoadMoved
<1>10. /\ Cardinality(Won) \in Nat /\ Cardinality(Won')
                = Cardinality(Won) + (IF w \in Won' THEN 1 ELSE 0) - (IF w \in Won THEN 1 ELSE 0)
  BY <1>5, <1>6, LoadMoved
<1>11. w \in Busy' <=> next \notin {"wait", "gone"} BY <1>1 DEF Busy
<1>12. w \in Inside' <=> next \in L!Phases \cup {"end"} BY <1>1 DEF Inside
<1>13. w \in Lost' <=> next \in {"end", "count"} /\ failedRun'[w] BY <1>1 DEF Lost
<1>14. w \in Won' <=> next \in {"end", "count"} /\ ~failedRun'[w] BY <1>1 DEF Won
<1> QED BY <1>7, <1>8, <1>9, <1>10, <1>11, <1>12, <1>13, <1>14 DEF LoadMove

LEMMA LoadStep ==
    ASSUME LoadInv, L!Next PROVE LoadInv'
  <1> DEFINE Card(busy, inside, lost, won) ==
        /\ Cardinality(Busy') = Cardinality(Busy) + busy
        /\ Cardinality(Inside') = Cardinality(Inside) + inside
        /\ Cardinality(Lost') = Cardinality(Lost) + lost
      /\ Cardinality(Won') = Cardinality(Won) + won
<1>1. /\ Cardinality(Busy) \in Nat /\ Cardinality(Inside) \in Nat
      /\ Cardinality(Lost) \in Nat /\ Cardinality(Won) \in Nat
  <2>1. ASSUME NEW X \in SUBSET Workers PROVE Cardinality(X) \in Nat
    BY LoadAssumption, FS_Subset, FS_CardinalityType
  <2> QED BY <2>1 DEF Busy, Inside, Lost, Won
<1>2. CASE L!Cancel
  BY <1>2 DEF L!Cancel, L!Ghosts, LoadInv, LoadTyped, CountersTyped, Tallied, Busy, Inside, Lost,
     Won
<1>3. ASSUME NEW w \in Workers, L!Token(w) PROVE LoadInv'
  <2>1. /\ pc' = [pc EXCEPT ![w] = "begin"] /\ pc[w] = "wait" /\ failedRun' = failedRun
        /\ started' = started + 1
        /\ UNCHANGED <<active, success, failed, errors, tolerated, unobserved, loggedOut>>
    BY <1>3 DEF L!Token, L!Go, L!Ghosts
  <2>2. LoadTyped' BY <2>1, LoadPhases DEF LoadInv, LoadTyped
  <2>3a. LoadMove(w, "begin")
    BY <2>1, LoadCounts
  <2>3. Card(1, 0, 0, 0)
    BY <2>3a, <1>1, <2>1, LoadPhases DEF LoadMove, Busy, Inside, Lost, Won
  <2> QED BY <1>1, <2>1, <2>2, <2>3 DEF LoadInv, CountersTyped, Tallied
<1>4. ASSUME NEW w \in Workers, L!Begin(w) PROVE LoadInv'
  <2>1. /\ pc' = [pc EXCEPT ![w] = L!AllPhases[1]] /\ pc[w] = "begin"
        /\ failedRun' = [failedRun EXCEPT ![w] = FALSE]
        /\ active' = active + 1
        /\ UNCHANGED <<started, success, failed, errors, tolerated, unobserved, loggedOut>>
    BY <1>4 DEF L!Begin, L!Go, L!Ghosts
  <2>2. LoadTyped' BY <2>1, LoadPhases DEF LoadInv, LoadTyped
  <2>3. \A v \in Workers \ {w} : failedRun'[v] = failedRun[v]
    BY <2>1 DEF LoadInv, LoadTyped
  <2>4a. LoadMove(w, L!AllPhases[1])
    BY <2>1, <2>3, LoadCounts
  <2>4. Card(0, 1, 0, 0)
    BY <2>4a, <1>1, <2>1, <2>3, LoadPhases DEF LoadMove, Busy, Inside, Lost, Won
  <2> QED BY <1>1, <2>1, <2>2, <2>4 DEF LoadInv, CountersTyped, Tallied
<1>5. ASSUME NEW w \in Workers, L!PhaseDone(w) PROVE LoadInv'
  <2> DEFINE next == L!After(pc[w])
             one == IF pc[w] = "send_logout" THEN 1 ELSE 0
  <2>1. /\ pc' = [pc EXCEPT ![w] = next] /\ pc[w] \in L!Phases /\ failedRun' = failedRun
        /\ loggedOut' = loggedOut + one
        /\ UNCHANGED <<started, active, success, failed, errors, tolerated, unobserved>>
    BY <1>5 DEF L!PhaseDone, L!Go
  <2>2. IF pc[w] = "send_logout" THEN next = "end" ELSE next \in L!Phases
    BY <2>1, LoadPhases
  <2>3. ~failedRun[w] BY <2>1 DEF LoadInv, LoadTyped
  <2>4. next \in L!Phases \cup {"end"} BY <2>2
  <2>5. /\ pc'[w] = next /\ \A v \in Workers \ {w} : pc'[v] = pc[v]
        /\ pc' \in [Workers -> L!Phases \cup {"wait", "begin", "end", "count", "gone"}]
    BY <2>1, <2>4 DEF LoadInv, LoadTyped
  <2> HIDE DEF next
  <2>6. LoadTyped' BY <2>1, <2>3, <2>5 DEF LoadInv, LoadTyped
  <2>7. /\ w \in Busy /\ w \in Inside /\ w \notin Lost /\ w \notin Won
        /\ next \notin {"wait", "gone", "count"} /\ (next = "end" <=> pc[w] = "send_logout")
    BY <2>1, <2>2, LoadPhases DEF Busy, Inside, Lost, Won
  <2>8a. LoadMove(w, next)
    BY <2>1, <2>3, <2>4, <2>7, LoadCounts
  <2>8. Card(0, 0, 0, one) BY <2>8a, <1>1, <2>1, <2>3, <2>4, <2>7 DEF LoadMove
  <2>9. one \in {0, 1} OBVIOUS
  <2> HIDE DEF one
  <2>10. CountersTyped' BY <2>1, <2>9 DEF LoadInv, CountersTyped
  <2>11. Tallied' BY <1>1, <2>1, <2>8, <2>9 DEF LoadInv, CountersTyped, Tallied
  <2> QED BY <2>6, <2>10, <2>11 DEF LoadInv
<1>6. ASSUME NEW w \in Workers, L!PhaseFails(w) PROVE LoadInv'
  <2> DEFINE one == IF pc[w] = "recv_char_list" THEN 1 ELSE 0
  <2>1. /\ pc' = [pc EXCEPT ![w] = "end"] /\ pc[w] \in L!Phases
        /\ failedRun' = [failedRun EXCEPT ![w] = ~(pc[w] = "recv_char_list")]
        /\ errors' = errors + 1 /\ tolerated' = tolerated + one
        /\ UNCHANGED <<started, active, success, failed, unobserved, loggedOut>>
    BY <1>6 DEF L!PhaseFails, L!Go, L!Tolerates
  <2>2. LoadTyped' BY <2>1, LoadPhases DEF LoadInv, LoadTyped
  <2>3. /\ \A v \in Workers \ {w} : failedRun'[v] = failedRun[v]
        /\ failedRun'[w] <=> pc[w] # "recv_char_list"
    BY <2>1 DEF LoadInv, LoadTyped
  <2>4. w \in Busy /\ w \in Inside /\ w \notin Lost /\ w \notin Won
    BY <2>1, LoadPhases DEF Busy, Inside, Lost, Won
  <2>5a. LoadMove(w, "end")
    BY <2>1, <2>3, <2>4, LoadCounts
  <2>5. Card(0, 0, 1 - one, one) BY <2>5a, <1>1, <2>1, <2>3, <2>4 DEF LoadMove
  <2>6. one \in {0, 1} OBVIOUS
  <2> HIDE DEF one
  <2> QED BY <1>1, <2>1, <2>2, <2>5, <2>6 DEF LoadInv, CountersTyped, Tallied
<1>7. ASSUME NEW w \in Workers, L!RunBreaks(w) PROVE LoadInv'
  <2>1. /\ pc' = [pc EXCEPT ![w] = "end"] /\ pc[w] \in L!Phases
        /\ failedRun' = [failedRun EXCEPT ![w] = TRUE] /\ unobserved' = unobserved + 1
        /\ UNCHANGED <<started, active, success, failed, errors, tolerated, loggedOut>>
    BY <1>7 DEF L!RunBreaks, L!Recovered, L!Go
  <2>2. LoadTyped' BY <2>1, LoadPhases DEF LoadInv, LoadTyped
  <2>3. /\ \A v \in Workers \ {w} : failedRun'[v] = failedRun[v]
        /\ failedRun'[w]
    BY <2>1 DEF LoadInv, LoadTyped
  <2>4. w \in Busy /\ w \in Inside /\ w \notin Lost /\ w \notin Won
    BY <2>1, LoadPhases DEF Busy, Inside, Lost, Won
  <2>5a. LoadMove(w, "end")
    BY <2>1, <2>3, <2>4, LoadCounts
  <2>5. Card(0, 0, 1, 0) BY <2>5a, <1>1, <2>1, <2>3, <2>4 DEF LoadMove
  <2> QED BY <1>1, <2>1, <2>2, <2>5 DEF LoadInv, CountersTyped, Tallied
<1>8. ASSUME NEW w \in Workers, L!End(w) PROVE LoadInv'
  <2>1. /\ pc' = [pc EXCEPT ![w] = "count"] /\ pc[w] = "end" /\ failedRun' = failedRun
        /\ active' = active - 1
        /\ UNCHANGED <<started, success, failed, errors, tolerated, unobserved, loggedOut>>
    BY <1>8 DEF L!End, L!Go, L!Ghosts
  <2>2. LoadTyped' BY <2>1, LoadPhases DEF LoadInv, LoadTyped
  <2>3. w \in Busy /\ w \in Inside /\ (w \in Lost <=> failedRun[w]) /\ (w \in Won <=> ~failedRun[w])
    BY <2>1, LoadPhases DEF Busy, Inside, Lost, Won
  <2>4. "count" \notin L!Phases \cup {"end"} BY LoadPhases
  <2>5a. LoadMove(w, "count")
    BY <2>1, <2>3, <2>4, LoadCounts
  <2>5. Card(0, -1, 0, 0) BY <2>5a, <1>1, <2>1, <2>3, <2>4 DEF LoadMove
  <2>6. Cardinality(Inside') \in Nat
    BY LoadAssumption, FS_Subset, FS_CardinalityType DEF Inside
  <2> QED BY <1>1, <2>1, <2>2, <2>5, <2>6 DEF LoadInv, CountersTyped, Tallied
<1>9. ASSUME NEW w \in Workers, L!Count(w) PROVE LoadInv'
  <2> DEFINE bad == IF failedRun[w] THEN 1 ELSE 0
  <2>1. /\ pc' = [pc EXCEPT ![w] = "wait"] /\ pc[w] = "count" /\ failedRun' = failedRun
        /\ UNCHANGED <<started, active, errors, tolerated, unobserved, loggedOut>>
    BY <1>9 DEF L!Count, L!Go, L!Ghosts
  <2>2. failed' = failed + bad /\ success' = success + (1 - bad)
    BY <1>9 DEF L!Count, LoadInv, CountersTyped
  <2>3. LoadTyped' BY <2>1, LoadPhases DEF LoadInv, LoadTyped
  <2>4. w \in Busy /\ w \notin Inside /\ (w \in Lost <=> failedRun[w]) /\ (w \in Won <=> ~failedRun[w])
    BY <2>1, LoadPhases DEF Busy, Inside, Lost, Won
  <2>5. "wait" \notin L!Phases \cup {"end"} BY LoadPhases
  <2>6a. LoadMove(w, "wait")
    BY <2>1, <2>4, <2>5, LoadCounts
  <2>6. Card(-1, 0, -bad, bad - 1) BY <2>6a, <1>1, <2>1, <2>4, <2>5 DEF LoadMove
  <2>7. bad \in {0, 1} OBVIOUS
  <2> HIDE DEF bad
  <2> QED BY <1>1, <2>1, <2>2, <2>3, <2>6, <2>7 DEF LoadInv, CountersTyped, Tallied
<1>10. ASSUME NEW w \in Workers, L!Leave(w) PROVE LoadInv'
  <2>1. /\ pc' = [pc EXCEPT ![w] = "gone"] /\ pc[w] = "wait" /\ failedRun' = failedRun
        /\ UNCHANGED <<started, active, success, failed, errors, tolerated, unobserved, loggedOut>>
    BY <1>10 DEF L!Leave, L!Go, L!Ghosts
  <2>2. LoadTyped' BY <2>1, LoadPhases DEF LoadInv, LoadTyped
  <2>3. w \notin Busy /\ w \notin Inside /\ w \notin Lost /\ w \notin Won
    BY <2>1, LoadPhases DEF Busy, Inside, Lost, Won
  <2>4. "gone" \notin L!Phases \cup {"end"} BY LoadPhases
  <2>5a. LoadMove(w, "gone")
    BY <2>1, <2>3, <2>4, LoadCounts
  <2>5. Card(0, 0, 0, 0) BY <2>5a, <1>1, <2>1, <2>3, <2>4 DEF LoadMove
  <2> QED BY <1>1, <2>1, <2>2, <2>5 DEF LoadInv, CountersTyped, Tallied
<1> QED BY <1>2, <1>3, <1>4, <1>5, <1>6, <1>7, <1>8, <1>9, <1>10 DEF L!Next

LEMMA LoadInvariant == Spec => [](part = "loadgen" => LoadInv)
<1>1. Init => (part = "loadgen" => LoadInv)
  <2> SUFFICES ASSUME Init, part = "loadgen" PROVE LoadInv OBVIOUS
  <2>1. L!Init BY DEF Init
  <2>2. Busy = {} /\ Inside = {} /\ Lost = {} /\ Won = {}
    BY <2>1, LoadPhases DEF L!Init, Busy, Inside, Lost, Won
  <2>3. Cardinality({}) = 0 BY FS_EmptySet
  <2>4. LoadTyped /\ CountersTyped
    BY <2>1, LoadPhases DEF L!Init, LoadTyped, CountersTyped
  <2> QED BY <2>1, <2>2, <2>3, <2>4 DEF L!Init, LoadInv, Tallied
<1>2. (part = "loadgen" => LoadInv) /\ [Next]_all => (part = "loadgen" => LoadInv)'
  <2> SUFFICES ASSUME part = "loadgen", LoadInv, [Next]_all PROVE LoadInv'
    BY PartOfStep
  <2>1. CASE L!Next BY <2>1, LoadStep
  <2>2. CASE UNCHANGED load
    BY <2>2 DEF load, LoadInv, LoadTyped, CountersTyped, Tallied, Busy, Inside, Lost, Won
  <2> QED BY <2>1, <2>2, PartOfStep
<1> QED BY <1>1, <1>2, PTL DEF Spec

\* Whenever the metrics are scraped, each session started is counted once or is
\* still under way, and when the run is over every failure is explained by a
\* phase error or a break outside the phases, whatever the number of workers.
THEOREM LoadCountsTrue == Spec => []CountsTrue
<1>1. (part = "loadgen" => LoadInv) => CountsTrue
  <2> SUFFICES ASSUME part = "loadgen", LoadInv PROVE L!Balanced /\ L!FailuresExplained
    BY DEF CountsTrue
  <2>1. L!Balanced
    BY DEF L!Balanced, LoadInv, Tallied, Busy, Inside, Cardinality, L!Cardinality
  <2>2. ASSUME \A w \in Workers : pc[w] = "gone"
        PROVE  errors + unobserved = failed + tolerated /\ success = loggedOut + tolerated
    BY <2>2, FS_EmptySet DEF Lost, Won, LoadInv, Tallied, CountersTyped
  <2> QED BY <2>1, <2>2 DEF L!FailuresExplained
<1> QED BY <1>1, LoadInvariant, PTL

-----------------------------------------------------------------------------
(* TinyClient.                                                             *)

Ops == {"char_list", "create_ok", "create_refused", "enter_ok", "die", "loot", "items", "other"}
PacketSet == [op : Ops, count : Nat]

\* What a packet says, the World has done.
Honest(p) ==
    /\ p.op = "char_list" /\ p.count # 0 => has = 1
    /\ p.op = "create_ok" => has = 1
    /\ p.op = "enter_ok" => inWorld
    /\ p.op = "die" => seenDeath
    /\ p.op = "items" => given
AllHonest == \A i \in 1..Len(inbox) : Honest(inbox[i])

TinyTyped ==
    /\ endStage \in {"list", "create", "select", "world", "attack", "loot"}
    /\ at # "done" => status = "running"
    /\ inbox \in Seq(PacketSet) /\ has \in {0, 1}
    /\ inWorld \in BOOLEAN /\ seenDeath \in BOOLEAN /\ given \in BOOLEAN

\* What the client waits for says what the World has done.
Progress ==
    /\ at \in {"enter", "die", "loot", "items"} => has = 1
    /\ at \in {"die", "loot", "items"} => inWorld
    /\ at \in {"loot", "items"} => seenDeath

TinyInv == TinyTyped /\ AllHonest /\ Progress /\ T!ExitZeroEarned

\* The stages follow each other.
LEMMA TinyStages ==
    /\ T!StageOf("list") = 2 /\ T!StageOf("create") = 3 /\ T!StageOf("select") = 4
    /\ T!StageOf("world") = 5 /\ T!StageOf("attack") = 6 /\ T!StageOf("loot") = 7
<1> DEFINE All == <<"login", "list", "create", "select", "world", "attack", "loot">>
<1>1. T!stageOrdered = All /\ DOMAIN All = 1..7 BY DEF T!stageOrdered
<1>3. All[2] = "list" /\ All[3] = "create" /\ All[4] = "select" /\ All[5] = "world"
      /\ All[6] = "attack" /\ All[7] = "loot"
  OBVIOUS
<1> HIDE DEF All
<1>4. ASSUME NEW i \in 1..7 PROVE T!StageOf(All[i]) = i BY <1>1 DEF T!StageOf
<1> QED BY <1>3, <1>4

\* What was once done stays done, so an honest packet stays honest.
LEMMA TinyHonestStays ==
    ASSUME TinyTyped, TinyTyped',
           has = 1 => has' = 1, inWorld => inWorld', seenDeath => seenDeath', given => given',
           NEW p, Honest(p)
    PROVE  Honest(p)'
BY DEF Honest, TinyTyped

\* The World adds honest packets to those on their way.
LEMMA TinySent ==
    ASSUME TinyInv, NEW packets \in Seq(PacketSet),
           inbox' = inbox \o packets, UNCHANGED <<endStage, at, tries, split, status>>,
           has \in {0, 1} => has' \in {has, 1},
           inWorld' \in {inWorld, TRUE}, seenDeath' \in {seenDeath, TRUE}, given' \in {given, TRUE},
           \A i \in 1..Len(packets) : Honest(packets[i])'
    PROVE  TinyInv'
<1> USE DEF TinyInv
<1>2. TinyTyped'
  <2>1. inbox' \in Seq(PacketSet) BY DEF TinyTyped
  <2>2. has' \in {0, 1} BY DEF TinyTyped
  <2>3. inWorld' \in BOOLEAN /\ seenDeath' \in BOOLEAN /\ given' \in BOOLEAN
    BY DEF TinyTyped
  <2> QED BY <2>1, <2>2, <2>3 DEF TinyTyped
<1>3. has = 1 => has' = 1 BY DEF TinyTyped
<1>4. /\ inWorld => inWorld'
      /\ seenDeath => seenDeath'
      /\ given => given'
  BY <1>2 DEF TinyTyped
<1>5. \A p : Honest(p) => Honest(p)' BY <1>2, <1>3, <1>4, TinyHonestStays
<1>6. ASSUME NEW i \in 1..Len(inbox') PROVE Honest(inbox[i])'
  BY <1>5 DEF TinyTyped, AllHonest, Honest
<1>7. AllHonest' BY <1>6 DEF AllHonest
<1>8. Progress' BY <1>3, <1>4 DEF Progress
<1>9. T!ExitZeroEarned' BY <1>3, <1>4 DEF T!ExitZeroEarned, T!Past, T!Upto
<1> QED BY <1>2, <1>7, <1>8, <1>9

\* The client takes a packet off: it was honest, and the others stay.
LEMMA TinyTaken ==
    ASSUME TinyInv, NEW op, T!Takes(op)
    PROVE  /\ Honest(Head(inbox)) /\ Head(inbox) \in PacketSet /\ Head(inbox).op = op
           /\ inbox' \in Seq(PacketSet) /\ AllHonest' /\ at # "done" /\ status = "running"
           /\ UNCHANGED <<endStage, has, inWorld, seenDeath, given>>
<1>1. /\ inbox # <<>> /\ Head(inbox).op = op /\ inbox' = Tail(inbox) /\ at # "done"
      /\ UNCHANGED <<endStage, has, inWorld, seenDeath, given>>
  BY DEF T!Takes, T!world
<1>2. inbox \in Seq(PacketSet) /\ AllHonest /\ status = "running"
  BY <1>1 DEF TinyInv, TinyTyped
<1>3. Len(inbox) \in Nat \ {0} /\ Head(inbox) = inbox[1] /\ inbox[1] \in PacketSet
  BY <1>1, <1>2
<1>4. Honest(inbox[1]) BY <1>2, <1>3 DEF AllHonest
<1>5. inbox' \in Seq(PacketSet) /\ Len(inbox') = Len(inbox) - 1
      /\ \A i \in 1..Len(inbox') : inbox'[i] = inbox[i + 1]
  BY <1>1, <1>2, <1>3
<1>6. ASSUME NEW i \in 1..Len(inbox') PROVE Honest(inbox[i])'
  BY <1>3, <1>5, <1>2, <1>1 DEF AllHonest, Honest
<1> QED BY <1>1, <1>2, <1>3, <1>4, <1>5, <1>6 DEF AllHonest

\* The client moves on: what it now waits for, or ends with, is earned.
LEMMA TinyMoves ==
    ASSUME TinyInv, inbox' \in Seq(PacketSet), AllHonest',
           UNCHANGED <<endStage, has, inWorld, seenDeath, given>>,
           at' # "done" => status' = "running",
           Progress', T!ExitZeroEarned'
    PROVE  TinyInv'
BY DEF TinyInv, TinyTyped

\* The stages that are past come before the last.
LEMMA TinyPast ==
    ASSUME TinyTyped
    PROVE  /\ T!Upto("list") => ~T!Past("list")
           /\ T!Upto("list") => T!Upto("select")
           /\ T!Upto("select") => T!Upto("world")
           /\ T!Upto("world") => T!Upto("attack")
           /\ \A goal : T!Upto(goal) <=> ~T!Past(goal)
BY TinyStages DEF TinyTyped, T!Upto, T!Past

LEMMA TinyEnterOrStop ==
    ASSUME TinyInv, NEW op, T!Takes(op), has = 1, T!EnterOrStop
    PROVE  TinyInv'
BY TinyTaken, TinyPast, TinyMoves DEF TinyInv, T!Past, T!Upto, T!EnterOrStop, T!Exit, Progress,
   T!ExitZeroEarned, T!Ask

LEMMA TinyReads ==
    ASSUME TinyInv, T!ListRead \/ T!ListSkips \/ T!CreateRead \/ T!CreateFails \/ T!EnterRead
    PROVE  TinyInv'
<1>1. TinyTyped /\ Progress /\ T!ExitZeroEarned BY DEF TinyInv
<1>2. \A goal : UNCHANGED endStage => (T!Past(goal)' <=> T!Past(goal))
  BY DEF T!Past, T!Upto
<1>3. ASSUME T!ListRead PROVE TinyInv'
  <2>1. at = "list" /\ T!Takes("char_list") BY <1>3 DEF T!ListRead
  <2>2. Honest(Head(inbox)) /\ Head(inbox).op = "char_list" BY <2>1, TinyTaken
  <2>3. CASE T!Upto("list")
    BY <1>3, <2>3, <1>1, <1>2, <2>1, TinyPast, TinyTaken, TinyMoves DEF T!ListRead, T!Exit,
       Progress, T!ExitZeroEarned
  <2>4. CASE ~T!Upto("list") /\ Head(inbox).count = 0
    BY <1>3, <2>1, <2>4, TinyTaken, TinyMoves DEF T!ListRead, T!Ask, Progress, T!ExitZeroEarned
  <2>5. CASE ~T!Upto("list") /\ Head(inbox).count # 0
    BY <1>3, <2>2, <2>5, <2>1, TinyEnterOrStop DEF T!ListRead, Honest
  <2> QED BY <2>3, <2>4, <2>5
<1>4. ASSUME T!ListSkips PROVE TinyInv'
  BY <1>4, TinyTaken, TinyMoves DEF T!ListSkips, T!Exit, Progress, T!ExitZeroEarned
<1>5. ASSUME T!CreateRead PROVE TinyInv'
  BY <1>5, TinyTaken, TinyEnterOrStop DEF T!CreateRead, Honest
<1>6. ASSUME T!CreateFails PROVE TinyInv'
  <2>1. PICK op : T!Takes(op) BY <1>6 DEF T!CreateFails
  <2>2. at' = "done" /\ status' = "failed" BY <1>6 DEF T!CreateFails, T!Exit
  <2>3. Progress' /\ T!ExitZeroEarned' BY <2>2 DEF Progress, T!ExitZeroEarned
  <2> QED BY <2>1, <2>2, <2>3, TinyTaken, TinyMoves
<1>7. ASSUME T!EnterRead PROVE TinyInv'
  <2>1. T!Takes("enter_ok") /\ at = "enter" BY <1>7 DEF T!EnterRead
  <2>2. has = 1 /\ inWorld BY <1>1, <2>1, TinyTaken DEF Honest, Progress
  <2>3. CASE T!Upto("world")
    <3>1. at' = "done" BY <1>7, <2>3 DEF T!EnterRead, T!Exit
    <3>2. has' = 1 /\ inWorld' /\ UNCHANGED endStage BY <2>1, <2>2, TinyTaken
    <3>3. Progress' /\ T!ExitZeroEarned'
      BY <1>1, <1>2, <2>3, <3>1, <3>2, TinyPast DEF Progress, T!ExitZeroEarned
    <3> QED BY <2>1, <3>1, <3>3, TinyTaken, TinyMoves
  <2>4. CASE ~T!Upto("world")
    BY <1>7, <2>1, <2>4, TinyTaken, <2>2, TinyMoves DEF T!EnterRead, T!Ask, Progress,
       T!ExitZeroEarned
  <2> QED BY <2>3, <2>4
<1> QED BY <1>3, <1>4, <1>5, <1>6, <1>7

LEMMA TinyFights ==
    ASSUME TinyInv, T!DieRead \/ T!LootRead \/ T!ItemsRead \/ T!SidePacket
    PROVE  TinyInv'
<1>1. TinyTyped /\ Progress /\ T!ExitZeroEarned BY DEF TinyInv
<1>2. \A goal : UNCHANGED endStage => (T!Past(goal)' <=> T!Past(goal))
  BY DEF T!Past, T!Upto
<1>3. ASSUME T!DieRead PROVE TinyInv'
  <2>1. at = "die" /\ T!Takes("die") BY <1>3 DEF T!DieRead
  <2>2. has' = 1 /\ inWorld' /\ seenDeath' /\ UNCHANGED endStage
    BY <1>1, <2>1, TinyTaken DEF Honest, Progress
  <2>3. CASE T!Upto("attack")
    <3>1. at' = "done" BY <1>3, <2>3 DEF T!DieRead, T!Exit
    <3>2. Progress' /\ T!ExitZeroEarned'
      BY <1>1, <1>2, <2>2, <2>3, <3>1, TinyPast DEF Progress, T!ExitZeroEarned
    <3> QED BY <2>1, <3>1, <3>2, TinyTaken, TinyMoves
  <2>4. CASE ~T!Upto("attack")
    BY <1>3, <2>1, <2>4, TinyTaken, <2>2, TinyMoves DEF T!DieRead, Progress, T!ExitZeroEarned
  <2> QED BY <2>3, <2>4
<1>4. ASSUME T!LootRead PROVE TinyInv'
  BY <1>4, <1>1, TinyTaken, TinyMoves DEF T!LootRead, Progress, T!Ask, T!ExitZeroEarned
<1>5. ASSUME T!ItemsRead PROVE TinyInv'
  BY <1>5, <1>1, TinyTaken, TinyMoves DEF T!ItemsRead, Progress, Honest, T!Exit, T!ExitZeroEarned
<1>6. ASSUME T!SidePacket PROVE TinyInv'
  <2>1. PICK op : T!Takes(op) BY <1>6 DEF T!SidePacket
  <2>2. at' = at /\ status' = status BY <1>6 DEF T!SidePacket
  <2>3. Progress' /\ T!ExitZeroEarned' /\ (at' # "done" => status' = "running")
    BY <1>1, <1>2, <2>1, <2>2, TinyTaken DEF Progress, T!ExitZeroEarned
  <2> QED BY <2>1, <2>3, TinyTaken, TinyMoves
<1> QED BY <1>3, <1>4, <1>5, <1>6

\* One more packet, and the World may do one of the things packets speak of.
LEMMA TinySentOne ==
    ASSUME TinyInv, NEW q \in PacketSet,
           inbox' = inbox \o <<q>>, UNCHANGED <<endStage, at, tries, split, status>>,
           has' \in {has, 1}, inWorld' \in {inWorld, TRUE}, seenDeath' \in {seenDeath, TRUE},
           given' \in {given, TRUE}, Honest(q)'
    PROVE  TinyInv'
<1>1. <<q>> \in Seq(PacketSet) /\ \A i \in 1..Len(<<q>>) : <<q>>[i] = q OBVIOUS
<1>2. \A i \in 1..Len(<<q>>) : Honest(<<q>>[i])' BY <1>1
<1> QED BY <1>1, <1>2, TinySent

\* What the World sends, it has done.
LEMMA TinyWorld ==
    ASSUME TinyInv,
           \/ T!WorldLists \/ T!WorldCreates \/ T!WorldEnters
           \/ T!WorldStrikes \/ T!WorldLoots \/ T!WorldPushes
    PROVE  TinyInv'
<1>1. ASSUME NEW op \in Ops PROVE T!Pkt(op) \in PacketSet /\ T!Pkt(op).op = op /\ T!Pkt(op).count = 0
  BY <1>1 DEF T!Pkt, PacketSet
<1>2. TinyTyped BY DEF TinyInv
<1>3. ASSUME NEW request, NEW packets, T!Answers(request, packets)
      PROVE  inbox' = inbox \o packets /\ UNCHANGED <<endStage, at, tries, split, status>>
  BY <1>3 DEF T!Answers, T!client
<1>4. ASSUME T!WorldLists PROVE TinyInv'
  <2>1. PICK q : q = [T!Pkt("char_list") EXCEPT !.count = has] OBVIOUS
  <2>2. q \in PacketSet /\ q.op = "char_list" /\ q.count = has
    BY <1>2, <2>1 DEF T!Pkt, PacketSet, Ops, TinyTyped
  <2>3. T!Answers("confirm", <<q>>) /\ UNCHANGED <<has, inWorld, seenDeath, given>>
    BY <1>4, <2>1 DEF T!WorldLists
  <2>4. Honest(q)' BY <1>2, <2>2, <2>3 DEF Honest, TinyTyped
  <2>5. inbox' = inbox \o <<q>> /\ UNCHANGED <<endStage, at, tries, split, status>>
    BY <1>3, <2>3
  <2> QED BY <2>2, <2>3, <2>4, <2>5, TinySentOne
<1>5. ASSUME T!WorldCreates PROVE TinyInv'
  <2>1. PICK op \in {"create_ok", "create_refused"} :
          /\ T!Answers("create", <<T!Pkt(op)>>)
          /\ has' \in {has, 1} /\ (op = "create_ok" => has' = 1)
          /\ UNCHANGED <<inWorld, seenDeath, given>>
    BY <1>5 DEF T!WorldCreates
  <2>2. PICK q : q = T!Pkt(op) OBVIOUS
  <2>3. q \in PacketSet /\ q.op = op BY <1>1, <2>2 DEF Ops
  <2>4. Honest(q)' BY <2>1, <2>3 DEF Honest
  <2>5. inbox' = inbox \o <<q>> /\ UNCHANGED <<endStage, at, tries, split, status>>
    BY <1>3, <2>1, <2>2
  <2> QED BY <2>1, <2>3, <2>4, <2>5, TinySentOne
<1>6. ASSUME T!WorldEnters PROVE TinyInv'
  <2>1. PICK q : q = T!Pkt("enter_ok") OBVIOUS
  <2>2. q \in PacketSet /\ q.op = "enter_ok" BY <1>1, <2>1 DEF Ops
  <2>3. T!Answers("enter", <<q>>) /\ inWorld' = TRUE /\ UNCHANGED <<has, seenDeath, given>>
    BY <1>6, <2>1 DEF T!WorldEnters
  <2>4. Honest(q)' BY <2>2, <2>3 DEF Honest
  <2>5. inbox' = inbox \o <<q>> /\ UNCHANGED <<endStage, at, tries, split, status>>
    BY <1>3, <2>3
  <2> QED BY <2>2, <2>3, <2>4, <2>5, TinySentOne
<1>7. ASSUME T!WorldLoots PROVE TinyInv'
  <2>1. PICK q : q = T!Pkt("items") OBVIOUS
  <2>2. q \in PacketSet /\ q.op = "items" BY <1>1, <2>1 DEF Ops
  <2>3. T!Answers("pickup", <<q>>) /\ given' = TRUE /\ UNCHANGED <<has, inWorld, seenDeath>>
    BY <1>7, <2>1 DEF T!WorldLoots
  <2>4. Honest(q)' BY <2>2, <2>3 DEF Honest
  <2>5. inbox' = inbox \o <<q>> /\ UNCHANGED <<endStage, at, tries, split, status>>
    BY <1>3, <2>3
  <2> QED BY <2>2, <2>3, <2>4, <2>5, TinySentOne
<1>8. ASSUME T!WorldPushes PROVE TinyInv'
  <2>1. PICK op \in {"other", "die"} :
          inbox' = Append(inbox, T!Pkt(op)) /\ seenDeath' = (seenDeath \/ op = "die")
    BY <1>8 DEF T!WorldPushes
  <2>2. PICK q : q = T!Pkt(op) OBVIOUS
  <2>3. q \in PacketSet /\ q.op = op BY <1>1, <2>2 DEF Ops
  <2>4. UNCHANGED <<has, inWorld, given, endStage, at, tries, split, status>>
    BY <1>8 DEF T!WorldPushes, T!client
  <2>5. seenDeath' \in {seenDeath, TRUE} /\ (op = "die" => seenDeath')
    BY <1>2, <2>1 DEF TinyTyped
  <2>6. Honest(q)' BY <2>3, <2>5 DEF Honest
  <2>7. inbox' = inbox \o <<q>> BY <1>2, <2>1, <2>2 DEF TinyTyped
  <2> QED BY <2>3, <2>4, <2>5, <2>6, <2>7, TinySentOne
<1>9. ASSUME T!WorldStrikes PROVE TinyInv'
  <2>1. UNCHANGED <<has, inWorld, given>> BY <1>9 DEF T!WorldStrikes
  <2>2. CASE T!Answers("skill", <<>>) /\ UNCHANGED <<mob, seenDeath>>
    BY <1>3, <2>2, <1>2, <2>1 DEF TinyTyped, TinyInv, AllHonest, Honest, Progress,
       T!ExitZeroEarned, T!Past, T!Upto
  <2>3. CASE seenDeath' = TRUE /\ \E packets \in {<<T!Pkt("die"), T!Pkt("loot")>>,
               <<T!Pkt("loot"), T!Pkt("die")>>, <<T!Pkt("die")>>} : T!Answers("skill", packets)
    <3>1. PICK packets \in {<<T!Pkt("die"), T!Pkt("loot")>>, <<T!Pkt("loot"), T!Pkt("die")>>,
                            <<T!Pkt("die")>>} : T!Answers("skill", packets)
      BY <2>3
    <3>2. T!Pkt("die") \in PacketSet /\ T!Pkt("loot") \in PacketSet
          /\ T!Pkt("die").op = "die" /\ T!Pkt("loot").op = "loot"
      BY <1>1 DEF Ops
    <3>3. packets \in Seq(PacketSet) /\ \A i \in 1..Len(packets) : packets[i].op \in {"die", "loot"}
      <4>1. CASE packets = <<T!Pkt("die"), T!Pkt("loot")>> BY <3>2, <4>1
      <4>2. CASE packets = <<T!Pkt("loot"), T!Pkt("die")>> BY <3>2, <4>2
      <4>3. CASE packets = <<T!Pkt("die")>> BY <3>2, <4>3
      <4> QED BY <3>1, <4>1, <4>2, <4>3
    <3>4. \A i \in 1..Len(packets) : Honest(packets[i])' BY <2>3, <3>3 DEF Honest
    <3> QED BY <1>3, <2>1, <2>3, <3>1, <3>3, <3>4, TinySent
  <2> QED BY <1>9, <2>2, <2>3 DEF T!WorldStrikes
<1> QED BY <1>4, <1>5, <1>6, <1>7, <1>8, <1>9

LEMMA TinyStep ==
    ASSUME TinyInv, T!Next PROVE TinyInv'
<1>1. CASE T!DeadlinePasses
  BY <1>1 DEF T!DeadlinePasses, T!world, TinyInv, TinyTyped, AllHonest, Honest, Progress,
     T!ExitZeroEarned, T!Past, T!Upto
<1>2. CASE T!ReadFails
  BY <1>2 DEF T!ReadFails, T!Exit, T!world, TinyInv, TinyTyped, AllHonest, Honest, Progress,
     T!ExitZeroEarned, T!Past, T!Upto
<1> QED BY <1>1, <1>2, TinyReads, TinyFights, TinyWorld DEF T!Next

LEMMA TinyInvariant ==
    Spec => [](IF part = "tinyclient" THEN TinyInv ELSE TinyIdle)
<1> DEFINE Inv == IF part = "tinyclient" THEN TinyInv ELSE TinyIdle
<1>1. Init => Inv
  <2> SUFFICES ASSUME Init, part = "tinyclient" PROVE TinyInv BY DEF Init
  <2>1. T!Init BY DEF Init
  <2>2. endStage \in {"list", "create", "select", "world", "attack", "loot"}
    BY <2>1 DEF T!Init, T!stageOrdered, T!Range
  <2>3. TinyTyped /\ Progress /\ T!ExitZeroEarned
    <3>1. at = "list" /\ status = "running" BY <2>1 DEF T!Init
    <3>2. /\ inWorld \in BOOLEAN /\ seenDeath \in BOOLEAN /\ given \in BOOLEAN
          /\ has \in {0, 1}
      BY <2>1 DEF T!Init
    <3>3. inbox \in Seq(PacketSet) BY <2>1 DEF T!Init
    <3>4. Progress /\ T!ExitZeroEarned BY <3>1 DEF Progress, T!ExitZeroEarned
    <3> QED BY <2>2, <3>1, <3>2, <3>3, <3>4 DEF TinyTyped
  <2>4. inbox = <<>> /\ Len(inbox) = 0 BY <2>1 DEF T!Init
  <2> QED BY <2>3, <2>4 DEF TinyInv, AllHonest
<1>2. Inv /\ [Next]_all => Inv'
  <2> SUFFICES ASSUME Inv, [Next]_all PROVE Inv' OBVIOUS
  <2>1. CASE part = "tinyclient"
    BY <2>1, TinyStep, PartOfStep DEF tiny, TinyInv, TinyTyped, AllHonest, Honest, Progress,
       T!ExitZeroEarned, T!Past, T!Upto
  <2>2. CASE part # "tinyclient" BY <2>2, PartOfStep DEF Next, all, tiny, TinyIdle
  <2> QED BY <2>1, <2>2
<1> QED BY <1>1, <1>2, PTL DEF Spec

\* The client's exit status 0 means that the World has done what every stage up
\* to --stage asks for, whatever else it pushed, however late it answered and
\* however many attacks the client may make.
THEOREM TinyExitEarned == Spec => []ExitZeroEarned
<1>1. (IF part = "tinyclient" THEN TinyInv ELSE TinyIdle) => ExitZeroEarned
  BY DEF ExitZeroEarned, TinyInv, TinyIdle, Idle, T!ExitZeroEarned
<1> QED BY <1>1, TinyInvariant, PTL

-----------------------------------------------------------------------------
(* Wire.                                                                   *)

PacketOps == {"SM_KEY", "SM_AUTH_GG", "SM_LOGIN_OK", "SM_SERVER_LIST", "SM_PLAY_OK", "SM_LOGIN_FAIL",
              "CM_AUTH_GG", "CM_AUTH_LOGIN", "CM_SERVER_LIST", "CM_PLAY"}

\* What both sides of a retail connection send after the first packet.
WirePackets == [op : PacketOps, width : {1}, body : Nat, layers : {<<"bf">>}]

\* The key is the first packet, and the client says nothing before it has read it.
KeyFirst ==
    IF step = 1
    THEN /\ toGateway = <<>>
         /\ (gw = "key" /\ toClient = <<>>) \/ (gw = "first" /\ toClient = <<W!SMKey>>)
    ELSE gw # "key" /\ toClient \in Seq(WirePackets) /\ toGateway \in Seq(WirePackets)

\* Of a connection of a retail client.
WireInv == step \in Nat /\ KeyFirst /\ W!NoMutualWait

\* The steps of a script, and that it reads at the odd places, the first being k.
Lines == [do : {"read", "send"}, op : PacketOps, size : Nat]
Alternates(s, k) ==
    \A i \in 1..Len(s) : s[i].do = IF (i + k) % 2 = 1 THEN "read" ELSE "send"

\* The alternation of a retail client's script.
LEMMA WireScript ==
    ASSUME kind \in W!Retail
    PROVE  /\ Len(W!Script) \in Nat /\ Len(W!Script) >= 7
           /\ \A i \in 1..Len(W!Script) : /\ W!Script[i].do = IF i % 2 = 1 THEN "read" ELSE "send"
                                          /\ W!Script[i].op \in PacketOps /\ W!Script[i].size \in Nat
<1> DEFINE Joined == /\ Len(W!Script) \in Nat /\ Len(W!Script) >= 7
                     /\ Alternates(W!Script, 0) /\ W!Script \in Seq(Lines)
<1>1. \A op \in PacketOps, n \in Nat : W!Read(op, n) \in Lines /\ W!Send(op, n) \in Lines
  BY DEF W!Read, W!Send, Lines
<1>2. \A op, n : W!Read(op, n).do = "read" /\ W!Send(op, n).do = "send"
  BY DEF W!Read, W!Send
<1>3. W!RetailLogin \in Seq(Lines) /\ Len(W!RetailLogin) = 6 /\ Alternates(W!RetailLogin, 1)
  <2>1. W!RetailLogin \in Seq(Lines) /\ Len(W!RetailLogin) = 6
    BY <1>1 DEF W!RetailLogin, PacketOps
  <2> QED BY <2>1, <1>2 DEF W!RetailLogin, Alternates
<1>4. ASSUME NEW a, a \in Seq(Lines), Len(a) \in {1, 3}, Alternates(a, 0),
             W!Script = a \o W!RetailLogin
      PROVE  Joined
  <2> DEFINE b == W!RetailLogin
  <2> HIDE DEF b
  <2>1. b \in Seq(Lines) /\ Len(b) = 6 /\ Alternates(b, 1) /\ W!Script = a \o b
    BY <1>3, <1>4 DEF b
  <2>2. /\ W!Script \in Seq(Lines) /\ Len(W!Script) = Len(a) + Len(b)
        /\ \A i \in 1..(Len(a) + Len(b)) :
               W!Script[i] = IF i <= Len(a) THEN a[i] ELSE b[i - Len(a)]
    <3>1. a \in Seq(Lines) /\ b \in Seq(Lines) /\ W!Script = a \o b BY <2>1, <1>4
    <3> QED BY <3>1
  <2>3. Len(a) \in {1, 3} /\ Len(b) = 6 BY <2>1, <1>4
  <2>4. W!Script \in Seq(Lines) /\ Len(W!Script) = Len(a) + 6 BY <2>2, <2>3
  <2>5. ASSUME NEW i \in 1..Len(W!Script)
        PROVE  W!Script[i].do = IF i % 2 = 1 THEN "read" ELSE "send"
    <3>1. CASE i <= Len(a) BY <2>2, <2>3, <3>1, <1>4 DEF Alternates
    <3>2. CASE i > Len(a)
      <4>1. i - Len(a) \in 1..Len(b) /\ W!Script[i] = b[i - Len(a)]
        BY <2>2, <2>3, <3>2
      <4>2. (i - Len(a) + 1) % 2 = i % 2
        <5>1. i \in Nat /\ (Len(a) = 1 \/ Len(a) = 3) BY <2>3, <2>4
        <5>2. (i - 1 + 1) % 2 = i % 2 /\ (i - 3 + 1) % 2 = i % 2 BY <5>1
        <5> QED BY <5>1, <5>2
      <4> QED BY <2>1, <4>1, <4>2 DEF Alternates
    <3> QED BY <3>1, <3>2, <2>4, <1>4
  <2>6. Alternates(W!Script, 0) BY <2>4, <2>5 DEF Alternates
  <2>7. Len(W!Script) \in Nat /\ Len(W!Script) >= 7
    <3>1. Len(W!Script) = Len(a) + 6 /\ (Len(a) = 1 \/ Len(a) = 3) BY <2>3, <2>4
    <3> QED BY <3>1
  <2> QED BY <2>4, <2>6, <2>7
<1>5. ASSUME kind = "aion" PROVE Joined
  <2> DEFINE a == <<W!Read("SM_KEY", 184), W!Send("CM_AUTH_GG", 39), W!Read("SM_AUTH_GG", 39)>>
  <2>1. W!Script = a \o W!RetailLogin BY <1>5 DEF W!Script
  <2>2. a \in Seq(Lines) /\ Len(a) \in {1, 3}
    <3> QED BY <1>1 DEF PacketOps
  <2>3. Alternates(a, 0) BY <1>2 DEF Alternates
  <2> HIDE DEF a
  <2>4. Joined BY <1>4, <2>1, <2>2, <2>3
  <2> QED BY <2>4
<1>6. ASSUME kind = "aion_nogg" PROVE Joined
  <2> DEFINE a == <<W!Read("SM_KEY", 184)>>
  <2>1. W!Script = a \o W!RetailLogin BY <1>6 DEF W!Script
  <2>2. a \in Seq(Lines) /\ Len(a) \in {1, 3}
    <3> QED BY <1>1 DEF PacketOps
  <2>3. Alternates(a, 0) BY <1>2 DEF Alternates
  <2> HIDE DEF a
  <2>4. Joined BY <1>4, <2>1, <2>2, <2>3
  <2> QED BY <2>4
<1>7. Joined BY <1>5, <1>6 DEF W!Retail
<1>8. ASSUME NEW i \in 1..Len(W!Script)
      PROVE  W!Script[i].do = (IF i % 2 = 1 THEN "read" ELSE "send")
             /\ W!Script[i].op \in PacketOps /\ W!Script[i].size \in Nat
  <2>1. i \in Nat /\ W!Script[i] \in Lines BY <1>7
  <2>2. W!Script[i].do = IF (i + 0) % 2 = 1 THEN "read" ELSE "send"
    BY <1>7 DEF Alternates
  <2> QED BY <2>1, <2>2 DEF Lines
<1> QED BY <1>7, <1>8

\* What each side sees of the other's packets.
LEMMA WireSees ==
    ASSUME kind \in W!Retail
    PROVE  /\ W!GwOrder = <<"bf">> /\ W!PutOn = <<"bf">> /\ W!Width = 1
           /\ \A p \in WirePackets : W!GwSees(p) \in PacketOps
           /\ step # 1 => \A p \in WirePackets : W!ClientSees(p) \in PacketOps
           /\ step = 1 => W!ClientSees(W!SMKey) \in PacketOps
<1>1. W!GwOrder = <<"bf">> /\ W!PutOn = <<"bf">> /\ W!Width = 1
  BY DEF W!GwOrder, W!PutOn, W!Width, W!Retail
<1>2. W!Reverse(<<"bf">>) = <<"bf">> /\ W!Reverse(<<"bf", "pass">>) = <<"pass", "bf">>
  BY DEF W!Reverse
<1>3. W!TakeOff = IF step = 1 THEN <<"bf", "pass">> ELSE <<"bf">> BY DEF W!TakeOff
<1>4. W!SMKey.layers = <<"pass", "bf">> /\ W!SMKey.width = 1 /\ W!SMKey.op = "SM_KEY"
  BY DEF W!SMKey, W!Packet
<1>5. \A p \in WirePackets : p.layers = <<"bf">> /\ p.width = 1 /\ p.op \in PacketOps
  BY DEF WirePackets
<1>6. "SM_KEY" \in PacketOps BY DEF PacketOps
<1> HIDE DEF WirePackets, PacketOps
<1> QED BY <1>1, <1>2, <1>3, <1>4, <1>5, <1>6 DEF W!GwSees, W!ClientSees, W!Seen

\* The packets either side makes.
LEMMA WireMakes ==
    /\ \A op \in PacketOps, n \in Nat : W!AuthPacket(op, n) \in WirePackets
    /\ \A op \in PacketOps, n \in Nat : W!Packet(op, 1, W!Aligned(1, n), <<"bf">>) \in WirePackets
    /\ W!SMAuthGG \in WirePackets /\ W!SMLoginOK \in WirePackets /\ W!SMServerList \in WirePackets
    /\ W!SMPlayOK \in WirePackets /\ W!SMLoginFail \in WirePackets
<1>1. ASSUME NEW op \in PacketOps, NEW n \in Nat PROVE W!AuthPacket(op, n) \in WirePackets
  <2>1. W!Padded(n) \in Nat BY DEF W!Padded
  <2> HIDE DEF W!Padded
  <2> QED BY <2>1 DEF W!AuthPacket, W!Packet, WirePackets
<1>2. ASSUME NEW op \in PacketOps, NEW n \in Nat
      PROVE  W!Packet(op, 1, W!Aligned(1, n), <<"bf">>) \in WirePackets
  BY DEF W!Aligned, W!Packet, WirePackets
<1>3. 2 + 19 * Servers + 2 + 1 + 13 \in Nat BY WireAssumption
<1> QED BY <1>1, <1>2, <1>3 DEF W!SMAuthGG, W!SMLoginOK, W!SMServerList, W!SMPlayOK, W!SMLoginFail,
         PacketOps

\* The gateway answers or hangs up: it reads no packet without doing one of both.
LEMMA WireGateway ==
    ASSUME kind \in W!Retail, WireInv,
           W!GwGameGuard \/ W!GwLogin \/ W!GwList \/ W!GwPlay
    PROVE  WireInv'
<1>1. step # 1 /\ gw # "key" /\ toClient \in Seq(WirePackets) /\ toGateway \in Seq(WirePackets)
  BY DEF WireInv, KeyFirst, W!GwGameGuard, W!GwLogin, W!GwList, W!GwPlay, W!GwReads
<1>2. /\ toGateway' = Tail(toGateway) /\ toGateway # <<>> /\ UNCHANGED <<kind, step>>
      /\ \/ gw' = "closed" /\ toClient' = toClient
         \/ \E p \in WirePackets : toClient' = toClient \o <<p>> /\ gw' # "key"
  BY WireMakes DEF W!GwGameGuard, W!GwLogin, W!GwList, W!GwPlay, W!GwReads, W!Sends
<1>3. toGateway' \in Seq(WirePackets) BY <1>1, <1>2
<1>4. CASE gw' = "closed" /\ toClient' = toClient
  BY <1>4, <1>1, <1>2, <1>3 DEF W!NoMutualWait, W!Expected, WireInv, KeyFirst
<1>5. CASE \E p \in WirePackets : toClient' = toClient \o <<p>> /\ gw' # "key"
  <2>1. PICK p \in WirePackets : toClient' = toClient \o <<p>> /\ gw' # "key"
    BY <1>5
  <2>2. toClient' \in Seq(WirePackets) /\ toClient' # <<>> BY <1>1, <2>1
  <2>3. toClient' \o toGateway' # <<>> BY <1>3, <2>2
  <2> QED BY <1>1, <1>2, <1>3, <2>1, <2>2, <2>3 DEF WireInv, KeyFirst, W!NoMutualWait
<1> QED BY <1>2, <1>4, <1>5

\* After a reading step the client writes, and after a writing one it waits.
LEMMA WireClient ==
    ASSUME kind \in W!Retail, WireInv, W!ClientSends \/ W!ClientReads \/ W!ClientGivesUp
    PROVE  WireInv'
<1>1. step \in Nat /\ W!Script' = W!Script /\ kind' = kind
  BY DEF WireInv, W!ClientSends, W!ClientReads, W!ClientGivesUp, W!Script
<1>2. CASE W!ClientSends
  <2>1. step \in 1..Len(W!Script) /\ W!Script[step].do = "send" /\ step # 1
    BY <1>2, WireScript DEF W!ClientSends, W!AtStep
  <2>2. PICK p \in WirePackets : toGateway' = Append(toGateway, p)
    BY <1>2, <2>1, WireScript, WireSees, WireMakes DEF W!ClientSends
  <2>3. step' = step + 1 /\ UNCHANGED <<gw, toClient>> BY <1>2 DEF W!ClientSends
  <2>4. gw # "key" /\ toClient \in Seq(WirePackets) /\ toGateway \in Seq(WirePackets)
    BY <2>1 DEF WireInv, KeyFirst
  <2>5. toGateway' \in Seq(WirePackets) /\ toGateway' # <<>> BY <2>2, <2>4
  <2>6. toClient' \o toGateway' # <<>> BY <2>3, <2>4, <2>5
  <2> QED BY <1>1, <2>1, <2>3, <2>4, <2>5, <2>6 DEF WireInv, KeyFirst, W!NoMutualWait
<1>3. CASE W!ClientReads
  <2>1. /\ step \in 1..Len(W!Script) /\ step % 2 = 1 /\ toClient # <<>> /\ toClient' = Tail(toClient)
        /\ step' \in {0, step + 1} /\ UNCHANGED <<gw, toGateway>>
    BY <1>3, WireScript DEF W!ClientReads, W!AtStep
  <2>2. gw # "key" /\ toClient' \in Seq(WirePackets) /\ toGateway' \in Seq(WirePackets) /\ step' # 1
    <3>1. CASE step = 1
      <4>1. toClient = <<W!SMKey>> /\ toGateway = <<>> /\ gw = "first"
        BY <2>1, <3>1 DEF WireInv, KeyFirst
      <4>2. toClient' = <<>> BY <2>1, <4>1
      <4> QED BY <2>1, <3>1, <4>1, <4>2
    <3>2. CASE step # 1 BY <1>1, <2>1, <3>2 DEF WireInv, KeyFirst
    <3> QED BY <3>1, <3>2
  <2>3. ~W!AtStep("read")'
    <3>1. CASE step' = 0 BY <3>1 DEF W!AtStep
    <3>2. CASE step' = step + 1
      <4>1. step' % 2 = 0 BY <1>1, <2>1, <3>2
      <4>2. kind' \in W!Retail /\ (step' \in 1..Len(W!Script) => W!Script[step'].do = "send")
        BY <1>1, <4>1, WireScript
      <4> QED BY <1>1, <4>2 DEF W!AtStep
    <3> QED BY <2>1, <3>1, <3>2
  <2> QED BY <1>1, <2>1, <2>2, <2>3 DEF WireInv, KeyFirst, W!NoMutualWait
<1>4. CASE W!ClientGivesUp
  BY <1>4, <1>1 DEF W!ClientGivesUp, W!Retail, W!AtStep, WireInv, KeyFirst, W!NoMutualWait
<1> QED BY <1>2, <1>3, <1>4

LEMMA WireStep ==
    ASSUME kind \in W!Retail, WireInv, W!Next
    PROVE  WireInv'
<1>1. CASE W!GwKey
  <2>1. /\ gw = "key" /\ gw' = "first" /\ toClient' = toClient \o <<W!SMKey>>
        /\ UNCHANGED <<kind, step, toGateway>>
    BY <1>1 DEF W!GwKey, W!Sends
  <2>2. step = 1 /\ toClient = <<>> /\ toGateway = <<>>
    BY <2>1 DEF WireInv, KeyFirst
  <2>3. toClient' = <<W!SMKey>> BY <2>1, <2>2
  <2>4. toClient' \o toGateway' # <<>> BY <2>1, <2>2, <2>3
  <2> QED BY <2>1, <2>2, <2>3, <2>4 DEF WireInv, KeyFirst, W!NoMutualWait
<1>2. CASE W!GwCloses
  BY <1>2 DEF W!GwCloses, W!Expected, WireInv, KeyFirst, W!NoMutualWait
<1> QED BY <1>1, <1>2, WireGateway, WireClient DEF W!Next

LEMMA WireInvariant == Spec => [](part = "wire" /\ kind \in W!Retail => WireInv)
<1>1. Init => (part = "wire" /\ kind \in W!Retail => WireInv)
  BY DEF Init, W!Init, WireInv, KeyFirst, W!NoMutualWait, W!Expected
<1>2. (part = "wire" /\ kind \in W!Retail => WireInv) /\ [Next]_all
        => (part = "wire" /\ kind \in W!Retail => WireInv)'
  <2> SUFFICES ASSUME part = "wire", part = "wire" /\ kind \in W!Retail => WireInv, [Next]_all,
                      kind' \in W!Retail
               PROVE  WireInv'
    BY PartOfStep DEF W!Retail
  <2>1. CASE W!Next
    <3>1. kind' = kind
      BY <2>1 DEF W!Next, W!GwKey, W!GwGameGuard, W!GwLogin, W!GwList, W!GwPlay, W!GwCloses, W!GwReads,
           W!ClientSends, W!ClientReads, W!ClientGivesUp
    <3> QED BY <2>1, <3>1, WireStep
  <2>2. CASE UNCHANGED wire
    BY <2>2 DEF wire, WireInv, KeyFirst, W!NoMutualWait, W!AtStep, W!Script
  <2> QED BY <2>1, <2>2, PartOfStep
<1> QED BY <1>1, <1>2, PTL DEF Spec

\* The gateway and a retail client take off exactly the layers the other put on,
\* from the first packet, the only one with the XOR pass, to the last, and never
\* both wait for the other to write, for a server list of any length.
THEOREM WireDialogue == Spec => []AuthDialogue
<1>1. (part = "wire" /\ kind \in W!Retail => WireInv) => AuthDialogue
  <2> SUFFICES ASSUME part = "wire", kind \in W!Retail, WireInv PROVE W!Understood
    BY DEF AuthDialogue, WireInv, W!Understood, W!NoMutualWait
  <2>1. "garbage" \notin PacketOps BY DEF PacketOps
  <2>2. CASE step = 1 BY <2>2, <2>1, WireSees DEF WireInv, KeyFirst, W!Understood
  <2>3. CASE step # 1 BY <2>3, <2>1, WireSees DEF WireInv, KeyFirst, W!Understood
  <2> QED BY <2>2, <2>3
<1> QED BY <1>1, WireInvariant, PTL

LEMMA LeastNatural ==
    ASSUME NEW X, X \subseteq Nat, X # {}
    PROVE  \E x \in X : \A y \in X : x <= y
<1>1. PICK rel : rel = OpToRel(<, Nat) OBVIOUS
<1>2. IsWellFoundedOn(rel, Nat) BY <1>1, NatLessThanWellFounded
<1>3. PICK x \in X : \A y \in X : ~(<<y, x>> \in rel) BY <1>2, WFMin
<1>4. \A y \in X : <<y, x>> \in rel <=> y < x BY <1>1 DEF OpToRel
<1>5. \A y \in X : ~(y < x) BY <1>3, <1>4
<1> QED BY <1>5

LEMMA DivMod ==
    ASSUME NEW x \in Int, NEW k \in Nat \ {0}
    PROVE  /\ x = k * (x \div k) + (x % k) /\ x \div k \in Int /\ x % k \in 0..(k - 1)
           /\ x \in Nat => x \div k \in Nat
OBVIOUS

\* Quotient and rest are unique.
LEMMA DivUnique ==
    ASSUME NEW x \in Int, NEW k \in Nat \ {0}, NEW q \in Int, NEW r \in 0..(k - 1), x = k * q + r
    PROVE  x \div k = q /\ x % k = r
<1>1. PICK d \in Int : d = x \div k BY DivMod
<1>2. PICK e \in 0..(k - 1) : e = x % k BY DivMod
<1>3. k * (q - d) = e - r BY <1>1, <1>2, DivMod
<1>4. ~(q - d >= 1)
  <2>1. ASSUME q - d >= 1 PROVE k * (q - d) >= k BY <2>1
  <2> QED BY <1>3, <2>1
<1>5. ~(d - q >= 1)
  <2>1. ASSUME d - q >= 1 PROVE k * (d - q) >= k BY <2>1
  <2>2. k * (d - q) = r - e BY <1>3
  <2> QED BY <2>1, <2>2
<1> QED BY <1>1, <1>2, <1>3, <1>4, <1>5

LEMMA ModSmall ==
    ASSUME NEW k \in Nat \ {0}, NEW x \in 0..(k - 1)
    PROVE  x % k = x /\ x \div k = 0
BY x = k * 0 + x, DivUnique

\* What is added modulo k is taken off again.
LEMMA ModSub ==
    ASSUME NEW k \in Nat \ {0}, NEW x \in 0..(k - 1), NEW y \in Int
    PROVE  (((x + y) % k) - y) % k = x
<1>1. PICK r \in 0..(k - 1), q \in Int : x + y = k * q + r /\ r = (x + y) % k
  <2>1. x + y \in Int OBVIOUS
  <2> QED BY <2>1, DivMod
<1>2. r - y = k * (0 - q) + x BY <1>1
<1>3. (r - y) % k = x BY <1>2, DivUnique
<1> QED BY <1>1, <1>3

\* Half of what is not zero is smaller.
LEMMA Half ==
    ASSUME NEW x \in Nat
    PROVE  /\ x \div 2 \in Nat /\ x % 2 \in {0, 1} /\ x = 2 * (x \div 2) + (x % 2)
           /\ x # 0 => x \div 2 < x
OBVIOUS

XorStep(x, h) == [y \in Nat |-> IF x = 0 THEN y ELSE ((x + y) % 2) + 2 * h[x \div 2][y \div 2]]

Xors(h, n) == h \in [0..n -> [Nat -> Nat]] /\ \A x \in 0..n : h[x] = XorStep(x, h)

LEMMA XorStepType ==
    ASSUME NEW n \in Nat, NEW x \in 0..n, NEW h, x # 0 => h[x \div 2] \in [Nat -> Nat]
    PROVE  XorStep(x, h) \in [Nat -> Nat]
<1>1. ASSUME NEW y \in Nat, x # 0 PROVE ((x + y) % 2) + 2 * h[x \div 2][y \div 2] \in Nat
  BY <1>1, Half
<1> QED BY <1>1 DEF XorStep

\* A function of the numbers up to n that is the exclusive or there.
LEMMA XorsExist == \A n \in Nat : \E h : Xors(h, n)
<1> DEFINE fails == {n \in Nat : ~\E h : Xors(h, n)}
<1> SUFFICES ASSUME fails # {} PROVE FALSE OBVIOUS
<1>1. PICK n \in fails : \A m \in fails : n <= m BY LeastNatural
<1>2. CASE n = 0
  <2> DEFINE h == [x \in 0..0 |-> [y \in Nat |-> y]]
  <2>1. h \in [0..0 -> [Nat -> Nat]] OBVIOUS
  <2>2. ASSUME NEW x \in 0..0 PROVE h[x] = XorStep(x, h) BY DEF XorStep
  <2>3. Xors(h, 0) BY <2>1, <2>2 DEF Xors
  <2> QED BY <1>2, <2>3
<1>3. CASE n # 0
  <2>1. n - 1 \in Nat /\ n - 1 \notin fails BY <1>1, <1>3
  <2>2. PICK g : Xors(g, n - 1) BY <2>1
  <2>3. g \in [0..(n - 1) -> [Nat -> Nat]] /\ \A x \in 0..(n - 1) : g[x] = XorStep(x, g)
    BY <2>2 DEF Xors
  <2> DEFINE h == [x \in 0..n |-> IF x = n THEN XorStep(n, g) ELSE g[x]]
  <2>4. XorStep(n, g) \in [Nat -> Nat]
    <3>1. n \div 2 \in 0..(n - 1) BY <1>3, Half
    <3>2. g[n \div 2] \in [Nat -> Nat] BY <2>3, <3>1
    <3> QED BY <3>2, XorStepType
  <2>5. h \in [0..n -> [Nat -> Nat]]
    <3>1. ASSUME NEW x \in 0..n, x # n PROVE g[x] \in [Nat -> Nat] BY <3>1, <2>3
    <3> QED BY <2>4, <3>1
  <2>6. ASSUME NEW x \in 0..n PROVE h[x] = XorStep(x, h)
    <3>1. x # 0 => x \div 2 \in 0..(n - 1) /\ h[x \div 2] = g[x \div 2] BY Half
    <3>2. XorStep(x, h) = XorStep(x, g) BY <3>1 DEF XorStep
    <3> QED BY <2>3, <3>2
  <2>7. Xors(h, n) BY <2>5, <2>6 DEF Xors
  <2> QED BY <2>7
<1> QED BY <1>2, <1>3

\* There is only one.
LEMMA XorsAgree ==
    ASSUME NEW n \in Nat, NEW m \in Nat, NEW g, Xors(g, n), NEW h, Xors(h, m)
    PROVE  \A x \in 0..n : x \in 0..m => g[x] = h[x]
<1> DEFINE fails == {x \in 0..n : x \in 0..m /\ g[x] # h[x]}
<1> SUFFICES ASSUME fails # {} PROVE FALSE OBVIOUS
<1>1. PICK x \in fails : \A y \in fails : x <= y
  <2>1. fails \subseteq Nat OBVIOUS
  <2> QED BY <2>1, LeastNatural
<1>2. x # 0 => g[x \div 2] = h[x \div 2] BY Half, <1>1
<1>3. XorStep(x, g) = XorStep(x, h) BY <1>2 DEF XorStep
<1> QED BY <1>1, <1>3 DEF Xors

LEMMA XorIs == C!Xor = [x \in Nat |-> XorStep(x, C!Xor)]
<1>1. PICK u : u = [n \in Nat |-> CHOOSE h : Xors(h, n)] OBVIOUS
<1>2. ASSUME NEW n \in Nat PROVE Xors(u[n], n) BY <1>1, XorsExist
<1>3. PICK f : f = [n \in Nat |-> u[n][n]] OBVIOUS
<1>4. ASSUME NEW x \in Nat PROVE f[x] = XorStep(x, f)
  <2>1. Xors(u[x], x) BY <1>2
  <2>2. f[x] = XorStep(x, u[x]) BY <1>3, <2>1 DEF Xors
  <2>3. x # 0 => u[x][x \div 2] = f[x \div 2]
    <3>1. CASE x # 0
      <4>1. PICK d \in Nat : d = x \div 2 /\ d \in 0..x BY Half
      <4>2. Xors(u[d], d) BY <1>2
      <4>3. u[x][d] = u[d][d] BY <2>1, <4>1, <4>2, XorsAgree
      <4> QED BY <1>3, <4>1, <4>3
    <3> QED BY <3>1
  <2>4. XorStep(x, u[x]) = XorStep(x, f) BY <2>3 DEF XorStep
  <2> QED BY <2>2, <2>4
<1>5. f = [x \in Nat |-> XorStep(x, f)] BY <1>3, <1>4
<1>6. C!Xor = CHOOSE h : h = [x \in Nat |-> XorStep(x, h)] BY DEF C!Xor, XorStep
<1> QED BY <1>5, <1>6

LEMMA XorType == C!Xor \in [Nat -> [Nat -> Nat]]
<1> DEFINE fails == {n \in Nat : C!Xor[n] \notin [Nat -> Nat]}
<1>1. ASSUME fails # {} PROVE FALSE
  <2>1. PICK n \in fails : \A m \in fails : n <= m BY <1>1, LeastNatural
  <2>2. n # 0 => C!Xor[n \div 2] \in [Nat -> Nat] BY <2>1, Half
  <2>3. XorStep(n, C!Xor) \in [Nat -> Nat] BY <2>2, XorStepType
  <2>4. C!Xor[n] = XorStep(n, C!Xor) BY XorIs
  <2> QED BY <2>1, <2>3, <2>4
<1>2. C!Xor = [n \in Nat |-> C!Xor[n]] BY XorIs
<1> QED BY <1>1, <1>2

LEMMA XorTyped ==
    ASSUME NEW x \in Nat, NEW y \in Nat
    PROVE  C!Xor[x][y] \in Nat
BY XorType

\* The lowest bit, and the others.
LEMMA XorBits ==
    ASSUME NEW x \in Nat, NEW y \in Nat
    PROVE  C!Xor[x][y] = ((x + y) % 2) + 2 * C!Xor[x \div 2][y \div 2]
<1>1. C!Xor[x] = XorStep(x, C!Xor) BY XorIs
<1>2. CASE x # 0 BY <1>1, <1>2 DEF XorStep
<1>3. CASE x = 0
  <2>1. C!Xor[0] = XorStep(0, C!Xor) /\ y \div 2 \in Nat BY XorIs, Half
  <2>2. C!Xor[0][y] = y /\ C!Xor[0][y \div 2] = y \div 2 BY <2>1 DEF XorStep
  <2>3. x \div 2 = 0 /\ y = 2 * (y \div 2) + (y % 2) BY <1>3, Half
  <2> QED BY <1>3, <2>2, <2>3
<1> QED BY <1>2, <1>3

LEMMA XorZero ==
    ASSUME NEW y \in Nat
    PROVE  C!Xor[0][y] = y
BY XorIs DEF XorStep

\* Twice the same is nothing.
LEMMA XorBack == \A x, y \in Nat : C!Xor[C!Xor[x][y]][y] = x
<1> DEFINE fails == {n \in Nat : \E x, y \in Nat : n = x + y /\ C!Xor[C!Xor[x][y]][y] # x}
<1> SUFFICES ASSUME NEW u \in Nat, NEW v \in Nat, C!Xor[C!Xor[u][v]][v] # u PROVE FALSE
  OBVIOUS
<1>0. u + v \in fails OBVIOUS
<1>1. PICK n \in fails : \A m \in fails : n <= m BY <1>0, LeastNatural
<1>2. PICK x \in Nat, y \in Nat : n = x + y /\ C!Xor[C!Xor[x][y]][y] # x BY <1>1
<1>3. PICK z \in Nat : z = C!Xor[x][y] BY XorTyped
<1>4. PICK k \in Nat : k = x \div 2 /\ x = 2 * k + (x % 2) /\ x % 2 \in {0, 1}
  BY Half
<1>5. PICK l \in Nat : l = y \div 2 /\ y = 2 * l + (y % 2) /\ y % 2 \in {0, 1}
  BY Half
<1>6. PICK r \in Nat : r = C!Xor[k][l] BY XorTyped
<1>7. z = ((x + y) % 2) + 2 * r BY <1>3, <1>4, <1>5, <1>6, XorBits
<1>8. z \div 2 = r /\ (z + y) % 2 = x % 2 BY <1>4, <1>5, <1>7
<1>9. C!Xor[z][y] = (x % 2) + 2 * C!Xor[r][l]
  <2>1. C!Xor[z][y] = ((z + y) % 2) + 2 * C!Xor[z \div 2][y \div 2] BY XorBits
  <2> QED BY <1>5, <1>8, <2>1
<1>10. C!Xor[r][l] # k BY <1>2, <1>3, <1>4, <1>9
<1>11. k + l \in fails BY <1>6, <1>10
<1>12. n <= k + l BY <1>1, <1>11
<1>13. x = 0 /\ y = 0 BY <1>2, <1>4, <1>5, <1>12
<1> QED BY <1>2, <1>13, XorZero

LEMMA XorBackAt ==
    ASSUME NEW x \in Nat, NEW y \in Nat
    PROVE  C!Xor[C!Xor[x][y]][y] = x
BY XorBack

LEMMA XorSelf ==
    ASSUME NEW y \in Nat
    PROVE  C!Xor[y][y] = 0
BY XorBackAt, XorZero

\* A power of two: no bit of numbers below it lies above it.
Closed(k) == \A x, y \in 0..(k - 1) : C!Xor[x][y] \in 0..(k - 1)

\* The bits below it make an exclusive or of their own.
Splits(k) == \A x, y \in Nat : C!Xor[x][y] % k = C!Xor[x % k][y % k]

LEMMA ClosedTwice ==
    ASSUME NEW k \in Nat \ {0}, Closed(k)
    PROVE  Closed(2 * k)
<1> SUFFICES ASSUME NEW x \in 0..(2 * k - 1), NEW y \in 0..(2 * k - 1)
             PROVE  C!Xor[x][y] \in 0..(2 * k - 1)
  BY DEF Closed
<1>1. x \in Nat /\ y \in Nat /\ x \div 2 \in 0..(k - 1) /\ y \div 2 \in 0..(k - 1)
  OBVIOUS
<1>2. PICK r \in 0..(k - 1) : r = C!Xor[x \div 2][y \div 2] BY <1>1 DEF Closed
<1>3. C!Xor[x][y] = ((x + y) % 2) + 2 * r BY <1>1, <1>2, XorBits
<1> QED BY <1>1, <1>3

LEMMA ModTyped ==
    ASSUME NEW k \in Nat \ {0}, NEW x \in Int
    PROVE  x % (2 * k) \in Nat
OBVIOUS

LEMMA ModTwice ==
    ASSUME NEW k \in Nat \ {0}, NEW x \in Nat
    PROVE  /\ x % (2 * k) = (x % 2) + 2 * ((x \div 2) % k)
           /\ (x % (2 * k)) % 2 = x % 2 /\ (x % (2 * k)) \div 2 = (x \div 2) % k
<1>1. PICK h \in Nat : h = x \div 2 /\ x = 2 * h + (x % 2) /\ x % 2 \in {0, 1}
  BY Half
<1>2. PICK r \in 0..(k - 1) : r = h % k BY DivMod
<1>7. PICK q \in Int : h = k * q + r
  <2>1. h \in Int OBVIOUS
  <2> QED BY <1>2, <2>1, DivMod
<1>3. x = (2 * k) * q + (2 * r + (x % 2)) BY <1>1, <1>7
<1>4. 2 * r + (x % 2) \in 0..(2 * k - 1) /\ 2 * k \in Nat \ {0} BY <1>1, <1>2
<1>5. PICK b \in {0, 1} : b = x % 2 BY <1>1
<1>6. x % (2 * k) = 2 * r + b
  <2>1. PICK m \in Nat \ {0} : m = 2 * k OBVIOUS
  <2>2. x \in Int /\ 2 * r + b \in 0..(m - 1) /\ x = m * q + (2 * r + b)
    BY <1>3, <1>4, <1>5, <2>1
  <2>3. x % m = 2 * r + b BY <2>2, DivUnique
  <2> QED BY <2>1, <2>3
<1>8. (2 * r + b) % 2 = b /\ (2 * r + b) \div 2 = r OBVIOUS
<1> QED BY <1>1, <1>2, <1>5, <1>6, <1>8

LEMMA SplitsTwice ==
    ASSUME NEW k \in Nat \ {0}, Splits(k)
    PROVE  Splits(2 * k)
<1> SUFFICES ASSUME NEW x \in Nat, NEW y \in Nat
             PROVE  C!Xor[x][y] % (2 * k) = C!Xor[x % (2 * k)][y % (2 * k)]
  BY DEF Splits
<1>1. PICK g \in Nat : g = x \div 2 BY Half
<1>2. PICK h \in Nat : h = y \div 2 BY Half
<1>3. PICK r \in Nat : r = C!Xor[g][h] BY XorTyped
<1>4. PICK z \in Nat : z = C!Xor[x][y] /\ z = ((x + y) % 2) + 2 * r
  BY <1>1, <1>2, <1>3, XorBits, XorTyped
<1>5. z \div 2 = r /\ z % 2 = (x + y) % 2 BY <1>4
<1>6. z % (2 * k) = ((x + y) % 2) + 2 * (r % k) BY <1>5, ModTwice
<1>7. PICK v \in Nat : v = x % (2 * k) /\ v % 2 = x % 2 /\ v \div 2 = g % k
  <2>1. x % (2 * k) \in Nat BY ModTyped
  <2> QED BY <1>1, <2>1, ModTwice
<1>8. PICK w \in Nat : w = y % (2 * k) /\ w % 2 = y % 2 /\ w \div 2 = h % k
  <2>1. y % (2 * k) \in Nat BY ModTyped
  <2> QED BY <1>2, <2>1, ModTwice
<1>9. C!Xor[v][w] = ((v + w) % 2) + 2 * C!Xor[g % k][h % k]
  <2>1. C!Xor[v][w] = ((v + w) % 2) + 2 * C!Xor[v \div 2][w \div 2] BY XorBits
  <2> QED BY <1>7, <1>8, <2>1
<1>10. r % k = C!Xor[g % k][h % k] BY <1>3 DEF Splits
<1>11. (v + w) % 2 = (x + y) % 2 BY <1>7, <1>8
<1> QED BY <1>4, <1>6, <1>7, <1>8, <1>9, <1>10, <1>11

LEMMA Powers ==
    /\ Closed(2) /\ Closed(4) /\ Closed(8) /\ Closed(16) /\ Closed(32) /\ Closed(64)
    /\ Closed(128) /\ Closed(256) /\ Closed(512) /\ Closed(1024) /\ Splits(1024)
<1>1. Closed(1) /\ Splits(1) BY XorZero, XorTyped DEF Splits, Closed
<1>2. Closed(2) /\ Splits(2) BY <1>1, ClosedTwice, SplitsTwice, 2 = 2 * 1
<1>4. Closed(4) /\ Splits(4) BY <1>2, ClosedTwice, SplitsTwice, 4 = 2 * 2
<1>8. Closed(8) /\ Splits(8) BY <1>4, ClosedTwice, SplitsTwice, 8 = 2 * 4
<1>16. Closed(16) /\ Splits(16) BY <1>8, ClosedTwice, SplitsTwice, 16 = 2 * 8
<1>32. Closed(32) /\ Splits(32) BY <1>16, ClosedTwice, SplitsTwice, 32 = 2 * 16
<1>64. Closed(64) /\ Splits(64) BY <1>32, ClosedTwice, SplitsTwice, 64 = 2 * 32
<1>128. Closed(128) /\ Splits(128) BY <1>64, ClosedTwice, SplitsTwice, 128 = 2 * 64
<1>256. Closed(256) /\ Splits(256)
  BY <1>128, ClosedTwice, SplitsTwice, 256 = 2 * 128
<1>512. Closed(512) /\ Splits(512)
  BY <1>256, ClosedTwice, SplitsTwice, 512 = 2 * 256
<1>1024. Closed(1024) /\ Splits(1024)
  BY <1>512, ClosedTwice, SplitsTwice, 1024 = 2 * 512
<1> QED BY <1>2, <1>4, <1>8, <1>16, <1>32, <1>64, <1>128, <1>256, <1>512, <1>1024

\* Induction along an interval, upwards and downwards, over the set of numbers a
\* fact holds of.
LEMMA Rising ==
    ASSUME NEW m \in Nat, NEW n \in Nat, NEW X, m \in X,
           \A i \in m..(n - 1) : i \in X => i + 1 \in X
    PROVE  \A i \in m..n : i \in X
<1> DEFINE fails == {i \in m..n : i \notin X}
<1> SUFFICES ASSUME fails # {} PROVE FALSE OBVIOUS
<1>1. PICK i \in fails : \A j \in fails : i <= j
  <2>1. fails \subseteq Nat OBVIOUS
  <2> QED BY <2>1, LeastNatural
<1>2. i # m /\ i - 1 \in m..(n - 1) /\ i - 1 \notin fails /\ (i - 1) + 1 = i BY <1>1
<1>3. i - 1 \in X BY <1>2
<1> QED BY <1>1, <1>2, <1>3

LEMMA Falling ==
    ASSUME NEW m \in Nat, NEW n \in Nat, NEW X, n \in X,
           \A i \in (m + 1)..n : i \in X => i - 1 \in X
    PROVE  \A i \in m..n : i \in X
<1> SUFFICES ASSUME NEW k \in m..n PROVE k \in X OBVIOUS
<1> DEFINE Y == {j \in 0..(n - m) : n - j \in X}
<1>1. 0 \in Y OBVIOUS
<1>2. ASSUME NEW j \in 0..((n - m) - 1), j \in Y PROVE j + 1 \in Y BY <1>2
<1>3. n - m \in Nat /\ n - k \in 0..(n - m) /\ n - (n - k) = k OBVIOUS
<1> HIDE DEF Y
<1>4. n - k \in Y BY <1>1, <1>2, <1>3, Rising
<1> QED BY <1>3, <1>4 DEF Y

\* A function given by its first value and a step exists.
Chained(f, D, m, n, b, g) ==
    f \in [m..n -> D] /\ f[m] = b /\ \A i \in (m + 1)..n : f[i] = g[i][f[i - 1]]

LEMMA Chain ==
    ASSUME NEW D, NEW m \in Nat, NEW n \in Nat, m <= n, NEW b \in D,
           NEW g \in [(m + 1)..n -> [D -> D]]
    PROVE  \E f : Chained(f, D, m, n, b, g)
<1> DEFINE X == {k \in m..n : \E f : Chained(f, D, m, k, b, g)}
<1>1. m \in X
  <2> DEFINE f == [i \in m..m |-> b]
  <2>1. Chained(f, D, m, m, b, g) BY DEF Chained
  <2> QED BY <2>1
<1>2. ASSUME NEW k \in m..(n - 1), k \in X PROVE k + 1 \in X
  <2>1. PICK f : Chained(f, D, m, k, b, g) BY <1>2
  <2>0. f \in [m..k -> D] /\ f[m] = b /\ \A i \in (m + 1)..k : f[i] = g[i][f[i - 1]]
    BY <2>1 DEF Chained
  <2> DEFINE h == [i \in m..(k + 1) |-> IF i = k + 1 THEN g[k + 1][f[k]] ELSE f[i]]
  <2>2. g[k + 1] \in [D -> D] /\ f[k] \in D BY <2>0
  <2>4. h \in [m..(k + 1) -> D] BY <2>0, <2>2
  <2>5. ASSUME NEW i \in (m + 1)..(k + 1) PROVE h[i] = g[i][h[i - 1]]
    <3>1. CASE i = k + 1 BY <3>1
    <3>2. CASE i # k + 1 BY <3>2, <2>0
    <3> QED BY <3>1, <3>2
  <2>6. h[m] = b BY <2>0
  <2> HIDE DEF h
  <2>7. Chained(h, D, m, k + 1, b, g) BY <2>4, <2>5, <2>6 DEF Chained
  <2> QED BY <2>7
<1> HIDE DEF X
<1>3. \A k \in m..n : k \in X BY <1>1, <1>2, Rising
<1>4. n \in X BY <1>3
<1> QED BY <1>4 DEF X

-----------------------------------------------------------------------------
(* The first packet.                                                       *)

Words == 0..(Word - 1)
Bytes == 0..(Byte - 1)

LEMMA Sized ==
    Word \in Nat \ {0} /\ Byte \in Nat \ {0} /\ Words \subseteq Nat /\ Bytes \subseteq Nat
    /\ Byte >= 2 /\ 0 \in Words /\ 0 \in Bytes
BY CodecAssumption DEF Words, Bytes

LEMMA XorOfWords ==
    ASSUME NEW x \in Words, NEW y \in Words
    PROVE  C!Xor[x][y] \in Words
BY XorTyped, CodecAssumption DEF Words

LEMMA XorOfBytes ==
    ASSUME NEW x \in Bytes, NEW y \in Bytes
    PROVE  C!Xor[x][y] \in Bytes
BY XorTyped, CodecAssumption DEF Bytes

LEMMA ModWord ==
    ASSUME NEW x \in Int
    PROVE  x % Word \in Words
BY CodecAssumption, DivMod DEF Words

AccIs(acc, ws, key) ==
    acc = [i \in 1..Len(ws) |-> IF i = 1 THEN key ELSE (acc[i - 1] + ws[i]) % Word]

LEMMA AccumulatorIs ==
    ASSUME NEW n \in Nat, n >= 1, NEW ws \in [1..n -> Words], Len(ws) = n, NEW key \in Words
    PROVE  /\ C!Accumulator(ws, key) \in [1..n -> Words]
           /\ \A i \in 2..n : C!Accumulator(ws, key)[i] = (C!Accumulator(ws, key)[i - 1] + ws[i]) % Word
<1>1. PICK g : g = [i \in (1 + 1)..n |-> [x \in Words |-> (x + ws[i]) % Word]]
  OBVIOUS
<1>2. g \in [(1 + 1)..n -> [Words -> Words]]
  <2>1. ASSUME NEW i \in (1 + 1)..n, NEW x \in Words PROVE (x + ws[i]) % Word \in Words
    <3>1. x + ws[i] \in Int BY DEF Words
    <3> QED BY <3>1, ModWord
  <2> QED BY <1>1, <2>1
<1>3. PICK f \in [1..n -> Words] : f[1] = key /\ \A i \in (1 + 1)..n : f[i] = g[i][f[i - 1]]
  <2>1. \E f : Chained(f, Words, 1, n, key, g) BY <1>2, Chain
  <2> QED BY <2>1 DEF Chained
<1>4. ASSUME NEW i \in 2..n PROVE f[i] = (f[i - 1] + ws[i]) % Word BY <1>1, <1>3
<1>5. AccIs(f, ws, key) BY <1>3, <1>4 DEF AccIs
<1>6. C!Accumulator(ws, key) = CHOOSE acc : AccIs(acc, ws, key)
  BY DEF C!Accumulator, AccIs
<1>7. PICK a : a = C!Accumulator(ws, key) /\ AccIs(a, ws, key) BY <1>5, <1>6
<1>8. \A i \in 2..n : a[i] = (a[i - 1] + ws[i]) % Word BY <1>7 DEF AccIs
<1>9. \A i \in 1..n : a[i] = f[i]
  <2> DEFINE X == {i \in 1..n : a[i] = f[i]}
  <2>1. 1 \in X BY <1>3, <1>7 DEF AccIs
  <2>2. ASSUME NEW i \in 1..(n - 1), i \in X PROVE i + 1 \in X BY <1>4, <1>8, <2>2
  <2> HIDE DEF X
  <2>3. \A i \in 1..n : i \in X BY <2>1, <2>2, Rising
  <2> QED BY <2>3 DEF X
<1>10. a = f BY <1>7, <1>9 DEF AccIs
<1> QED BY <1>4, <1>7, <1>10

UndoIs(u, ps) ==
    u = [i \in 2..C!SeedAt(Len(ps)) |->
            IF i = C!SeedAt(Len(ps)) THEN [word |-> ps[i], acc |-> ps[i]]
            ELSE [word |-> C!Xor[ps[i]][u[i + 1].acc],
                  acc |-> (u[i + 1].acc - C!Xor[ps[i]][u[i + 1].acc]) % Word]]

\* decXORPass gives every word back but the one that holds the accumulator.
LEMMA PassBack ==
    ASSUME NEW n \in Nat, n >= 3, NEW ws \in [1..n -> Words], NEW key \in Words
    PROVE  \E ds \in Seq(Words) : /\ ds = C!DecXORPass(C!EncXORPass(ws, key)) /\ Len(ds) = n
                                  /\ \A i \in 1..(n - 2) : ds[i] = ws[i]
<1>1. Len(ws) = n /\ C!SeedAt(n) = n - 1 BY DEF C!SeedAt
<1>2. PICK acc : acc = C!Accumulator(ws, key) OBVIOUS
<1>3. acc \in [1..n -> Words] /\ \A i \in 2..n : acc[i] = (acc[i - 1] + ws[i]) % Word
  <2>1. n >= 1 OBVIOUS
  <2> QED BY <1>1, <1>2, <2>1, AccumulatorIs
<1>4. PICK ps : ps = C!EncXORPass(ws, key) OBVIOUS
<1>5. ps = [i \in 1..n |-> IF i = n - 1 THEN acc[n - 2]
                           ELSE IF i \in 2..(n - 2) THEN C!Xor[ws[i]][acc[i]] ELSE ws[i]]
  BY <1>1, <1>2, <1>4 DEF C!EncXORPass
<1>6. Len(ps) = n BY <1>5
<1>20. ps[n - 1] = acc[n - 2] BY <1>5
<1>18. PICK l \in Nat : l = n - 1 /\ C!SeedAt(Len(ps)) = l BY <1>1, <1>6
<1>7. PICK h : h = [i \in 2..(n - 1) |-> IF i = n - 1 THEN [word |-> acc[n - 2], acc |-> acc[n - 2]]
                                         ELSE [word |-> ws[i], acc |-> acc[i - 1]]]
  OBVIOUS
<1>8. \A i \in 2..(n - 1) : h[i].acc = acc[i - 1] /\ (i # n - 1 => h[i].word = ws[i])
  BY <1>7
<1>9. ASSUME NEW i \in 2..(n - 2), NEW v, v = acc[i]
      PROVE  C!Xor[ps[i]][v] = ws[i] /\ (v - C!Xor[ps[i]][v]) % Word = acc[i - 1]
  <2>1. ps[i] = C!Xor[ws[i]][v] BY <1>5, <1>9
  <2>2. ws[i] \in Nat /\ v \in Nat /\ acc[i - 1] \in Words /\ i \in 2..n
    BY <1>3, <1>9 DEF Words
  <2>3. C!Xor[ps[i]][v] = ws[i] BY <2>1, <2>2, XorBackAt
  <2>4. PICK w \in Nat : w = ws[i] BY <2>2
  <2>5. PICK x \in 0..(Word - 1) : x = acc[i - 1] BY <2>2 DEF Words
  <2>6. v = (x + w) % Word BY <1>3, <1>9, <2>2, <2>4, <2>5
  <2>7. ((((x + w) % Word) - w) % Word) = x
    <3>1. Word \in Nat \ {0} /\ w \in Int BY Sized
    <3> QED BY <3>1, ModSub
  <2> QED BY <2>3, <2>4, <2>5, <2>6, <2>7
<1>19. ASSUME NEW u, UndoIs(u, ps)
       PROVE  /\ u[n - 1] = [word |-> ps[n - 1], acc |-> ps[n - 1]]
              /\ \A i \in 2..(n - 2) :
                    u[i] = [word |-> C!Xor[ps[i]][u[i + 1].acc],
                            acc |-> (u[i + 1].acc - C!Xor[ps[i]][u[i + 1].acc]) % Word]
  <2>1. u = [i \in 2..l |-> IF i = l THEN [word |-> ps[i], acc |-> ps[i]]
                            ELSE [word |-> C!Xor[ps[i]][u[i + 1].acc],
                                  acc |-> (u[i + 1].acc - C!Xor[ps[i]][u[i + 1].acc]) % Word]]
    BY <1>18, <1>19 DEF UndoIs
  <2>2. l \in 2..l /\ \A i \in 2..(n - 2) : i \in 2..l /\ i # l BY <1>18
  <2> QED BY <1>18, <2>1, <2>2
<1>10. UndoIs(h, ps)
  <2>1. ASSUME NEW i \in 2..(n - 1), i # n - 1
        PROVE  h[i] = [word |-> C!Xor[ps[i]][h[i + 1].acc],
                       acc |-> (h[i + 1].acc - C!Xor[ps[i]][h[i + 1].acc]) % Word]
    <3>1. i \in 2..(n - 2) /\ i + 1 \in 2..(n - 1) /\ (i + 1) - 1 = i BY <2>1
    <3>2. h[i + 1].acc = acc[i] BY <1>8, <3>1
    <3>3. h[i] = [word |-> ws[i], acc |-> acc[i - 1]] BY <1>7, <2>1
    <3> QED BY <1>9, <3>1, <3>2, <3>3
  <2>2. h[n - 1] = [word |-> ps[n - 1], acc |-> ps[n - 1]] BY <1>5, <1>7
  <2>3. h = [i \in 2..l |-> h[i]] BY <1>7, <1>18
  <2>4. \A i \in 2..l : h[i] = IF i = l THEN [word |-> ps[i], acc |-> ps[i]]
                               ELSE [word |-> C!Xor[ps[i]][h[i + 1].acc],
                                     acc |-> (h[i + 1].acc - C!Xor[ps[i]][h[i + 1].acc]) % Word]
    BY <1>18, <2>1, <2>2
  <2> QED BY <1>18, <2>3, <2>4 DEF UndoIs
<1>11. PICK u : UndoIs(u, ps) /\ u = CHOOSE v : UndoIs(v, ps) BY <1>10
<1>12. \A i \in 2..(n - 1) : u[i].acc = acc[i - 1] /\ (i # n - 1 => u[i].word = ws[i])
  <2> DEFINE X == {i \in 2..(n - 1) : u[i].acc = acc[i - 1] /\ (i # n - 1 => u[i].word = ws[i])}
  <2>1. n - 1 \in X BY <1>11, <1>19, <1>20
  <2>2. ASSUME NEW i \in (2 + 1)..(n - 1), i \in X PROVE i - 1 \in X
    <3>2. u[i].acc = acc[i - 1] BY <2>2
    <3>3. u[i - 1] = [word |-> C!Xor[ps[i - 1]][u[i].acc],
                      acc |-> (u[i].acc - C!Xor[ps[i - 1]][u[i].acc]) % Word]
      BY <1>11, <1>19
    <3>4. C!Xor[ps[i - 1]][u[i].acc] = ws[i - 1]
          /\ (u[i].acc - C!Xor[ps[i - 1]][u[i].acc]) % Word = acc[(i - 1) - 1]
      BY <1>9, <3>2
    <3> QED BY <3>3, <3>4
  <2> HIDE DEF X
  <2>3. l \in X /\ \A i \in (2 + 1)..l : i \in X => i - 1 \in X BY <1>18, <2>1, <2>2
  <2>4. \A i \in 2..l : i \in X BY <2>3, Falling
  <2> QED BY <1>18, <2>4 DEF X
<1>13. C!DecXORPass(ps) = [i \in 1..n |-> IF i \in 2..(n - 1) THEN u[i].word ELSE ps[i]]
  <2>1. C!DecXORPass(ps) = LET v == CHOOSE v : UndoIs(v, ps)
                           IN  IF Len(ps) < 3 THEN ps
                               ELSE [i \in 1..Len(ps) |-> IF i \in 2..C!SeedAt(Len(ps)) THEN v[i].word
                                                          ELSE ps[i]]
    BY DEF C!DecXORPass, UndoIs
  <2> QED BY <1>6, <1>11, <1>18, <2>1
<1>14. PICK ds : ds = C!DecXORPass(ps) OBVIOUS
<1>15. ASSUME NEW i \in 1..n PROVE ds[i] \in Words /\ (i <= n - 2 => ds[i] = ws[i])
  <2>1. CASE i \in 2..(n - 2) BY <1>12, <1>13, <1>14, <2>1
  <2>2. CASE i = n - 1 BY <1>11, <1>19, <1>20, <1>3, <1>13, <1>14, <2>2
  <2>3. CASE i = 1 \/ i = n BY <1>5, <1>13, <1>14, <2>3
  <2> QED BY <2>1, <2>2, <2>3
<1>16. DOMAIN ds = 1..n BY <1>13, <1>14
<1>17. ds \in Seq(Words) /\ Len(ds) = n BY <1>13, <1>14, <1>15
<1> QED BY <1>4, <1>14, <1>15, <1>17

\* Whatever the content of SM_KEY and the key of the pass, the words a peer
\* gets from decXORPass are the content encXORPass was given.
THEOREM FirstPacketBack ==
    ASSUME NEW k \in Nat \ {0}, NEW content \in [1..k -> Words], NEW key \in Words
    PROVE  SubSeq(C!DecXORPass(C!FirstPacket(content, key)), 1, Len(content)) = content
<1>1. PICK ws : ws = content \o C!Zeros(2) OBVIOUS
<1>2. content \in Seq(Words) /\ Len(content) = k /\ C!Zeros(2) \in Seq(Words) /\ Len(C!Zeros(2)) = 2
  BY CodecAssumption DEF C!Zeros, Words
<1>12. PICK zs \in Seq(Words) : zs = C!Zeros(2) /\ Len(zs) = 2 BY <1>2
<1>13. PICK c \in Seq(Words) : c = content /\ Len(c) = k BY <1>2
<1>14. ws = c \o zs BY <1>1, <1>12, <1>13
<1>3. ws \in Seq(Words) /\ Len(ws) = k + 2 /\ \A i \in 1..k : ws[i] = content[i]
  <2>1. c \o zs \in Seq(Words) /\ Len(c \o zs) = Len(c) + Len(zs) OBVIOUS
  <2>2. ASSUME NEW i \in 1..k PROVE ws[i] = content[i] BY <1>13, <1>14
  <2> QED BY <1>12, <1>13, <1>14, <2>1, <2>2
<1>4. PICK n \in Nat : n = k + 2 OBVIOUS
<1>5. ws \in [1..n -> Words] /\ n >= 3 BY <1>3, <1>4
<1>6. PICK ds \in Seq(Words) : /\ ds = C!DecXORPass(C!EncXORPass(ws, key)) /\ Len(ds) = n
                               /\ \A i \in 1..(n - 2) : ds[i] = ws[i]
  BY <1>5, PassBack
<1>7. C!FirstPacket(content, key) = C!EncXORPass(ws, key) BY <1>1 DEF C!FirstPacket
<1>8. PICK head : head = SubSeq(ds, 1, k) OBVIOUS
<1>9. head = [i \in 1..k |-> ds[i]] BY <1>6, <1>8, <1>4
<1>10. head = [i \in 1..k |-> content[i]] BY <1>3, <1>4, <1>6, <1>9
<1>11. head = content BY <1>10
<1> QED BY <1>2, <1>6, <1>7, <1>8, <1>11

-----------------------------------------------------------------------------
(* Sequences of numbers.                                                   *)

LEMMA SeqEqual ==
    ASSUME NEW s \in Seq(Nat), NEW t \in Seq(Nat), Len(s) = Len(t), \A i \in 1..Len(s) : s[i] = t[i]
    PROVE  s = t
OBVIOUS

LEMMA ConcatIs ==
    ASSUME NEW s \in Seq(Nat), NEW t \in Seq(Nat)
    PROVE  /\ s \o t \in Seq(Nat) /\ Len(s \o t) = Len(s) + Len(t)
           /\ \A i \in 1..Len(s) : (s \o t)[i] = s[i]
           /\ \A i \in 1..Len(t) : (s \o t)[Len(s) + i] = t[i]
OBVIOUS

Sliced(s, d, l) == SubSeq(s, d + 1, d + l)

LEMMA Slice ==
    ASSUME NEW s \in Seq(Nat), NEW d \in Nat, NEW l \in Nat, d + l <= Len(s)
    PROVE  /\ Sliced(s, d, l) \in Seq(Nat) /\ Len(Sliced(s, d, l)) = l
           /\ \A i \in 1..l : Sliced(s, d, l)[i] = s[d + i]
<1>1. PICK x : x = Sliced(s, d, l) OBVIOUS
<1>2. x = [i \in 1..l |-> s[d + i]] BY <1>1 DEF Sliced
<1>4. x \in Seq(Nat) /\ Len(x) = l BY <1>2
<1> QED BY <1>1, <1>2, <1>4

-----------------------------------------------------------------------------
(* The XOR stream.                                                         *)

\* The states before each byte, by what is added for it.
LEMMA StatesExist ==
    ASSUME NEW n \in Nat, NEW state \in Nat, NEW added \in [1..n -> [Nat -> Nat]]
    PROVE  \E b \in [1..(n + 1) -> Nat] :
             b[1] = state /\ \A i \in 1..n : b[i + 1] = (b[i] + added[i][b[i]]) % Word
<1>1. PICK g : g = [i \in (1 + 1)..(n + 1) |-> [x \in Nat |-> (x + added[i - 1][x]) % Word]]
  OBVIOUS
<1>2. g \in [(1 + 1)..(n + 1) -> [Nat -> Nat]]
  <2>1. ASSUME NEW i \in (1 + 1)..(n + 1), NEW x \in Nat PROVE (x + added[i - 1][x]) % Word \in Nat
    <3>2. x + added[i - 1][x] \in Int OBVIOUS
    <3> QED BY <3>2, ModWord, Sized
  <2> QED BY <1>1, <2>1
<1>3. PICK m \in Nat : m = n + 1 OBVIOUS
<1>4. PICK f : Chained(f, Nat, 1, m, state, g)
  <2>1. 1 <= m BY <1>3
  <2> QED BY <1>2, <1>3, <2>1, Chain
<1>5. f \in [1..(n + 1) -> Nat] /\ f[1] = state
      /\ \A i \in (1 + 1)..(n + 1) : f[i] = g[i][f[i - 1]]
  BY <1>3, <1>4 DEF Chained
<1>6. ASSUME NEW i \in 1..n PROVE f[i + 1] = (f[i] + added[i][f[i]]) % Word
  <2>1. i + 1 \in (1 + 1)..(n + 1) /\ (i + 1) - 1 = i /\ i \in 1..(n + 1) OBVIOUS
  <2>2. f[i] \in Nat /\ f[i + 1] = g[i + 1][f[i]] BY <1>5, <2>1
  <2> QED BY <1>1, <2>1, <2>2
<1> QED BY <1>5, <1>6

OnStates(b, n) == b = [i \in 1..(n + 1) |-> b[i]]

\* Two functions that begin alike and go on alike are one.
LEMMA SameStates ==
    ASSUME NEW n \in Nat, NEW b, NEW c, OnStates(b, n), OnStates(c, n), b[1] = c[1],
           \A i \in 1..n : b[i] = c[i] => b[i + 1] = c[i + 1]
    PROVE  b = c
<1>1. PICK m \in Nat : m = n + 1 OBVIOUS
<1> DEFINE X == {i \in 1..m : c[i] = b[i]}
<1>2. 1 \in X BY <1>1
<1>3. ASSUME NEW i \in 1..(m - 1), i \in X PROVE i + 1 \in X BY <1>1, <1>3
<1> HIDE DEF X
<1>4. \A i \in 1..m : i \in X BY <1>2, <1>3, Rising
<1> QED BY <1>1, <1>4 DEF X, OnStates

LEMMA LowTyped ==
    ASSUME NEW x \in Nat
    PROVE  C!Low(x) \in Bytes
BY Sized, DivMod DEF C!Low, Bytes

Encoded(b, r, bytes, state, n) ==
    /\ b \in [1..(n + 1) -> Nat] /\ b[1] = state
    /\ \A i \in 1..n : b[i + 1] = (b[i] + C!Xor[bytes[i]][C!Low(b[i])]) % Word
    /\ r = [state |-> b[n + 1], out |-> [i \in 1..n |-> C!Xor[bytes[i]][C!Low(b[i])]]]

LEMMA EncodeIs ==
    ASSUME NEW n \in Nat, NEW bytes \in [1..n -> Bytes], NEW state \in Nat
    PROVE  \E b : Encoded(b, C!Encode(state, bytes), bytes, state, n)
<1>1. PICK added : added = [i \in 1..n |-> [x \in Nat |-> C!Xor[bytes[i]][C!Low(x)]]]
  OBVIOUS
<1>2. ASSUME NEW i \in 1..n, NEW x \in Nat PROVE C!Xor[bytes[i]][C!Low(x)] \in Nat
  BY LowTyped, XorTyped, Sized
<1>3. added \in [1..n -> [Nat -> Nat]] BY <1>1, <1>2
<1>4. PICK b \in [1..(n + 1) -> Nat] :
        b[1] = state /\ \A i \in 1..n : b[i + 1] = (b[i] + added[i][b[i]]) % Word
  BY <1>3, StatesExist
<1>7. ASSUME NEW i \in 1..n PROVE b[i + 1] = (b[i] + C!Xor[bytes[i]][C!Low(b[i])]) % Word
  <2>1. b[i] \in Nat BY <1>4
  <2> QED BY <1>1, <1>4, <2>1
<1> DEFINE Eqn(c) == c = [i \in 1..(n + 1) |-> IF i = 1 THEN state
                              ELSE (c[i - 1] + C!Xor[bytes[i - 1]][C!Low(c[i - 1])]) % Word]
<1>8. Eqn(b)
  <2>1. b = [i \in 1..(n + 1) |-> b[i]] BY <1>4
  <2>2. ASSUME NEW i \in 1..(n + 1), i # 1
        PROVE  b[i] = (b[i - 1] + C!Xor[bytes[i - 1]][C!Low(b[i - 1])]) % Word
    <3>1. i - 1 \in 1..n /\ (i - 1) + 1 = i BY <2>2
    <3> QED BY <1>7, <3>1
  <2> QED BY <1>4, <2>1, <2>2
<1>9. ASSUME NEW c, Eqn(c) PROVE c = b
  <2>1. c[1] = state /\ c = [i \in 1..(n + 1) |-> c[i]] BY <1>9
  <2>2. ASSUME NEW i \in 1..n
        PROVE  c[i + 1] = (c[i] + C!Xor[bytes[i]][C!Low(c[i])]) % Word
    <3>1. i + 1 \in 1..(n + 1) /\ i + 1 # 1 /\ (i + 1) - 1 = i OBVIOUS
    <3> QED BY <1>9, <3>1
  <2>3. OnStates(b, n) /\ OnStates(c, n) BY <2>1, <1>4 DEF OnStates
  <2>4. \A i \in 1..n : b[i] = c[i] => b[i + 1] = c[i + 1] BY <1>7, <2>2
  <2>5. b[1] = c[1] BY <1>4, <2>1
  <2> QED BY <2>3, <2>4, <2>5, SameStates
<1> DEFINE d == CHOOSE c : Eqn(c)
<1>10. d = b BY <1>8, <1>9
<1>11. Len(bytes) = n OBVIOUS
<1>12. C!Encode(state, bytes)
       = [state |-> d[Len(bytes) + 1],
          out |-> [i \in 1..Len(bytes) |-> C!Xor[bytes[i]][C!Low(d[i])]]]
  BY <1>11 DEF C!Encode
<1> HIDE DEF d
<1> QED BY <1>4, <1>7, <1>10, <1>11, <1>12 DEF Encoded

Decoded(b, r, bytes, state, n) ==
    /\ b \in [1..(n + 1) -> Nat] /\ b[1] = state
    /\ \A i \in 1..n : b[i + 1] = (b[i] + bytes[i]) % Word
    /\ r = [state |-> b[n + 1], out |-> [i \in 1..n |-> C!Xor[bytes[i]][C!Low(b[i])]]]

LEMMA DecodeIs ==
    ASSUME NEW n \in Nat, NEW bytes \in [1..n -> Bytes], NEW state \in Nat
    PROVE  \E b : Decoded(b, C!Decode(state, bytes), bytes, state, n)
<1>1. PICK added : added = [i \in 1..n |-> [x \in Nat |-> bytes[i]]] OBVIOUS
<1>3. added \in [1..n -> [Nat -> Nat]] BY Sized, <1>1
<1>4. PICK b \in [1..(n + 1) -> Nat] :
        b[1] = state /\ \A i \in 1..n : b[i + 1] = (b[i] + added[i][b[i]]) % Word
  BY <1>3, StatesExist
<1>7. ASSUME NEW i \in 1..n PROVE b[i + 1] = (b[i] + bytes[i]) % Word BY <1>4, <1>1
<1> DEFINE Eqn(c) == c = [i \in 1..(n + 1) |-> IF i = 1 THEN state
                              ELSE (c[i - 1] + bytes[i - 1]) % Word]
<1>8. Eqn(b)
  <2>1. b = [i \in 1..(n + 1) |-> b[i]] BY <1>4
  <2>2. ASSUME NEW i \in 1..(n + 1), i # 1
        PROVE  b[i] = (b[i - 1] + bytes[i - 1]) % Word
    BY <2>2, <1>7
  <2> QED BY <1>4, <2>1, <2>2
<1>9. ASSUME NEW c, Eqn(c) PROVE c = b
  <2>1. c[1] = state /\ c = [i \in 1..(n + 1) |-> c[i]] BY <1>9
  <2>2. ASSUME NEW i \in 1..n
        PROVE  c[i + 1] = (c[i] + bytes[i]) % Word
    BY <1>9
  <2>3. OnStates(b, n) /\ OnStates(c, n) BY <2>1, <1>4 DEF OnStates
  <2>4. \A i \in 1..n : b[i] = c[i] => b[i + 1] = c[i + 1] BY <1>7, <2>2
  <2>5. b[1] = c[1] BY <1>4, <2>1
  <2> QED BY <2>3, <2>4, <2>5, SameStates
<1> DEFINE d == CHOOSE c : Eqn(c)
<1>10. d = b BY <1>8, <1>9
<1>11. Len(bytes) = n OBVIOUS
<1>12. C!Decode(state, bytes)
       = [state |-> d[Len(bytes) + 1],
          out |-> [i \in 1..Len(bytes) |-> C!Xor[bytes[i]][C!Low(d[i])]]]
  BY <1>11 DEF C!Decode
<1> HIDE DEF d
<1> QED BY <1>4, <1>7, <1>10, <1>11, <1>12 DEF Decoded

\* XORCipher.Decode, begun in the state Encode began in, gives any bytes back
\* and ends in the state Encode ended in.
THEOREM StreamBack ==
    ASSUME NEW bytes \in Seq(Bytes), NEW state \in Nat
    PROVE  \E e, d : /\ e = C!Encode(state, bytes) /\ d = C!Decode(state, e.out)
                     /\ e.state \in Nat /\ d.state = e.state /\ d.out = bytes
<1>1. PICK n \in Nat : n = Len(bytes) OBVIOUS
<1>2. bytes \in [1..n -> Bytes] BY <1>1
<1>3. PICK b : Encoded(b, C!Encode(state, bytes), bytes, state, n) BY <1>2, EncodeIs
<1>11. /\ b \in [1..(n + 1) -> Nat] /\ b[1] = state
       /\ \A i \in 1..n : b[i + 1] = (b[i] + C!Xor[bytes[i]][C!Low(b[i])]) % Word
       /\ C!Encode(state, bytes)
          = [state |-> b[n + 1], out |-> [i \in 1..n |-> C!Xor[bytes[i]][C!Low(b[i])]]]
  BY <1>3 DEF Encoded
<1>4. PICK es : es = [i \in 1..n |-> C!Xor[bytes[i]][C!Low(b[i])]] OBVIOUS
<1>5. es \in [1..n -> Bytes]
  <2>1. ASSUME NEW i \in 1..n PROVE C!Xor[bytes[i]][C!Low(b[i])] \in Bytes
    BY <1>2, <1>11, LowTyped, XorOfBytes
  <2> QED BY <1>4, <2>1
<1>6. PICK c : Decoded(c, C!Decode(state, es), es, state, n) BY <1>5, DecodeIs
<1>12. /\ c \in [1..(n + 1) -> Nat] /\ c[1] = state
       /\ \A i \in 1..n : c[i + 1] = (c[i] + es[i]) % Word
       /\ C!Decode(state, es)
          = [state |-> c[n + 1], out |-> [i \in 1..n |-> C!Xor[es[i]][C!Low(c[i])]]]
  BY <1>6 DEF Decoded
<1>7. b = c
  <2>1. OnStates(b, n) /\ OnStates(c, n) /\ b[1] = c[1] BY <1>11, <1>12 DEF OnStates
  <2>2. \A i \in 1..n : b[i] = c[i] => b[i + 1] = c[i + 1] BY <1>4, <1>11, <1>12
  <2> QED BY <2>1, <2>2, SameStates
<1>8. ASSUME NEW i \in 1..n PROVE C!Xor[es[i]][C!Low(c[i])] = bytes[i]
  <2>0. b[i] \in Nat /\ bytes[i] \in Bytes BY <1>2, <1>11
  <2>1. b[i] \in Nat /\ bytes[i] \in Nat BY <2>0, Sized
  <2>2. C!Low(b[i]) \in Nat BY <2>1, LowTyped, Sized
  <2> QED BY <1>4, <1>7, <2>1, <2>2, XorBackAt
<1>9. [i \in 1..n |-> C!Xor[es[i]][C!Low(c[i])]] = bytes BY <1>2, <1>8
<1>10. b[n + 1] \in Nat BY <1>11
<1>13. PICK e : e = C!Encode(state, bytes) OBVIOUS
<1>14. e.out = es /\ e.state = b[n + 1] BY <1>4, <1>11, <1>13
<1>15. PICK d : d = C!Decode(state, es) OBVIOUS
<1>16. d.out = bytes /\ d.state = c[n + 1] BY <1>9, <1>12, <1>15
<1> QED BY <1>7, <1>10, <1>13, <1>14, <1>15, <1>16

-----------------------------------------------------------------------------
(* The checksum.                                                           *)

Summed(u, ws, r, n) ==
    /\ u \in [0..n -> Nat] /\ u[0] = 0 /\ \A i \in 1..n : u[i] = C!Xor[u[i - 1]][ws[i]]
    /\ r = u[n]

Alike(u, v, n) == \A i \in 0..n : u[i] = v[i]

LEMMA SummedAlike ==
    ASSUME NEW n \in Nat, NEW u, NEW v, u[0] = v[0],
           \A i \in 1..n : u[i - 1] = v[i - 1] => u[i] = v[i]
    PROVE  Alike(u, v, n)
<1> DEFINE X == {i \in 0..n : u[i] = v[i]}
<1>1. 0 \in X OBVIOUS
<1>2. ASSUME NEW i \in 0..(n - 1), i \in X PROVE i + 1 \in X BY <1>2
<1> HIDE DEF X
<1>3. \A i \in 0..n : i \in X BY <1>1, <1>2, Rising
<1> QED BY <1>3 DEF X, Alike

LEMMA XorAllIs ==
    ASSUME NEW n \in Nat, NEW ws, Len(ws) = n, \A i \in 1..n : ws[i] \in Nat
    PROVE  \E u : Summed(u, ws, C!XorAll(ws), n)
<1>1. PICK g : g = [i \in (0 + 1)..n |-> [x \in Nat |-> C!Xor[x][ws[i]]]] OBVIOUS
<1>2. g \in [(0 + 1)..n -> [Nat -> Nat]]
  <2>1. ASSUME NEW i \in (0 + 1)..n, NEW x \in Nat PROVE C!Xor[x][ws[i]] \in Nat
    <3>1. ws[i] \in Nat OBVIOUS
    <3> QED BY <3>1, XorTyped
  <2> QED BY <1>1, <2>1
<1>3. PICK u : Chained(u, Nat, 0, n, 0, g)
  <2>1. 0 <= n /\ 0 \in Nat OBVIOUS
  <2> QED BY <1>2, <2>1, Chain
<1>4. u \in [0..n -> Nat] /\ u[0] = 0 /\ \A i \in (0 + 1)..n : u[i] = g[i][u[i - 1]]
  BY <1>3 DEF Chained
<1>5. ASSUME NEW i \in 1..n PROVE u[i] = C!Xor[u[i - 1]][ws[i]]
  <2>1. i \in (0 + 1)..n /\ i - 1 \in 0..n OBVIOUS
  <2>2. u[i - 1] \in Nat BY <1>4, <2>1
  <2> QED BY <1>1, <1>4, <2>1, <2>2
<1> DEFINE Eqn(v) == v = [i \in 0..n |-> IF i = 0 THEN 0 ELSE C!Xor[v[i - 1]][ws[i]]]
<1>6. Eqn(u)
  <2>1. u = [i \in 0..n |-> u[i]] BY <1>4
  <2>2. ASSUME NEW i \in 0..n, i # 0 PROVE u[i] = C!Xor[u[i - 1]][ws[i]]
    <3>1. i \in 1..n BY <2>2
    <3> QED BY <1>5, <3>1
  <2> QED BY <1>4, <2>1, <2>2
<1>7. ASSUME NEW v, Eqn(v) PROVE v = u
  <2>1. v[0] = 0 /\ v = [i \in 0..n |-> v[i]] /\ u = [i \in 0..n |-> u[i]]
    BY <1>4, <1>7
  <2>2. ASSUME NEW i \in 1..n PROVE v[i] = C!Xor[v[i - 1]][ws[i]]
    <3>1. i \in 0..n /\ i # 0 OBVIOUS
    <3> QED BY <1>7, <3>1
  <2>3. \A i \in 1..n : v[i - 1] = u[i - 1] => v[i] = u[i] BY <1>5, <2>2
  <2>4. v[0] = u[0] BY <1>4, <2>1
  <2>5. Alike(v, u, n) BY <2>3, <2>4, SummedAlike
  <2> QED BY <2>1, <2>5 DEF Alike
<1> DEFINE d == CHOOSE v : Eqn(v)
<1>8. d = u BY <1>6, <1>7
<1>9. C!XorAll(ws) = d[n] BY DEF C!XorAll
<1> HIDE DEF d
<1> QED BY <1>4, <1>5, <1>8, <1>9 DEF Summed

\* The words of a body and their checksum add up to nothing.
LEMMA ChecksumZero ==
    ASSUME NEW k \in Nat, NEW content \in [1..k -> Words]
    PROVE  C!XorAll(C!Checksum(Append(content, 0))) = 0
<1>2. PICK n \in Nat : n = k + 1 OBVIOUS
<1>3. PICK ws : ws = Append(content, 0) OBVIOUS
<1>4. ws \in Seq(Words) /\ Len(ws) = n /\ \A i \in 1..k : ws[i] = content[i]
  <2>1. 0 \in Words BY Sized
  <2>2. PICK c \in Seq(Words) : c = content /\ Len(c) = k OBVIOUS
  <2>3. Append(c, 0) \in Seq(Words) /\ Len(Append(c, 0)) = k + 1 BY <2>1, <2>2
  <2>4. \A i \in 1..k : Append(c, 0)[i] = c[i] BY <2>2
  <2> QED BY <1>2, <1>3, <2>2, <2>3, <2>4
<1>5. SubSeq(ws, 1, n - 1) = content
  <2>1. n - 1 = k /\ k <= Len(ws) BY <1>2, <1>4
  <2>2. PICK head : head = SubSeq(ws, 1, k) OBVIOUS
  <2>3. head = [i \in 1..k |-> ws[i]] BY <1>4, <2>1, <2>2
  <2>5. head = content BY <1>4, <2>3
  <2> QED BY <2>1, <2>2, <2>5
<1>6. \A i \in 1..k : content[i] \in Nat BY Sized
<1>7. PICK u : Summed(u, content, C!XorAll(content), k) BY <1>6, XorAllIs
<1>8. PICK x \in Nat : x = C!XorAll(content) /\ x = u[k] BY <1>7 DEF Summed
<1>9. PICK cs : cs = C!Checksum(ws) OBVIOUS
<1>10. cs = [ws EXCEPT ![n] = x] BY <1>4, <1>5, <1>8, <1>9 DEF C!Checksum
<1>11. n \in 1..n /\ DOMAIN ws = 1..n /\ \A i \in 1..k : i \in 1..n /\ i # n
  BY <1>2, <1>4
<1>12. Len(cs) = n /\ cs[n] = x /\ \A i \in 1..k : cs[i] = content[i]
  <2>1. cs \in [1..n -> Nat]
    <3>1. ws \in [1..n -> Words] BY <1>4
    <3>2. ws \in [1..n -> Nat] BY <3>1, Sized
    <3> QED BY <1>10, <3>2
  <2> QED BY <1>4, <1>10, <1>11, <2>1
<1>13. \A i \in 1..n : cs[i] \in Nat
  <2>1. ASSUME NEW i \in 1..n PROVE i = n \/ i \in 1..k BY <1>2
  <2> QED BY <1>6, <1>8, <1>12, <2>1
<1>14. PICK v : Summed(v, cs, C!XorAll(cs), n) BY <1>12, <1>13, XorAllIs
<1>15. Alike(v, u, k)
  <2>1. v[0] = u[0] BY <1>7, <1>14 DEF Summed
  <2>2. ASSUME NEW i \in 1..k, v[i - 1] = u[i - 1] PROVE v[i] = u[i]
    <3>1. v[i] = C!Xor[v[i - 1]][cs[i]] BY <1>11, <1>14 DEF Summed
    <3>2. u[i] = C!Xor[u[i - 1]][content[i]] BY <1>7 DEF Summed
    <3> QED BY <1>12, <2>2, <3>1, <3>2
  <2> QED BY <2>1, <2>2, SummedAlike
<1>16. C!XorAll(cs) = C!Xor[v[n - 1]][cs[n]] BY <1>11, <1>14 DEF Summed
<1>17. v[n - 1] = x BY <1>2, <1>8, <1>15 DEF Alike
<1> QED BY <1>3, <1>8, <1>9, <1>12, <1>16, <1>17, XorSelf

LEMMA PaddedClear ==
    ASSUME NEW size \in Nat
    PROVE  C!Padded(size) % 8 = 0 /\ C!Padded(size) - 4 >= 1 + size
BY DEF C!Padded

-----------------------------------------------------------------------------
(* The modulus.                                                            *)

Moduli == [0..127 -> Nat]

LEMMA HalvedTwice ==
    ASSUME NEW m \in Moduli
    PROVE  C!Halved(m) \in Moduli /\ C!Halved(C!Halved(m)) = m
<1>1. PICK h : h = C!Halved(m) OBVIOUS
<1>2. h = [i \in 0..127 |-> IF i < 64 THEN C!Xor[m[i]][m[64 + i]] ELSE m[i]]
  BY <1>1 DEF C!Halved, Moduli
<1>3. ASSUME NEW i \in 0..127, i < 64
      PROVE  C!Xor[m[i]][m[64 + i]] \in Nat /\ C!Xor[h[i]][h[64 + i]] = m[i]
  <2>1. m[i] \in Nat /\ m[64 + i] \in Nat BY <1>3 DEF Moduli
  <2>2. h[i] = C!Xor[m[i]][m[64 + i]] /\ h[64 + i] = m[64 + i] BY <1>2, <1>3
  <2> QED BY <2>1, <2>2, XorTyped, XorBackAt
<1>4. h \in Moduli BY <1>2, <1>3 DEF Moduli
<1>5. C!Halved(h) = [i \in 0..127 |-> IF i < 64 THEN C!Xor[h[i]][h[64 + i]] ELSE h[i]]
  BY <1>4 DEF C!Halved, Moduli
<1>6. \A i \in 0..127 : ~(i < 64) => h[i] = m[i] BY <1>2
<1>7. C!Halved(h) = [i \in 0..127 |-> m[i]] BY <1>3, <1>5, <1>6
<1> QED BY <1>1, <1>4, <1>7 DEF Moduli

LEMMA MiddledTwice ==
    ASSUME NEW m \in Moduli
    PROVE  C!Middled(m) \in Moduli /\ C!Middled(C!Middled(m)) = m
<1>1. PICK h : h = C!Middled(m) OBVIOUS
<1>2. h = [i \in 0..127 |-> IF i \in 13..16 THEN C!Xor[m[i]][m[39 + i]] ELSE m[i]]
  BY <1>1 DEF C!Middled, Moduli
<1>3. ASSUME NEW i \in 0..127, i \in 13..16
      PROVE  C!Xor[m[i]][m[39 + i]] \in Nat /\ C!Xor[h[i]][h[39 + i]] = m[i]
  <2>1. m[i] \in Nat /\ m[39 + i] \in Nat BY <1>3 DEF Moduli
  <2>2. h[i] = C!Xor[m[i]][m[39 + i]] /\ h[39 + i] = m[39 + i] BY <1>2, <1>3
  <2> QED BY <2>1, <2>2, XorTyped, XorBackAt
<1>4. h \in Moduli BY <1>2, <1>3 DEF Moduli
<1>5. C!Middled(h) = [i \in 0..127 |-> IF i \in 13..16 THEN C!Xor[h[i]][h[39 + i]] ELSE h[i]]
  BY <1>4 DEF C!Middled, Moduli
<1>6. \A i \in 0..127 : i \notin 13..16 => h[i] = m[i] BY <1>2
<1>7. C!Middled(h) = [i \in 0..127 |-> m[i]] BY <1>3, <1>5, <1>6
<1> QED BY <1>1, <1>4, <1>7 DEF Moduli

LEMMA DoubledTwice ==
    ASSUME NEW m \in Moduli
    PROVE  C!Doubled(m) \in Moduli /\ C!Doubled(C!Doubled(m)) = m
<1>1. PICK h : h = C!Doubled(m) OBVIOUS
<1>2. h = [i \in 0..127 |-> IF i >= 64 THEN C!Xor[m[i]][m[i - 64]] ELSE m[i]]
  BY <1>1 DEF C!Doubled, Moduli
<1>3. ASSUME NEW i \in 0..127, i >= 64
      PROVE  C!Xor[m[i]][m[i - 64]] \in Nat /\ C!Xor[h[i]][h[i - 64]] = m[i]
  <2>1. m[i] \in Nat /\ m[i - 64] \in Nat BY <1>3 DEF Moduli
  <2>2. h[i] = C!Xor[m[i]][m[i - 64]] /\ h[i - 64] = m[i - 64] BY <1>2, <1>3
  <2> QED BY <2>1, <2>2, XorTyped, XorBackAt
<1>4. h \in Moduli BY <1>2, <1>3 DEF Moduli
<1>5. C!Doubled(h) = [i \in 0..127 |-> IF i >= 64 THEN C!Xor[h[i]][h[i - 64]] ELSE h[i]]
  BY <1>4 DEF C!Doubled, Moduli
<1>6. \A i \in 0..127 : ~(i >= 64) => h[i] = m[i] BY <1>2
<1>7. C!Doubled(h) = [i \in 0..127 |-> m[i]] BY <1>3, <1>5, <1>6
<1> QED BY <1>1, <1>4, <1>7 DEF Moduli

LEMMA SwappedTwice ==
    ASSUME NEW m \in Moduli
    PROVE  C!Swapped(m) \in Moduli /\ C!Swapped(C!Swapped(m)) = m
<1>1. PICK h : h = C!Swapped(m) OBVIOUS
<1>2. h = [i \in 0..127 |-> IF i \in 0..3 THEN m[77 + i] ELSE IF i \in 77..80 THEN m[i - 77] ELSE m[i]]
  BY <1>1 DEF C!Swapped, Moduli
<1>3. h \in Moduli BY <1>2 DEF Moduli
<1>4. C!Swapped(h)
      = [i \in 0..127 |-> IF i \in 0..3 THEN h[77 + i] ELSE IF i \in 77..80 THEN h[i - 77] ELSE h[i]]
  BY <1>3 DEF C!Swapped, Moduli
<1>5. \A i \in 0..3 : h[77 + i] = m[i] BY <1>2
<1>6. \A i \in 77..80 : h[i - 77] = m[i] BY <1>2
<1>7. \A i \in 0..127 : i \notin 0..3 /\ i \notin 77..80 => h[i] = m[i] BY <1>2
<1>8. C!Swapped(h) = [i \in 0..127 |-> m[i]] BY <1>4, <1>5, <1>6, <1>7
<1> QED BY <1>1, <1>3, <1>8 DEF Moduli

\* UnscrambleModulus gives back every modulus that ScrambledModulus was given.
THEOREM ModulusRead ==
    ASSUME NEW m \in Moduli
    PROVE  C!UnscrambleModulus(C!ScrambledModulus(m)) = m
<1>1. PICK x \in Moduli : x = C!Swapped(m) /\ C!Swapped(x) = m BY SwappedTwice
<1>2. PICK y \in Moduli : y = C!Halved(x) /\ C!Halved(y) = x BY HalvedTwice
<1>3. PICK z \in Moduli : z = C!Middled(y) /\ C!Middled(z) = y BY MiddledTwice
<1>4. PICK w \in Moduli : w = C!Doubled(z) /\ C!Doubled(w) = z BY DoubledTwice
<1> QED BY <1>1, <1>2, <1>3, <1>4 DEF C!UnscrambleModulus, C!ScrambledModulus

-----------------------------------------------------------------------------
(* The credentials.                                                        *)

FilledUp(t, s, n) == t \in Seq(Nat) /\ Len(t) = n
                   /\ \A i \in 1..n : t[i] = IF i <= Len(s) THEN s[i] ELSE 0

LEMMA FillIs ==
    ASSUME NEW n \in Nat, NEW s \in Seq(Nat), Len(s) <= n
    PROVE  FilledUp(C!Fill(s, n), s, n)
<1>1. PICK zs : zs = C!Zeros(n - Len(s)) OBVIOUS
<1>2. zs \in Seq(Nat) /\ Len(zs) = n - Len(s) /\ \A i \in 1..(n - Len(s)) : zs[i] = 0
  BY <1>1 DEF C!Zeros
<1>3. PICK t : t = s \o zs OBVIOUS
<1>4. t \in Seq(Nat) /\ Len(t) = n BY <1>2, <1>3
<1>5. ASSUME NEW i \in 1..n PROVE t[i] = IF i <= Len(s) THEN s[i] ELSE 0
  BY <1>2, <1>3
<1> QED BY <1>1, <1>3, <1>4, <1>5 DEF FilledUp, C!Fill

\* What was filled up with zeros ends where they begin.
LEMMA NullTermIs ==
    ASSUME NEW n \in Nat, NEW s \in Seq(Nat), Len(s) <= n, \A i \in 1..Len(s) : s[i] # 0,
           NEW t, FilledUp(t, s, n)
    PROVE  C!NullTerm(t) = s
<1>1. t \in Seq(Nat) /\ Len(t) = n /\ \A i \in 1..n : t[i] = IF i <= Len(s) THEN s[i] ELSE 0
  BY DEF FilledUp
<1>2. PICK k \in Nat : k = Len(s) OBVIOUS
<1> DEFINE nulls == {i \in DOMAIN t : t[i] = 0}
<1>3. \A i : i \in nulls <=> i \in (k + 1)..n BY <1>1, <1>2
<1>4. CASE k = n
  <2>1. nulls = {} BY <1>3, <1>4
  <2>2. C!NullTerm(t) = t BY <2>1 DEF C!NullTerm
  <2>3. t = s
    <3>1. Len(t) = Len(s) /\ \A i \in 1..Len(t) : t[i] = s[i] BY <1>1, <1>2, <1>4
    <3> QED BY <1>1, <3>1, SeqEqual
  <2> QED BY <2>2, <2>3
<1>5. CASE k # n
  <2>1. k + 1 \in nulls /\ \A j \in nulls : k + 1 <= j BY <1>2, <1>3, <1>5
  <2>2. (CHOOSE i \in nulls : \A j \in nulls : i <= j) = k + 1
    <3>1. \A i \in nulls : (\A j \in nulls : i <= j) => i = k + 1 BY <1>3, <2>1
    <3> HIDE DEF nulls
    <3> QED BY <2>1, <3>1
  <2>3. nulls # {} BY <2>1
  <2>4. C!NullTerm(t) = SubSeq(t, 1, (CHOOSE i \in nulls : \A j \in nulls : i <= j) - 1)
    BY <2>3 DEF C!NullTerm
  <2>5. C!NullTerm(t) = SubSeq(t, 1, k)
    <3> HIDE DEF nulls
    <3>1. (k + 1) - 1 = k OBVIOUS
    <3> QED BY <2>2, <2>4, <3>1
  <2>6. PICK head \in Seq(Nat) : /\ head = SubSeq(t, 1, k) /\ Len(head) = k
                                 /\ \A i \in 1..k : head[i] = t[i]
    <3>1. PICK z \in Nat : z = 0 OBVIOUS
    <3>2. z + k <= Len(t) /\ \A i \in 1..k : z + i = i BY <1>1, <1>2, <3>1
    <3>3. SubSeq(t, 1, k) = Sliced(t, z, k) BY <3>1 DEF Sliced
    <3>4. /\ Sliced(t, z, k) \in Seq(Nat) /\ Len(Sliced(t, z, k)) = k
          /\ \A i \in 1..k : Sliced(t, z, k)[i] = t[z + i]
      BY <1>1, <1>2, <3>2, Slice
    <3> QED BY <3>2, <3>3, <3>4
  <2>7. \A i \in 1..k : t[i] = s[i] BY <1>1, <1>2
  <2>8. head = s BY <1>2, <2>6, <2>7, SeqEqual
  <2> QED BY <2>5, <2>6, <2>8
<1> QED BY <1>4, <1>5

\* encryptCredentials packs any account and password that fit, and when they
\* have no zero ParseCredentials reads them as they were, full places included.
THEOREM CredentialsRead ==
    ASSUME NEW account \in Seq(Nat), NEW password \in Seq(Nat),
           Len(account) <= AccountMax, Len(password) <= PasswordMax,
           \A i \in 1..Len(account) : account[i] # 0, \A i \in 1..Len(password) : password[i] # 0
    PROVE  /\ C!CredentialBlock(account, password) # <<>>
           /\ C!ParseCredentials(C!CredentialBlock(account, password)) = <<account, password>>
<1>1. AccountMax \in Nat /\ PasswordMax \in Nat BY CodecAssumption
<1>2. PICK s : s = C!Fill(account, AccountMax) OBVIOUS
<1>3. PICK t : t = C!Fill(password, PasswordMax) OBVIOUS
<1>4. FilledUp(s, account, AccountMax) /\ FilledUp(t, password, PasswordMax)
  BY <1>1, <1>2, <1>3, FillIs
<1>5. s \in Seq(Nat) /\ Len(s) = AccountMax /\ t \in Seq(Nat) /\ Len(t) = PasswordMax
  BY <1>4 DEF FilledUp
<1>6. PICK b : b = <<0>> \o s \o t OBVIOUS
<1>7. C!CredentialBlock(account, password) = b
  BY <1>1, <1>2, <1>3, <1>6 DEF C!CredentialBlock
<1>8. PICK z \in Seq(Nat) : z = <<0>> \o s /\ Len(z) = 1 + AccountMax
        /\ \A i \in 1..AccountMax : z[i + 1] = s[i]
  <2>0. <<0>> \in Seq(Nat) /\ Len(<<0>>) = 1 OBVIOUS
  <2>1. PICK o \in Seq(Nat) : o = <<0>> /\ Len(o) = 1 BY <2>0
  <2>2. o \o s \in Seq(Nat) /\ Len(o \o s) = 1 + AccountMax BY <1>5, <2>1, ConcatIs
  <2>3. \A i \in 1..AccountMax : (o \o s)[i + 1] = s[i]
    BY <1>1, <1>5, <2>1, ConcatIs
  <2> QED BY <2>1, <2>2, <2>3
<1>9. /\ b \in Seq(Nat) /\ Len(b) = 1 + AccountMax + PasswordMax
      /\ \A i \in 1..(1 + AccountMax) : b[i] = z[i]
      /\ \A i \in 1..PasswordMax : b[(1 + AccountMax) + i] = t[i]
  <2>1. b = z \o t BY <1>6, <1>8
  <2>2. b \in Seq(Nat) /\ Len(b) = 1 + AccountMax + PasswordMax
    BY <1>1, <1>5, <1>8, <2>1, ConcatIs
  <2>3. \A i \in 1..(1 + AccountMax) : b[i] = z[i]
    BY <1>1, <1>5, <1>8, <2>1, ConcatIs
  <2>4. \A i \in 1..PasswordMax : b[(1 + AccountMax) + i] = t[i]
    BY <1>5, <1>8, ConcatIs, <2>1
  <2> QED BY <2>2, <2>3, <2>4
<1>10. SubSeq(b, 2, 1 + AccountMax) = s
  <2>1. PICK x \in Seq(Nat) : /\ x = SubSeq(b, 2, 1 + AccountMax) /\ Len(x) = AccountMax
                              /\ \A i \in 1..AccountMax : x[i] = b[1 + i]
    <3>1. PICK d \in Nat : d = 1 OBVIOUS
    <3>2. d + AccountMax <= Len(b) /\ d + 1 = 2 /\ d + AccountMax = 1 + AccountMax
      BY <1>1, <1>9, <3>1
    <3>3. SubSeq(b, 2, 1 + AccountMax) = Sliced(b, d, AccountMax) BY <3>2 DEF Sliced
    <3>4. /\ Sliced(b, d, AccountMax) \in Seq(Nat) /\ Len(Sliced(b, d, AccountMax)) = AccountMax
          /\ \A i \in 1..AccountMax : Sliced(b, d, AccountMax)[i] = b[d + i]
      BY <1>1, <1>9, <3>2, Slice
    <3> QED BY <3>1, <3>3, <3>4
  <2>3. \A i \in 1..AccountMax : b[i + 1] = s[i]
    <3>1. \A i \in 1..AccountMax : i + 1 \in 1..(1 + AccountMax) BY <1>1
    <3> QED BY <1>8, <1>9, <3>1
  <2>4. \A i \in 1..AccountMax : x[i] = s[i] BY <2>1, <2>3
  <2> QED BY <1>5, <2>1, <2>4, SeqEqual
<1>11. SubSeq(b, AccountMax + 2, 1 + AccountMax + PasswordMax) = t
  <2>1. PICK d \in Nat : d = 1 + AccountMax BY <1>1
  <2>2. PICK x \in Seq(Nat) :
          /\ x = SubSeq(b, AccountMax + 2, 1 + AccountMax + PasswordMax) /\ Len(x) = PasswordMax
          /\ \A i \in 1..PasswordMax : x[i] = b[d + i]
    <3>1. d + PasswordMax <= Len(b) /\ AccountMax + 2 = d + 1
          /\ 1 + AccountMax + PasswordMax = d + PasswordMax
      BY <1>1, <1>9, <2>1
    <3>2. SubSeq(b, AccountMax + 2, 1 + AccountMax + PasswordMax) = Sliced(b, d, PasswordMax)
      BY <3>1 DEF Sliced
    <3> QED BY <1>1, <1>9, <3>1, <3>2, Slice
  <2>3. \A i \in 1..PasswordMax : x[i] = t[i] BY <1>9, <2>1, <2>2
  <2> QED BY <1>5, <2>2, <2>3, SeqEqual
<1>12. C!NullTerm(s) = account /\ C!NullTerm(t) = password BY <1>1, <1>4, NullTermIs
<1>13. C!ParseCredentials(b) = <<account, password>>
  BY <1>10, <1>11, <1>12 DEF C!ParseCredentials, C!ParsePassword
<1>14. b # <<>> BY <1>1, <1>9
<1> QED BY <1>7, <1>13, <1>14

-----------------------------------------------------------------------------
(* The opcodes.                                                            *)

\* The client's mask, sum and mask are taken off in turn.
LEMMA OpcodeBack ==
    ASSUME NEW op \in 0..1023, NEW vb \in {203, 206, 207, 213}
    PROVE  C!DecodeClientOpcode(C!EncodeClientOpcode(op, vb), vb) = op
<1>1. PICK mask \in 0..1023 : mask = C!OpcodeXORMask(vb) BY DEF C!OpcodeXORMask
<1>2. PICK sub \in {12, 14} : sub = C!ClientDecodeSub(vb) /\ sub = IF vb = 213 THEN 14 ELSE 12
  BY DEF C!ClientDecodeSub
<1>3. PICK x \in Nat : x \in 0..1023 /\ x = (op + vb) % 1024 OBVIOUS
<1>4. PICK y \in Nat : y \in 0..1023 /\ y = C!Xor[x][mask]
  <2>1. PICK k \in Nat : k = 1024 OBVIOUS
  <2>2. Closed(k) BY <2>1, Powers
  <2>3. x \in 0..(k - 1) /\ mask \in 0..(k - 1) BY <1>3, <2>1
  <2>4. C!Xor[x][mask] \in 0..(k - 1) BY <2>2, <2>3 DEF Closed
  <2>5. C!Xor[x][mask] \in 0..1023 BY <2>1, <2>4
  <2>0. mask \in Nat OBVIOUS
  <2>6. C!Xor[x][mask] \in Nat BY <2>0, XorTyped
  <2> QED BY <2>5, <2>6
<1>5. PICK z \in Nat : z \in 0..1023 /\ z = (y + sub) % 1024 OBVIOUS
<1>13. mask \in Nat OBVIOUS
<1>6. PICK w \in Nat : w = C!Xor[z][mask] BY <1>13, XorTyped
<1>7. C!EncodeClientOpcode(op, vb) = w
  BY <1>1, <1>2, <1>3, <1>4, <1>5, <1>6 DEF C!EncodeClientOpcode, C!OpWord
<1>8. C!Xor[w][mask] = z BY <1>6, <1>13, XorBackAt
<1>9. (z - sub) % 1024 = y
  <2>1. PICK k \in Nat \ {0} : k = 1024 OBVIOUS
  <2>2. y \in 0..(k - 1) /\ sub \in Int BY <1>4, <2>1
  <2>3. ((((y + sub) % k) - sub) % k) = y BY <2>2, ModSub
  <2> QED BY <1>5, <2>1, <2>3
<1>10. C!Xor[y][mask] = x BY <1>4, <1>13, XorBackAt
<1>11. (x - vb) % 1024 = op BY <1>3
<1>12. C!DecodeClientOpcode(w, vb)
       = (C!Xor[(C!Xor[w][mask] - sub) % 1024][mask] - vb) % 1024
  BY <1>1, <1>2 DEF C!DecodeClientOpcode, C!OpWord
<1> QED BY <1>7, <1>8, <1>9, <1>10, <1>11, <1>12

Versions == {203, 206, 207, 213}

\* Opcodes the server tells apart are told apart on the wire.
LEMMA ServerOpcodesApart ==
    ASSUME NEW v \in 0..1023, NEW w \in 0..1023, NEW vb \in Versions,
           C!EncodeServerOpcode(v, vb) = C!EncodeServerOpcode(w, vb)
    PROVE  v = w
<1>0. vb \in {203, 206, 207, 213} BY DEF Versions
<1>1. PICK mask \in 0..1023 : mask = C!OpcodeXORMask(vb) BY DEF C!OpcodeXORMask
<1>2. mask % 1024 = mask /\ mask \in Nat OBVIOUS
<1>3. PICK x \in Nat : x \in 0..1023 /\ x = (v + vb) % 1024 BY <1>0
<1>4. PICK y \in Nat : y \in 0..1023 /\ y = (w + vb) % 1024 BY <1>0
<1>9. \A z \in Nat : C!Xor[z][mask] % 1024 = C!Xor[z % 1024][mask]
  BY Powers, <1>2 DEF Splits
<1>5. C!EncodeServerOpcode(v, vb) = C!Xor[x][mask]
  BY <1>0, <1>1, <1>3, <1>9 DEF C!EncodeServerOpcode, C!OpWord
<1>6. C!EncodeServerOpcode(w, vb) = C!Xor[y][mask]
  BY <1>0, <1>1, <1>4, <1>9 DEF C!EncodeServerOpcode, C!OpWord
<1>7. C!Xor[C!Xor[x][mask]][mask] = x BY <1>2, XorBackAt
<1>10. C!Xor[C!Xor[y][mask]][mask] = y BY <1>2, XorBackAt
<1>8. x = y BY <1>5, <1>6, <1>7, <1>10
<1>11. vb \in 0..300 BY <1>0
<1>12. PICK k \in Nat \ {0} : k = 1024 OBVIOUS
<1>13. v \in 0..(k - 1) /\ w \in 0..(k - 1) /\ vb \in Int BY <1>11, <1>12
<1>14. ((((v + vb) % k) - vb) % k) = v /\ ((((w + vb) % k) - vb) % k) = w
  BY <1>13, ModSub
<1>15. (v + vb) % k = x /\ (w + vb) % k = y BY <1>3, <1>4, <1>12
<1> QED BY <1>8, <1>14, <1>15

-----------------------------------------------------------------------------
(* Packets.                                                                *)

\* ReadPacketFromConn takes a packet whose header has its length off a stream
\* and leaves what follows it.
THEOREM FrameRead ==
    ASSUME NEW p \in Seq(Nat), NEW q \in Seq(Nat), Len(p) >= 4, p[1] = Len(p)
    PROVE  C!ReadPacketFromConn(p \o q) = [packet |-> p, rest |-> q]
<1>1. PICK n \in Nat : n = Len(p) OBVIOUS
<1>2. PICK m \in Nat : m = Len(q) OBVIOUS
<1>3. PICK s : s = p \o q OBVIOUS
<1>4. /\ s \in Seq(Nat) /\ Len(s) = n + m
      /\ \A i \in 1..n : s[i] = p[i]
      /\ \A i \in 1..m : s[n + i] = q[i]
  BY <1>1, <1>2, <1>3, ConcatIs
<1>5. Head(s) = n
  <2>1. 1 \in 1..n /\ s # <<>> BY <1>1, <1>4
  <2> QED BY <1>1, <1>4, <2>1
<1>6. SubSeq(s, 1, n) = p
  <2>1. PICK z \in Nat : z = 0 OBVIOUS
  <2>3. z + n <= Len(s) /\ \A i \in 1..n : z + i = i BY <1>4, <2>1
  <2>4. SubSeq(s, 1, n) = Sliced(s, z, n) BY <2>1 DEF Sliced
  <2>5. /\ Sliced(s, z, n) \in Seq(Nat) /\ Len(Sliced(s, z, n)) = n
        /\ \A i \in 1..n : Sliced(s, z, n)[i] = s[z + i]
    BY <1>4, <2>3, Slice
  <2>2. PICK x \in Seq(Nat) : x = SubSeq(s, 1, n) /\ Len(x) = n /\ \A i \in 1..n : x[i] = s[i]
    BY <2>3, <2>4, <2>5
  <2> QED BY <1>1, <1>4, <2>2, SeqEqual
<1>7. SubSeq(s, n + 1, Len(s)) = q
  <2>1. n + m <= Len(s) /\ Len(s) = n + m BY <1>4
  <2>2. SubSeq(s, n + 1, Len(s)) = Sliced(s, n, m) BY <2>1 DEF Sliced
  <2>3. PICK x \in Seq(Nat) : x = SubSeq(s, n + 1, Len(s)) /\ Len(x) = m
                              /\ \A i \in 1..m : x[i] = s[n + i]
    BY <1>4, <2>1, <2>2, Slice
  <2>4. x = q BY <1>2, <1>4, <2>3, SeqEqual
  <2> QED BY <2>3, <2>4
<1>8. ~(n < 4 \/ n > Len(s)) BY <1>1, <1>4
<1> QED BY <1>3, <1>5, <1>6, <1>7, <1>8 DEF C!ReadPacketFromConn, C!MinPacketSize

LEMMA BytesIs ==
    ASSUME NEW body \in Seq(Nat), body # <<>>
    PROVE  \E p \in Seq(Nat) : /\ p = C!Bytes(body) /\ Len(p) = 2 + C!Aligned(0, Len(body))
                               /\ Len(p) >= 4 /\ (Len(p) < LengthMod => p[1] = Len(p))
<1>1. PICK k \in Nat : k = Len(body) /\ k >= 1 OBVIOUS
<1>2. PICK n \in Nat : n = C!Aligned(0, k) /\ n >= k /\ n >= 8
  <2>1. C!Aligned(0, k) = ((k + 7) \div 8) * 8 BY DEF C!Aligned
  <2>2. PICK d \in Nat : d = (k + 7) \div 8 OBVIOUS
  <2>3. d * 8 >= k /\ d >= 1 BY <1>1, <2>2
  <2> QED BY <2>1, <2>2, <2>3
<1>3. PICK f : f = C!Fill(body, n) /\ f \in Seq(Nat) /\ Len(f) = n
  BY <1>1, <1>2, FillIs DEF FilledUp
<1>4. LengthMod \in Nat \ {0} BY CodecAssumption
<1>5. PICK t \in Nat : t = (2 + n) % LengthMod
  <2>1. 2 + n \in Int OBVIOUS
  <2>2. (2 + n) % LengthMod \in 0..(LengthMod - 1) BY <1>4, <2>1, DivMod
  <2> QED BY <1>4, <2>2
<1>6. 2 + n < LengthMod => t = 2 + n
  <2>1. ASSUME 2 + n < LengthMod PROVE 2 + n \in 0..(LengthMod - 1) BY <1>4, <2>1
  <2> QED BY <1>4, <1>5, <2>1, ModSmall
<1>11. <<t, 0>> \in Seq(Nat) /\ Len(<<t, 0>>) = 2 OBVIOUS
<1>7. PICK h \in Seq(Nat) : h = <<t, 0>> /\ Len(h) = 2 /\ h[1] = t BY <1>11
<1>8. PICK p : p = h \o f OBVIOUS
<1>9. p \in Seq(Nat) /\ Len(p) = 2 + n /\ p[1] = t BY <1>7, <1>3, <1>8, ConcatIs
<1>10. p = C!Bytes(body)
  BY <1>1, <1>2, <1>3, <1>5, <1>7, <1>8 DEF C!Bytes, C!HeaderSize
<1> QED BY <1>1, <1>2, <1>6, <1>9, <1>10

-----------------------------------------------------------------------------
(* Typed fields.                                                           *)

\* A number and what is left of it behind each byte.
Rests(r, v, w) == /\ r \in [1..(w + 1) -> Nat] /\ r[1] = v
                  /\ \A i \in 1..w : r[i + 1] = r[i] \div Byte

LEMMA RestsExist ==
    ASSUME NEW v \in Nat, NEW w \in Nat
    PROVE  \E r : Rests(r, v, w)
<1>1. PICK g : g = [i \in (1 + 1)..(w + 1) |-> [x \in Nat |-> x \div Byte]] OBVIOUS
<1>2. g \in [(1 + 1)..(w + 1) -> [Nat -> Nat]]
  <2>1. \A x \in Nat : x \div Byte \in Nat BY Sized, DivMod
  <2> QED BY <1>1, <2>1
<1>3. PICK m \in Nat : m = w + 1 OBVIOUS
<1>4. PICK r : Chained(r, Nat, 1, m, v, g)
  <2>1. 1 <= m BY <1>3
  <2> QED BY <1>2, <1>3, <2>1, Chain
<1>5. r \in [1..(w + 1) -> Nat] /\ r[1] = v
      /\ \A i \in (1 + 1)..(w + 1) : r[i] = g[i][r[i - 1]]
  BY <1>3, <1>4 DEF Chained
<1>6. ASSUME NEW i \in 1..w PROVE r[i + 1] = r[i] \div Byte BY <1>5, <1>1
<1> QED BY <1>5, <1>6 DEF Rests

LEMMA LEIs ==
    ASSUME NEW v \in Nat, NEW w \in Nat, NEW r, Rests(r, v, w)
    PROVE  /\ C!LE(v, w) \in Seq(Nat) /\ Len(C!LE(v, w)) = w
           /\ \A i \in 1..w : C!LE(v, w)[i] = r[i] % Byte
<1>1. r \in [1..(w + 1) -> Nat] /\ r[1] = v /\ \A i \in 1..w : r[i + 1] = r[i] \div Byte
  BY DEF Rests
<1> DEFINE Eqn(c) == c = [i \in 1..(w + 1) |-> IF i = 1 THEN v ELSE c[i - 1] \div Byte]
<1>2. Eqn(r)
  <2>1. ASSUME NEW i \in 1..(w + 1), i # 1 PROVE r[i] = r[i - 1] \div Byte
    BY <2>1, <1>1
  <2>2. r = [i \in 1..(w + 1) |-> r[i]] BY <1>1
  <2> QED BY <1>1, <2>1, <2>2
<1>3. ASSUME NEW c, Eqn(c) PROVE c = r
  <2>1. c[1] = v /\ c = [i \in 1..(w + 1) |-> c[i]] BY <1>3
  <2>2. ASSUME NEW i \in 1..w PROVE c[i + 1] = c[i] \div Byte BY <1>3
  <2>3. OnStates(r, w) /\ OnStates(c, w) BY <1>1, <2>1 DEF OnStates
  <2>4. \A i \in 1..w : r[i] = c[i] => r[i + 1] = c[i + 1] BY <1>1, <2>2
  <2>5. r[1] = c[1] BY <1>1, <2>1
  <2> QED BY <2>3, <2>4, <2>5, SameStates
<1> DEFINE d == CHOOSE c : Eqn(c)
<1>4. d = r BY <1>2, <1>3
<1>5. C!LE(v, w) = [i \in 1..w |-> d[i] % Byte] BY DEF C!LE
<1> HIDE DEF d
<1>6. PICK s : s = C!LE(v, w) OBVIOUS
<1>7. s = [i \in 1..w |-> r[i] % Byte] BY <1>4, <1>5, <1>6
<1>8. ASSUME NEW i \in 1..w PROVE r[i] % Byte \in Nat
  <2>1. PICK x \in Nat : x = r[i] BY <1>1
  <2>2. x % Byte \in 0..(Byte - 1) BY Sized, DivMod
  <2>3. x % Byte \in Nat BY <2>2, Sized
  <2> QED BY <2>1, <2>3
<1>9. s \in Seq(Nat) /\ Len(s) = w /\ \A i \in 1..w : s[i] = r[i] % Byte
  BY <1>7, <1>8
<1> QED BY <1>6, <1>9

\* A number of so many bytes.
Fits(v, w) == \E r : Rests(r, v, w) /\ r[w + 1] = 0

\* What stands in bytes behind place d.
Stands(bytes, d, s) == d + Len(s) <= Len(bytes) /\ \A i \in 1..Len(s) : bytes[d + i] = s[i]

\* An integer is read as it was written.
LEMMA IntRead ==
    ASSUME NEW v \in Nat, NEW w \in Nat, Fits(v, w), NEW bytes \in Seq(Nat), NEW d \in Nat,
           Stands(bytes, d, C!LE(v, w))
    PROVE  /\ C!LE(v, w) \in Seq(Nat) /\ Len(C!LE(v, w)) = w
           /\ C!ReadInt(bytes, d + 1, w) = [value |-> v, pos |-> d + 1 + w]
<1>1. PICK r : Rests(r, v, w) /\ r[w + 1] = 0 BY DEF Fits
<1>2. r \in [1..(w + 1) -> Nat] /\ r[1] = v /\ \A i \in 1..w : r[i + 1] = r[i] \div Byte
  BY <1>1 DEF Rests
<1>3. PICK s : s = C!LE(v, w) OBVIOUS
<1>5. s \in Seq(Nat) /\ Len(s) = w /\ \A i \in 1..w : s[i] = r[i] % Byte
  BY <1>1, <1>3, LEIs
<1>6. d + w <= Len(bytes) /\ \A i \in 1..w : bytes[d + i] = r[i] % Byte
  BY <1>3, <1>5 DEF Stands
<1>7. PICK p \in Nat : p = d + 1 OBVIOUS
<1> DEFINE Eqn(c) == c = [i \in 0..w |-> IF i = w THEN 0 ELSE bytes[p + i] + Byte * c[i + 1]]
<1>8. ASSUME NEW i \in 0..(w - 1) PROVE r[i + 1] = bytes[p + i] + Byte * r[i + 2]
  <2>1. i + 1 \in 1..w /\ (i + 1) + 1 = i + 2 /\ p + i = d + (i + 1) BY <1>7
  <2>2. PICK x \in Nat : x = r[i + 1] BY <1>2, <2>1
  <2>3. r[i + 2] = x \div Byte /\ bytes[p + i] = x % Byte BY <1>2, <1>6, <2>1, <2>2
  <2>4. x = Byte * (x \div Byte) + (x % Byte) /\ x \div Byte \in Int /\ x % Byte \in Int
    BY Sized, DivMod
  <2>5. PICK u \in Int, z \in Int : u = Byte * (x \div Byte) /\ z = x % Byte
    BY <2>4, Sized
  <2>6. x = z + u BY <2>4, <2>5
  <2> QED BY <2>2, <2>3, <2>5, <2>6
<1> DEFINE f == [i \in 0..w |-> r[i + 1]]
<1>9. Eqn(f)
  <2>1. ASSUME NEW i \in 0..w PROVE f[i] = IF i = w THEN 0 ELSE bytes[p + i] + Byte * f[i + 1]
    BY <1>1, <1>8
  <2>2. f = [i \in 0..w |-> f[i]] OBVIOUS
  <2> HIDE DEF f
  <2> QED BY <2>1, <2>2
<1>10. ASSUME NEW c, Eqn(c) PROVE c[0] = v
  <2> DEFINE X == {i \in 0..w : c[i] = r[i + 1]}
  <2>1. w \in X BY <1>1, <1>10
  <2>2. ASSUME NEW i \in (0 + 1)..w, i \in X PROVE i - 1 \in X
    <3>1. i - 1 \in 0..(w - 1) /\ i - 1 \in 0..w /\ i - 1 # w /\ (i - 1) + 1 = i /\ (i - 1) + 2 = i + 1
      BY <2>2
    <3>2. c[i - 1] = bytes[p + (i - 1)] + Byte * c[i] BY <1>10, <3>1
    <3>3. r[i] = bytes[p + (i - 1)] + Byte * r[i + 1] BY <1>8, <3>1
    <3> QED BY <2>2, <3>1, <3>2, <3>3
  <2> HIDE DEF X
  <2>3. 0 \in 0..w OBVIOUS
  <2>4. PICK z \in Nat : z = 0 OBVIOUS
  <2>5. \A i \in z..w : i \in X BY <2>1, <2>2, <2>4, Falling
  <2>6. 0 \in X BY <2>3, <2>4, <2>5
  <2> QED BY <1>2, <2>6 DEF X
<1> HIDE DEF f
<1> DEFINE e == CHOOSE c : Eqn(c)
<1>11. e[0] = v BY <1>9, <1>10
<1>12. ~(p + w - 1 > Len(bytes)) /\ p + w = d + 1 + w BY <1>6, <1>7
<1>13. C!ReadInt(bytes, p, w) = IF p + w - 1 > Len(bytes) THEN [value |-> 0, pos |-> 0]
                                ELSE [value |-> e[0], pos |-> p + w]
  BY DEF C!ReadInt
<1> HIDE DEF e
<1> QED BY <1>3, <1>5, <1>7, <1>11, <1>12, <1>13

\* A character of one unit, and its two bytes.
LEMMA UnitBytes ==
    ASSUME NEW u \in Nat, u < Byte * Byte
    PROVE  /\ u % (Byte * Byte) = u
           /\ C!LE(u, 2) \in Seq(Nat) /\ Len(C!LE(u, 2)) = 2
           /\ C!LE(u, 2)[1] + Byte * C!LE(u, 2)[2] = u
<1>1. Byte \in Nat \ {0} /\ Byte * Byte \in Nat \ {0} BY Sized
<1>2. PICK k \in Nat \ {0} : k = Byte * Byte BY <1>1
<1>3. u % k = u BY <1>2, ModSmall
<1>4. PICK r : Rests(r, u, 2) BY RestsExist
<1>5. r[1] = u /\ r[2] = r[1] \div Byte BY <1>4 DEF Rests
<1>6. PICK q \in Nat : q = u \div Byte BY <1>1, DivMod
<1>7. u = Byte * q + (u % Byte) /\ u % Byte \in 0..(Byte - 1) BY <1>1, <1>6, DivMod
<1>8. q \in 0..(Byte - 1)
  <2>1. PICK e \in Nat : e = u % Byte BY <1>7
  <2>2. Byte * q < Byte * Byte BY <1>1, <1>7, <2>1
  <2>3. ASSUME q >= Byte PROVE FALSE BY <1>1, <2>3, <2>2
  <2> QED BY <1>1, <2>3
<1>9. q % Byte = q BY <1>1, <1>8, ModSmall
<1>14. PICK w \in Nat : w = 2 OBVIOUS
<1>10. PICK s : s = C!LE(u, w) OBVIOUS
<1>12. s \in Seq(Nat) /\ Len(s) = w /\ \A i \in 1..w : s[i] = r[i] % Byte
  <2>1. Rests(r, u, w) BY <1>4, <1>14
  <2> QED BY <1>10, <2>1, LEIs
<1>11. s[1] = u % Byte /\ s[2] = q BY <1>5, <1>6, <1>9, <1>12, <1>14
<1>13. s[1] + Byte * s[2] = u
  <2>1. PICK e \in Nat, z \in Nat : e = u % Byte /\ z = Byte * q BY <1>1, <1>7
  <2> QED BY <1>7, <1>11, <2>1
<1> QED BY <1>2, <1>3, <1>10, <1>12, <1>13, <1>14

\* The zero behind a string.
LEMMA ZeroBytes == C!LE(0, 2) \in Seq(Nat) /\ Len(C!LE(0, 2)) = 2
                   /\ C!LE(0, 2)[1] = 0 /\ C!LE(0, 2)[2] = 0
<1>1. PICK r : Rests(r, 0, 2) BY RestsExist
<1>2. 0 \div Byte = 0 /\ 0 % Byte = 0 BY Sized, ModSmall
<1>3. r[1] = 0 /\ r[2] = 0 BY <1>1, <1>2 DEF Rests
<1>4. PICK w \in Nat, v \in Nat : w = 2 /\ v = 0 OBVIOUS
<1>5. PICK s : s = C!LE(v, w) OBVIOUS
<1>6. s \in Seq(Nat) /\ Len(s) = w /\ \A i \in 1..w : s[i] = r[i] % Byte
  <2>1. Rests(r, v, w) BY <1>1, <1>4
  <2> QED BY <1>5, <2>1, LEIs
<1>7. s[1] = 0 /\ s[2] = 0 BY <1>2, <1>3, <1>4, <1>6
<1> QED BY <1>4, <1>5, <1>6, <1>7

\* Text the game's protocol carries: characters of one unit, none of them zero.
Text(rs) == rs \in Seq(Nat) /\ \A i \in 1..Len(rs) : rs[i] # 0 /\ rs[i] < Byte * Byte

Terminated(rs) == C!FlattenUnits(C!StringUnits(rs)) \o C!LE(0, 2)

LEMMA TerminatedIs ==
    ASSUME NEW rs, Text(rs), NEW n \in Nat, n = Len(rs)
    PROVE  /\ Terminated(rs) \in Seq(Nat) /\ Len(Terminated(rs)) = 2 * n + 2
           /\ \A i \in 1..n : Terminated(rs)[2 * i - 1] + Byte * Terminated(rs)[2 * i] = rs[i]
           /\ Terminated(rs)[2 * n + 1] = 0 /\ Terminated(rs)[2 * n + 2] = 0
<1>1. rs \in Seq(Nat) /\ \A i \in 1..n : rs[i] \in Nat /\ rs[i] # 0 /\ rs[i] < Byte * Byte
  BY DEF Text
<1>2. C!StringUnits(rs) = rs BY <1>1, UnitBytes DEF C!StringUnits
<1>3. PICK f : f = C!FlattenUnits(rs) OBVIOUS
<1>4. f = [i \in 1..(2 * n) |-> C!LE(rs[(i + 1) \div 2], 2)[IF i % 2 = 1 THEN 1 ELSE 2]]
  BY <1>3 DEF C!FlattenUnits
<1>5. ASSUME NEW i \in 1..(2 * n) PROVE f[i] \in Nat
  <2>1. (i + 1) \div 2 \in 1..n OBVIOUS
  <2>2. PICK j \in 1..n : j = (i + 1) \div 2 BY <2>1
  <2>3. PICK s \in Seq(Nat) : s = C!LE(rs[j], 2) /\ Len(s) = 2 BY <1>1, UnitBytes
  <2>4. s[1] \in Nat /\ s[2] \in Nat BY <2>3
  <2> QED BY <1>4, <2>2, <2>3, <2>4
<1>6. f \in Seq(Nat) /\ Len(f) = 2 * n BY <1>4, <1>5
<1>7. ASSUME NEW i \in 1..n
      PROVE  /\ 2 * i - 1 \in 1..(2 * n) /\ 2 * i \in 1..(2 * n)
             /\ f[2 * i - 1] + Byte * f[2 * i] = rs[i]
  <2>1. /\ 2 * i - 1 \in 1..(2 * n) /\ 2 * i \in 1..(2 * n)
        /\ ((2 * i - 1) + 1) \div 2 = i /\ (2 * i + 1) \div 2 = i
        /\ (2 * i - 1) % 2 = 1 /\ (2 * i) % 2 # 1
    OBVIOUS
  <2>2. f[2 * i - 1] = C!LE(rs[i], 2)[1] /\ f[2 * i] = C!LE(rs[i], 2)[2]
    BY <1>4, <2>1
  <2> QED BY <1>1, <2>1, <2>2, UnitBytes
<1>8. PICK z \in Seq(Nat) : z = C!LE(0, 2) /\ Len(z) = 2 /\ z[1] = 0 /\ z[2] = 0
  BY ZeroBytes
<1>9. PICK t : t = f \o z OBVIOUS
<1>10. /\ t \in Seq(Nat) /\ Len(t) = 2 * n + 2
       /\ \A i \in 1..(2 * n) : t[i] = f[i]
       /\ \A i \in 1..2 : t[2 * n + i] = z[i]
  <2>1. PICK l \in Nat, w \in Nat : l = Len(f) /\ w = Len(z) BY <1>6, <1>8
  <2>2. /\ t \in Seq(Nat) /\ Len(t) = l + w
        /\ \A i \in 1..l : t[i] = f[i]
        /\ \A i \in 1..w : t[l + i] = z[i]
    BY <1>6, <1>8, <1>9, <2>1, ConcatIs
  <2> QED BY <1>6, <1>8, <2>1, <2>2
<1>11. t[2 * n + 1] = 0 /\ t[2 * n + 2] = 0 BY <1>8, <1>10
<1>12. \A i \in 1..n : t[2 * i - 1] + Byte * t[2 * i] = rs[i] BY <1>7, <1>10
<1>13. t = Terminated(rs) BY <1>2, <1>3, <1>8, <1>9 DEF Terminated
<1> QED BY <1>10, <1>11, <1>12, <1>13

\* What a reader makes of text: a character that is not ASCII is marked.
Seen(rs) == [i \in 1..Len(rs) |-> IF rs[i] < Byte \div 2 THEN rs[i] ELSE C!Mark]

\* A string is read up to its zero.
LEMMA StringRead ==
    ASSUME NEW rs, Text(rs), NEW bytes \in Seq(Nat), NEW d \in Nat,
           Stands(bytes, d, Terminated(rs))
    PROVE  C!ReadString(bytes, d + 1)
           = [value |-> Seen(rs), pos |-> d + 1 + Len(Terminated(rs))]
<1>1. PICK n \in Nat : n = Len(rs) /\ rs \in Seq(Nat) BY DEF Text
<1>2. PICK m \in Nat : m = Len(bytes) OBVIOUS
<1>3. PICK p \in Nat : p = d + 1 OBVIOUS
<1>4. PICK t \in Seq(Nat) : t = Terminated(rs) /\ Len(t) = 2 * n + 2
                            /\ (\A i \in 1..n : t[2 * i - 1] + Byte * t[2 * i] = rs[i])
                            /\ t[2 * n + 1] = 0 /\ t[2 * n + 2] = 0
  BY <1>1, TerminatedIs
<1>5. d + (2 * n + 2) <= m /\ \A i \in 1..(2 * n + 2) : bytes[d + i] = t[i]
  BY <1>2, <1>4 DEF Stands
<1>6. ASSUME NEW i \in 1..n PROVE C!Unit(bytes, p + 2 * i - 2) = rs[i]
  <2>1. /\ p + 2 * i - 2 = d + (2 * i - 1) /\ (p + 2 * i - 2) + 1 = d + 2 * i
        /\ 2 * i - 1 \in 1..(2 * n + 2) /\ 2 * i \in 1..(2 * n + 2)
    BY <1>3
  <2>2. bytes[p + 2 * i - 2] = t[2 * i - 1] /\ bytes[(p + 2 * i - 2) + 1] = t[2 * i]
    BY <1>5, <2>1
  <2> QED BY <1>4, <2>2 DEF C!Unit
<1>7. C!Unit(bytes, p + 2 * n) = 0 BY <1>3, <1>4, <1>5, Sized DEF C!Unit
<1> DEFINE ends == {k \in 0..((m - p) \div 2) : p + 2*k + 1 <= m /\ C!Unit(bytes, p + 2*k) = 0}
<1>8. n \in ends BY <1>3, <1>5, <1>7
<1>9. ASSUME NEW k \in ends PROVE k \in Nat /\ n <= k
  <2>2. ASSUME ~(n <= k) PROVE FALSE
    <3>1. k + 1 \in 1..n /\ p + 2 * (k + 1) - 2 = p + 2 * k BY <1>3, <2>2
    <3>2. rs[k + 1] = 0 BY <1>6, <3>1
    <3> QED BY <1>1, <3>1, <3>2 DEF Text
  <2> QED BY <2>2
<1> DEFINE e == IF ends = {} THEN (m - p + 1) \div 2 ELSE CHOOSE k \in ends : \A j \in ends : k <= j
<1>10. e = n
  <2>1. ends # {} BY <1>8
  <2>2. \A k \in ends : (\A j \in ends : k <= j) => k = n BY <1>8, <1>9
  <2>3. \A j \in ends : n <= j BY <1>9
  <2> HIDE DEF ends
  <2> QED BY <1>8, <2>2, <2>3
<1>11. ends # {} BY <1>8
<1>12. C!ReadString(bytes, p)
       = [value |-> [i \in 1..e |-> IF C!Unit(bytes, p + 2*i - 2) < Byte \div 2
                                    THEN C!Unit(bytes, p + 2*i - 2) ELSE C!Mark],
          pos |-> p + 2*e + IF ends = {} THEN 0 ELSE 2]
  BY <1>2 DEF C!ReadString
<1> HIDE DEF ends, e
<1>13. C!ReadString(bytes, p)
       = [value |-> [i \in 1..n |-> IF C!Unit(bytes, p + 2*i - 2) < Byte \div 2
                                    THEN C!Unit(bytes, p + 2*i - 2) ELSE C!Mark],
          pos |-> p + 2*n + 2]
  BY <1>10, <1>11, <1>12
<1>14. [i \in 1..n |-> IF C!Unit(bytes, p + 2*i - 2) < Byte \div 2
                       THEN C!Unit(bytes, p + 2*i - 2) ELSE C!Mark] = Seen(rs)
  BY <1>1, <1>6 DEF Seen
<1>15. p + 2*n + 2 = d + 1 + Len(Terminated(rs)) BY <1>3, <1>4
<1> QED BY <1>3, <1>13, <1>14, <1>15

\* A field that is read back: an integer that fits, or text.
Good(f) == \/ f.kind = "int" /\ f.value \in Nat /\ f.width \in Nat /\ Fits(f.value, f.width)
           \/ f.kind = "string" /\ Text(f.runes)

LEMMA FieldRead ==
    ASSUME NEW f, Good(f), NEW bytes \in Seq(Nat), NEW d \in Nat, Stands(bytes, d, C!Write(f))
    PROVE  C!ReadField(bytes, d + 1, f)
           = [value |-> C!FieldValue(f), pos |-> d + 1 + Len(C!Write(f))]
<1>2. CASE f.kind = "int"
  <2>1. f.value \in Nat /\ f.width \in Nat /\ Fits(f.value, f.width)
    BY <1>2 DEF Good
  <2>2. C!Write(f) = C!LE(f.value, f.width) BY <1>2 DEF C!Write
  <2>3. /\ Len(C!LE(f.value, f.width)) = f.width
        /\ C!ReadInt(bytes, d + 1, f.width) = [value |-> f.value, pos |-> d + 1 + f.width]
    <3>1. PICK v \in Nat, w \in Nat : v = f.value /\ w = f.width BY <2>1
    <3>2. Fits(v, w) /\ Stands(bytes, d, C!LE(v, w)) BY <2>1, <2>2, <3>1
    <3>3. /\ Len(C!LE(v, w)) = w
          /\ C!ReadInt(bytes, d + 1, w) = [value |-> v, pos |-> d + 1 + w]
      BY <3>2, IntRead
    <3> QED BY <3>1, <3>3
  <2> QED BY <1>2, <2>2, <2>3 DEF C!ReadField, C!FieldValue
<1>3. CASE f.kind = "string"
  <2>1. Text(f.runes) BY <1>3 DEF Good
  <2>2. C!Write(f) = Terminated(f.runes) BY <1>3 DEF C!Write, Terminated
  <2>3. C!ReadString(bytes, d + 1)
        = [value |-> Seen(f.runes), pos |-> d + 1 + Len(Terminated(f.runes))]
    BY <2>1, <2>2, StringRead
  <2>4. C!FieldValue(f) = Seen(f.runes) BY <1>3, <2>1 DEF C!FieldValue, Seen, Text
  <2> QED BY <1>3, <2>2, <2>3, <2>4 DEF C!ReadField
<1> QED BY <1>2, <1>3 DEF Good

LEMMA WriteTyped ==
    ASSUME NEW f, Good(f)
    PROVE  C!Write(f) \in Seq(Nat)
<1>1. CASE f.kind = "int"
  <2>1. PICK v \in Nat, w \in Nat : v = f.value /\ w = f.width BY <1>1 DEF Good
  <2>2. PICK r : Rests(r, v, w) BY RestsExist
  <2>3. C!LE(v, w) \in Seq(Nat) BY <2>2, LEIs
  <2> QED BY <1>1, <2>1, <2>3 DEF C!Write
<1>2. CASE f.kind = "string"
  <2>1. Text(f.runes) /\ C!Write(f) = Terminated(f.runes)
    BY <1>2 DEF Good, C!Write, Terminated
  <2>2. PICK n \in Nat : n = Len(f.runes) BY <2>1 DEF Text
  <2> QED BY <2>1, <2>2, TerminatedIs
<1> QED BY <1>1, <1>2 DEF Good

Written(u, fs, k) ==
    /\ u \in [0..k -> Seq(Nat)] /\ u[0] = <<>>
    /\ \A i \in 1..k : u[i] = u[i - 1] \o C!Write(fs[i])

LEMMA WriteAllIs ==
    ASSUME NEW k \in Nat, NEW fs, DOMAIN fs = 1..k, Len(fs) = k, \A i \in 1..k : Good(fs[i])
    PROVE  \E u : Written(u, fs, k) /\ C!WriteAll(fs) = u[k]
<1>1. PICK g : g = [i \in (0 + 1)..k |-> [x \in Seq(Nat) |-> x \o C!Write(fs[i])]]
  OBVIOUS
<1>2. g \in [(0 + 1)..k -> [Seq(Nat) -> Seq(Nat)]]
  <2>1. ASSUME NEW i \in (0 + 1)..k, NEW x \in Seq(Nat) PROVE x \o C!Write(fs[i]) \in Seq(Nat)
    BY WriteTyped, ConcatIs
  <2> QED BY <1>1, <2>1
<1>3. PICK z \in Nat, e \in Seq(Nat) : z = 0 /\ e = <<>>
  <2>1. <<>> \in Seq(Nat) /\ 0 \in Nat OBVIOUS
  <2> QED BY <2>1
<1>4. PICK u : Chained(u, Seq(Nat), z, k, e, g)
  <2>1. z <= k /\ g \in [(z + 1)..k -> [Seq(Nat) -> Seq(Nat)]] BY <1>2, <1>3
  <2> QED BY <2>1, Chain
<1>5. u \in [0..k -> Seq(Nat)] /\ u[0] = <<>> /\ \A i \in (0 + 1)..k : u[i] = g[i][u[i - 1]]
  BY <1>3, <1>4 DEF Chained
<1>6. ASSUME NEW i \in 1..k PROVE u[i] = u[i - 1] \o C!Write(fs[i])
  <2>1. i \in (0 + 1)..k /\ i - 1 \in 0..k OBVIOUS
  <2>2. u[i - 1] \in Seq(Nat) /\ u[i] = g[i][u[i - 1]] BY <1>5, <2>1
  <2> QED BY <1>1, <2>1, <2>2
<1>7. Written(u, fs, k) BY <1>5, <1>6 DEF Written
<1> DEFINE Eqn(c) == c = [i \in 0..k |-> IF i = 0 THEN <<>> ELSE c[i - 1] \o C!Write(fs[i])]
<1>8. Eqn(u)
  <2>1. ASSUME NEW i \in 0..k, i # 0 PROVE u[i] = u[i - 1] \o C!Write(fs[i])
    <3>1. i \in 1..k BY <2>1
    <3> QED BY <1>6, <3>1
  <2>2. u = [i \in 0..k |-> u[i]] BY <1>5
  <2> QED BY <1>5, <2>1, <2>2
<1>9. ASSUME NEW c, Eqn(c) PROVE c[k] = u[k]
  <2> DEFINE X == {i \in 0..k : c[i] = u[i]}
  <2>1. z \in X BY <1>3, <1>5, <1>9
  <2>2. ASSUME NEW i \in z..(k - 1), i \in X PROVE i + 1 \in X
    <3>1. i + 1 \in 0..k /\ i + 1 # 0 /\ i + 1 \in 1..k /\ (i + 1) - 1 = i BY <1>3
    <3>2. c[i + 1] = c[i] \o C!Write(fs[i + 1]) BY <1>9, <3>1
    <3>3. u[i + 1] = u[i] \o C!Write(fs[i + 1]) BY <1>6, <3>1
    <3> QED BY <2>2, <3>1, <3>2, <3>3
  <2> HIDE DEF X
  <2>3. \A i \in z..k : i \in X BY <2>1, <2>2, Rising
  <2>4. k \in X BY <1>3, <2>3
  <2> QED BY <2>4 DEF X
<1> DEFINE d == CHOOSE c : Eqn(c)
<1>10. d[k] = u[k] BY <1>8, <1>9
<1>11. C!WriteAll(fs) = d[k] BY DEF C!WriteAll
<1> HIDE DEF d
<1> QED BY <1>7, <1>10, <1>11

InPlace(u, fs, k) ==
    \A i \in 1..k : /\ Stands(u[k], Len(u[i - 1]), C!Write(fs[i]))
                    /\ Len(u[i]) = Len(u[i - 1]) + Len(C!Write(fs[i]))

\* Each field stands where those before it end.
LEMMA FieldsStand ==
    ASSUME NEW k \in Nat, NEW fs, \A i \in 1..k : Good(fs[i]), NEW u, Written(u, fs, k)
    PROVE  InPlace(u, fs, k)
<1>1. u \in [0..k -> Seq(Nat)] /\ \A i \in 1..k : u[i] = u[i - 1] \o C!Write(fs[i])
  BY DEF Written
<1>2. ASSUME NEW i \in 1..k
      PROVE  /\ u[i - 1] \in Seq(Nat) /\ u[i] \in Seq(Nat)
             /\ Len(u[i]) = Len(u[i - 1]) + Len(C!Write(fs[i]))
             /\ \A j \in 1..Len(u[i - 1]) : u[i][j] = u[i - 1][j]
             /\ \A j \in 1..Len(C!Write(fs[i])) : u[i][Len(u[i - 1]) + j] = C!Write(fs[i])[j]
  <2>1. i - 1 \in 0..k /\ i \in 0..k OBVIOUS
  <2>2. PICK s \in Seq(Nat), t \in Seq(Nat) : s = u[i - 1] /\ t = C!Write(fs[i])
    BY <1>1, <2>1, WriteTyped
  <2>3. PICK x : x = s \o t /\ x = u[i] BY <1>1, <2>2
  <2>4. s \o t \in Seq(Nat) /\ Len(s \o t) = Len(s) + Len(t) BY ConcatIs
  <2>5. \A j \in 1..Len(s) : x[j] = s[j]
    <3>1. \A j \in 1..Len(s) : (s \o t)[j] = s[j] BY ConcatIs
    <3> QED BY <2>3, <3>1
  <2>6. \A j \in 1..Len(t) : x[Len(s) + j] = t[j]
    <3>1. \A j \in 1..Len(t) : (s \o t)[Len(s) + j] = t[j] BY ConcatIs
    <3> QED BY <2>3, <3>1
  <2> QED BY <2>2, <2>3, <2>4, <2>5, <2>6
<1> DEFINE X == {i \in 0..k : /\ Len(u[i]) <= Len(u[k])
                              /\ \A j \in 1..Len(u[i]) : u[k][j] = u[i][j]}
<1>3. k \in X BY <1>1
<1>4. PICK z \in Nat : z = 0 OBVIOUS
<1>5. ASSUME NEW i \in (z + 1)..k, i \in X PROVE i - 1 \in X
  <2>1. i \in 1..k /\ i - 1 \in 0..k BY <1>4
  <2>2. PICK a \in Nat, b \in Nat : a = Len(u[i - 1]) /\ b = Len(C!Write(fs[i]))
    <3>1. C!Write(fs[i]) \in Seq(Nat) BY <2>1, WriteTyped
    <3>2. u[i - 1] \in Seq(Nat) BY <1>2, <2>1
    <3>3. Len(u[i - 1]) \in Nat /\ Len(C!Write(fs[i])) \in Nat BY <3>1, <3>2
    <3> QED BY <3>3
  <2>3. Len(u[i]) = a + b /\ \A j \in 1..a : u[i][j] = u[i - 1][j]
    BY <1>2, <2>1, <2>2
  <2>4. a + b <= Len(u[k]) /\ \A j \in 1..(a + b) : u[k][j] = u[i][j] BY <1>5, <2>3
  <2>5. Len(u[k]) \in Nat BY <1>1
  <2>6. a <= Len(u[k]) /\ \A j \in 1..a : u[k][j] = u[i - 1][j] BY <2>3, <2>4, <2>5
  <2> QED BY <2>1, <2>2, <2>6
<1> HIDE DEF X
<1>6. \A i \in z..k : i \in X BY <1>3, <1>5, Falling
<1>7. ASSUME NEW i \in 1..k PROVE Stands(u[k], Len(u[i - 1]), C!Write(fs[i]))
  <2>1. i \in z..k BY <1>4
  <2>2. Len(u[i]) <= Len(u[k]) /\ \A j \in 1..Len(u[i]) : u[k][j] = u[i][j]
    BY <1>6, <2>1 DEF X
  <2>3. PICK a \in Nat, b \in Nat : a = Len(u[i - 1]) /\ b = Len(C!Write(fs[i]))
    <3>1. C!Write(fs[i]) \in Seq(Nat) BY WriteTyped
    <3>2. u[i - 1] \in Seq(Nat) BY <1>2
    <3>3. Len(u[i - 1]) \in Nat /\ Len(C!Write(fs[i])) \in Nat BY <3>1, <3>2
    <3> QED BY <3>3
  <2>4. Len(u[i]) = a + b /\ \A j \in 1..b : u[i][a + j] = C!Write(fs[i])[j]
    BY <1>2, <2>3
  <2>5. a + b <= Len(u[k]) /\ \A j \in 1..b : u[k][a + j] = C!Write(fs[i])[j]
    BY <2>2, <2>4
  <2> QED BY <2>3, <2>5 DEF Stands
<1> QED BY <1>2, <1>7 DEF InPlace

\* The Read functions give back any integers and strings that the Write functions
\* of Packet put one behind the other, integers that fit their width and strings
\* of characters of one unit.
THEOREM FieldsRead ==
    ASSUME NEW k \in Nat, NEW fs, DOMAIN fs = 1..k, Len(fs) = k, \A i \in 1..k : Good(fs[i])
    PROVE  C!ReadAll(C!WriteAll(fs), fs) = [i \in 1..k |-> C!FieldValue(fs[i])]
<1>1. PICK u : Written(u, fs, k) /\ C!WriteAll(fs) = u[k] BY WriteAllIs
<1>2. u \in [0..k -> Seq(Nat)] /\ u[0] = <<>> BY <1>1 DEF Written
<1>3. PICK bytes \in Seq(Nat) : bytes = u[k] BY <1>2
<1>9. InPlace(u, fs, k) BY <1>1, FieldsStand
<1>4. ASSUME NEW i \in 1..k
      PROVE  /\ C!ReadField(bytes, Len(u[i - 1]) + 1, fs[i]).value = C!FieldValue(fs[i])
             /\ C!ReadField(bytes, Len(u[i - 1]) + 1, fs[i]).pos = Len(u[i]) + 1
  <2>1. i - 1 \in 0..k /\ i \in 0..k OBVIOUS
  <2>2. PICK a \in Nat, b \in Nat : a = Len(u[i - 1]) /\ b = Len(C!Write(fs[i]))
    <3>1. C!Write(fs[i]) \in Seq(Nat) BY WriteTyped
    <3>2. u[i - 1] \in Seq(Nat) BY <1>2, <2>1
    <3>3. Len(u[i - 1]) \in Nat /\ Len(C!Write(fs[i])) \in Nat BY <3>1, <3>2
    <3> QED BY <3>3
  <2>3. Stands(bytes, a, C!Write(fs[i])) /\ Len(u[i]) = a + b
    BY <1>9, <1>3, <2>2 DEF InPlace
  <2>4. C!ReadField(bytes, a + 1, fs[i]) = [value |-> C!FieldValue(fs[i]), pos |-> a + 1 + b]
    BY <2>2, <2>3, FieldRead
  <2>5. a + 1 + b = Len(u[i]) + 1 BY <2>3
  <2> QED BY <2>2, <2>4, <2>5
<1> DEFINE Eqn(c) == c = [i \in 1..(k + 1) |-> IF i = 1 THEN 1
                                               ELSE C!ReadField(bytes, c[i - 1], fs[i - 1]).pos]
<1> DEFINE f == [i \in 1..(k + 1) |-> Len(u[i - 1]) + 1]
<1>5. Eqn(f)
  <2>1. ASSUME NEW i \in 1..(k + 1)
        PROVE  f[i] = IF i = 1 THEN 1 ELSE C!ReadField(bytes, f[i - 1], fs[i - 1]).pos
    <3>1. CASE i = 1 BY <1>2, <3>1
    <3>2. CASE i # 1
      <4>1. PICK j \in 1..k : j = i - 1 BY <3>2
      <4>2. f[i] = Len(u[j]) + 1 /\ f[j] = Len(u[j - 1]) + 1 BY <4>1
      <4>3. C!ReadField(bytes, Len(u[j - 1]) + 1, fs[j]).pos = Len(u[j]) + 1 BY <1>4
      <4> QED BY <3>2, <4>1, <4>2, <4>3
    <3> QED BY <3>1, <3>2
  <2>2. f = [i \in 1..(k + 1) |-> f[i]] OBVIOUS
  <2> HIDE DEF f
  <2> QED BY <2>1, <2>2
<1>6. ASSUME NEW c, Eqn(c) PROVE \A i \in 1..k : c[i] = Len(u[i - 1]) + 1
  <2>0. PICK m \in Nat : m = k + 1 OBVIOUS
  <2> DEFINE X == {i \in 1..m : c[i] = Len(u[i - 1]) + 1}
  <2>1. 1 \in X BY <1>2, <2>0, <1>6
  <2>2. ASSUME NEW i \in 1..(m - 1), i \in X PROVE i + 1 \in X
    <3>1. i \in 1..k /\ i + 1 \in 1..m /\ i + 1 # 1 /\ (i + 1) - 1 = i BY <2>0
    <3>2. c[i + 1] = C!ReadField(bytes, c[i], fs[i]).pos BY <1>6, <2>0, <3>1
    <3>3. c[i] = Len(u[i - 1]) + 1 BY <2>2
    <3>4. c[i + 1] = Len(u[i]) + 1 BY <1>4, <3>1, <3>2, <3>3
    <3> QED BY <3>1, <3>4
  <2> HIDE DEF X
  <2>3. \A i \in 1..m : i \in X BY <2>1, <2>2, Rising
  <2>4. ASSUME NEW i \in 1..k PROVE c[i] = Len(u[i - 1]) + 1 BY <2>0, <2>3 DEF X
  <2> QED BY <2>4
<1> HIDE DEF f
<1> DEFINE e == CHOOSE c : Eqn(c)
<1>7. \A i \in 1..k : e[i] = Len(u[i - 1]) + 1
  <2>1. Eqn(e) BY <1>5
  <2> HIDE DEF e
  <2> QED BY <1>6, <2>1
<1>8. C!ReadAll(bytes, fs) = [i \in 1..k |-> C!ReadField(bytes, e[i], fs[i]).value]
  BY DEF C!ReadAll
<1> HIDE DEF e
<1>10. \A i \in 1..k : C!ReadField(bytes, e[i], fs[i]).value = C!FieldValue(fs[i])
  BY <1>4, <1>7
<1> QED BY <1>1, <1>3, <1>8, <1>10

-----------------------------------------------------------------------------
(* What is drawn, and what holds of it.                                    *)

CodecInv == IF part = "codec" THEN sample = [alg |-> "none"] \/ sample \in C!Samples
            ELSE sample = [alg |-> "idle"]

LEMMA CodecStep ==
    ASSUME [Next]_all
    PROVE  part' = part /\ ((part = "codec" /\ C!Next) \/ UNCHANGED sample)
BY DEF Next, all

LEMMA CodecInvariant == Spec => []CodecInv
<1>1. Init => CodecInv BY DEF Init, CodecInv, C!Init, CodecIdle, Idle
<1>2. CodecInv /\ [Next]_all => CodecInv'
  <2> SUFFICES ASSUME CodecInv, [Next]_all PROVE CodecInv' OBVIOUS
  <2>1. part' = part /\ ((part = "codec" /\ C!Next) \/ UNCHANGED sample)
    BY CodecStep
  <2>2. CASE UNCHANGED sample
    BY <2>1, <2>2 DEF CodecInv, C!Samples, C!Passes, C!Streams, C!Moduli, C!Logins, C!Opcodes,
                      C!Sizes, C!Fields
  <2>3. CASE part = "codec" /\ C!Next
    <3>1. sample' \in C!Samples BY <2>3 DEF C!Next, C!Draw
    <3>2. C!Samples = C!Samples'
      BY DEF C!Samples, C!Passes, C!Streams, C!Moduli, C!Logins, C!Opcodes, C!Sizes, C!Fields
    <3> QED BY <2>1, <2>3, <3>1, <3>2 DEF CodecInv
  <2> QED BY <2>1, <2>2, <2>3
<1> QED BY <1>1, <1>2, PTL DEF Spec

LEMMA SampleOf ==
    ASSUME CodecInv
    PROVE  /\ C!Is("pass") => sample \in C!Passes
           /\ C!Is("stream") => sample \in C!Streams
           /\ C!Is("modulus") => sample \in C!Moduli
           /\ C!Is("login") => sample \in C!Logins
           /\ C!Is("opcode") => sample \in C!Opcodes
           /\ C!Is("size") => sample \in C!Sizes
           /\ C!Is("fields") => sample \in C!Fields
BY DEF CodecInv, C!Passes, C!Streams, C!Moduli, C!Logins, C!Opcodes, C!Sizes, C!Fields,
   C!Samples, C!Is

LEMMA PassHolds ==
    ASSUME CodecInv
    PROVE  C!PassUndone /\ (C!Is("pass") => C!XorAll(C!Checksum(Append(sample.content, 0))) = 0)
<1> SUFFICES ASSUME C!Is("pass")
             PROVE  /\ SubSeq(C!DecXORPass(C!FirstPacket(sample.content, sample.key)),
                              1, Len(sample.content)) = sample.content
                    /\ C!XorAll(C!Checksum(Append(sample.content, 0))) = 0
  BY DEF C!PassUndone
<1>1. sample \in C!Passes BY SampleOf
<1>2. PICK k \in 1..MaxWords : sample.content \in [1..k -> C!Words]
  BY <1>1 DEF C!Passes
<1>3. C!Words = Words /\ k \in Nat \ {0} BY CodecAssumption DEF C!Words, Words
<1>4. sample.key \in Words BY <1>1, <1>3 DEF C!Passes
<1>5. PICK c \in [1..k -> Words], y \in Words : c = sample.content /\ y = sample.key
  BY <1>2, <1>3, <1>4
<1>6. SubSeq(C!DecXORPass(C!FirstPacket(c, y)), 1, Len(c)) = c
  BY <1>3, FirstPacketBack
<1>7. C!XorAll(C!Checksum(Append(c, 0))) = 0 BY <1>3, ChecksumZero
<1> QED BY <1>5, <1>6, <1>7

LEMMA SizeHolds ==
    ASSUME CodecInv
    PROVE  /\ C!Is("size") => C!Padded(sample.size) % 8 = 0 /\ C!Padded(sample.size) - 4 >= 1 + sample.size
           /\ C!FramesKept
<1> SUFFICES ASSUME C!Is("size")
             PROVE  /\ C!Padded(sample.size) % 8 = 0 /\ C!Padded(sample.size) - 4 >= 1 + sample.size
                    /\ C!FramesKept
  BY DEF C!FramesKept
<1>1. sample \in C!Sizes BY SampleOf
<1>2. PICK n \in Nat, m \in {0, 3, 8} : n = sample.size /\ m = sample.next
  BY <1>1 DEF C!Sizes
<1>3. C!Padded(n) % 8 = 0 /\ C!Padded(n) - 4 >= 1 + n BY PaddedClear
<1>4. PICK x : x = [i \in 1..n |-> 7] OBVIOUS
<1>5. PICK y : y = [i \in 1..(2 + m) |-> 5] OBVIOUS
<1>6. PICK l \in Nat : l = 2 + m /\ l \in {2, 5, 10} OBVIOUS
<1>7. y \in Seq(Nat) /\ Len(y) = l /\ y # <<>> BY <1>5, <1>6
<1>8. PICK q \in Seq(Nat) : /\ q = C!Bytes(y) /\ Len(q) = 2 + C!Aligned(0, Len(y))
                            /\ Len(q) >= 4 /\ (Len(q) < LengthMod => q[1] = Len(q))
  BY <1>7, BytesIs
<1>9. Len(q) <= 18 BY <1>6, <1>7, <1>8 DEF C!Aligned
<1>10. Len(q) >= 4 /\ q[1] = Len(q) BY <1>8, <1>9, CodecAssumption
<1>11. C!ReadPacketFromConn(q) = [packet |-> q, rest |-> <<>>]
  <2>1. <<>> \in Seq(Nat) OBVIOUS
  <2>2. PICK e \in Seq(Nat) : e = <<>> BY <2>1
  <2>3. C!ReadPacketFromConn(q \o e) = [packet |-> q, rest |-> e]
    BY <1>10, FrameRead
  <2>4. q \o e = q BY <2>2
  <2> QED BY <2>2, <2>3, <2>4
<1>12. ASSUME n >= 2, Len(C!Bytes(x)) < LengthMod
       PROVE  C!ReadPacketFromConn(C!Bytes(x) \o q) = [packet |-> C!Bytes(x), rest |-> q]
  <2>1. x \in Seq(Nat) /\ Len(x) = n BY <1>4
  <2>2. x # <<>> BY <1>12, <2>1
  <2>3. PICK p \in Seq(Nat) : p = C!Bytes(x) /\ Len(p) >= 4 /\ (Len(p) < LengthMod => p[1] = Len(p))
    BY <2>1, <2>2, BytesIs
  <2>4. p[1] = Len(p) BY <1>12, <2>3
  <2>5. C!ReadPacketFromConn(p \o q) = [packet |-> p, rest |-> q]
    BY <2>3, <2>4, FrameRead
  <2> QED BY <2>3, <2>5
<1>13. C!FramesKept
  <2>1. C!FramesKept = (n >= 2 /\ Len(C!Bytes(x)) < LengthMod =>
            /\ C!ReadPacketFromConn(C!Bytes(x) \o q).packet = C!Bytes(x)
            /\ C!ReadPacketFromConn(C!ReadPacketFromConn(C!Bytes(x) \o q).rest).packet = q)
    BY <1>2, <1>4, <1>5, <1>8 DEF C!FramesKept
  <2>2. ASSUME n >= 2, Len(C!Bytes(x)) < LengthMod
        PROVE  /\ C!ReadPacketFromConn(C!Bytes(x) \o q).packet = C!Bytes(x)
               /\ C!ReadPacketFromConn(C!Bytes(x) \o q).rest = q
    BY <1>12, <2>2
  <2>3. C!ReadPacketFromConn(q).packet = q BY <1>11
  <2> QED BY <2>1, <2>2, <2>3
<1> QED BY <1>2, <1>3, <1>13

LEMMA ModulusHolds ==
    ASSUME CodecInv
    PROVE  C!ModulusBack
<1>1. PICK m : m = [i \in 0..127 |-> IF i = sample.bit THEN 1 ELSE 0] OBVIOUS
<1>2. m \in Moduli BY <1>1 DEF Moduli
<1>3. C!UnscrambleModulus(C!ScrambledModulus(m)) = m BY <1>2, ModulusRead
<1> QED BY <1>1, <1>3 DEF C!ModulusBack

LEMMA LoginHolds ==
    ASSUME CodecInv
    PROVE  C!CredentialsBack
<1> SUFFICES ASSUME C!Is("login")
             PROVE  LET block == C!CredentialBlock(sample.account, sample.password)
                    IN  IF block = <<>> THEN Len(sample.account) > AccountMax \/ Len(sample.password) > PasswordMax
                        ELSE C!ParseCredentials(block) = <<sample.account, sample.password>>
  BY DEF C!CredentialsBack
<1>1. sample \in C!Logins BY SampleOf
<1>2. PICK a \in Seq(1..2), p \in Seq(1..2) : a = sample.account /\ p = sample.password
  <2>1. PICK k \in 0..(AccountMax + 1) : sample.account \in [1..k -> 1..2]
    BY <1>1 DEF C!Logins, C!SeqsUpto
  <2>2. PICK l \in 0..(PasswordMax + 1) : sample.password \in [1..l -> 1..2]
    BY <1>1 DEF C!Logins, C!SeqsUpto
  <2>3. k \in Nat /\ l \in Nat BY CodecAssumption
  <2> QED BY <2>1, <2>2, <2>3
<1>3. CASE Len(a) > AccountMax \/ Len(p) > PasswordMax
  BY <1>2, <1>3 DEF C!CredentialBlock
<1>4. CASE Len(a) <= AccountMax /\ Len(p) <= PasswordMax
  BY <1>4, CredentialsRead, <1>2
<1> QED BY <1>3, <1>4, CodecAssumption

LEMMA StreamHolds ==
    ASSUME CodecInv
    PROVE  C!StreamInStep
<1> SUFFICES ASSUME C!Is("stream") PROVE C!StreamInStep BY DEF C!StreamInStep
<1>1. sample \in C!Streams BY SampleOf
<1>2. PICK x \in Seq(Bytes), y \in Seq(Bytes) : x = sample.first /\ y = sample.second
  <2>1. PICK k \in 0..MaxBytes : sample.first \in [1..k -> Bytes]
    BY <1>1 DEF C!Streams, C!SeqsUpto, Bytes
  <2>2. PICK l \in 0..MaxBytes : sample.second \in [1..l -> Bytes]
    BY <1>1 DEF C!Streams, C!SeqsUpto, Bytes
  <2>3. k \in Nat /\ l \in Nat BY CodecAssumption
  <2> QED BY <2>1, <2>2, <2>3
<1>3. PICK s \in Nat : s = sample.seed BY <1>1, CodecAssumption DEF C!Streams
<1>4. PICK e, d : /\ e = C!Encode(s, x) /\ d = C!Decode(s, e.out)
                  /\ e.state \in Nat /\ d.state = e.state /\ d.out = x
  BY StreamBack
<1>5. PICK t \in Nat : t = e.state BY <1>4
<1>6. PICK g, h : /\ g = C!Encode(t, y) /\ h = C!Decode(t, g.out)
                  /\ g.state \in Nat /\ h.state = g.state /\ h.out = y
  BY StreamBack
<1> QED BY <1>2, <1>3, <1>4, <1>5, <1>6 DEF C!StreamInStep

LEMMA OpcodeHolds ==
    ASSUME CodecInv
    PROVE  C!OpcodesApart
<1> SUFFICES ASSUME C!Is("opcode") PROVE C!OpcodesApart BY DEF C!OpcodesApart
<1>1. sample \in C!Opcodes BY SampleOf
<1>2. PICK v \in 0..1023, vb \in Versions : v = sample.op /\ vb = sample.version /\ v <= 600
  BY <1>1 DEF C!Opcodes, Versions
<1>5. v \in Nat /\ v <= 600 BY <1>2
<1>3. C!DecodeClientOpcode(C!EncodeClientOpcode(v, vb), vb) = v
  BY OpcodeBack DEF Versions
<1>4. ASSUME NEW d \in {1, 8, 64, 256}
      PROVE  C!EncodeServerOpcode(v, vb) # C!EncodeServerOpcode((v + d) % 1024, vb)
  <2>1. PICK w : w = v + d OBVIOUS
  <2>4. w \in 0..1023 /\ w # v BY <1>5, <2>1
  <2>2. w % 1024 = w BY <2>4
  <2>3. ASSUME C!EncodeServerOpcode(v, vb) = C!EncodeServerOpcode(w, vb) PROVE FALSE
    <3>1. v = w BY <2>3, <2>4, ServerOpcodesApart
    <3> QED BY <2>4, <3>1
  <2> QED BY <2>1, <2>2, <2>3
<1> QED BY <1>2, <1>3, <1>4 DEF C!OpcodesApart, C!OpWord

\* The integers of the samples fit.
LEMMA IntsFit == Fits(Byte + 1, 2) /\ Fits(3, 4)
<1>1. Byte \in Nat \ {0} /\ Byte >= 2 BY Sized
<1>2. 0 \div Byte = 0 /\ 1 \div Byte = 0 BY <1>1, ModSmall
<1>3. (Byte + 1) \div Byte = 1 BY <1>1, DivUnique
<1>4. 3 \div Byte \in {0, 1} BY <1>1, ModSmall
<1>5. Fits(Byte + 1, 2)
  <2>1. PICK w \in Nat, v \in Nat : w = 2 /\ v = Byte + 1 BY <1>1
  <2>2. PICK r : Rests(r, v, w) BY RestsExist
  <2>3. r[1] = v /\ r[1 + 1] = r[1] \div Byte /\ r[2 + 1] = r[2] \div Byte
    BY <2>1, <2>2 DEF Rests
  <2>4. r[2] = 1 /\ r[3] = 0 BY <1>2, <1>3, <2>1, <2>3
  <2> QED BY <2>1, <2>2, <2>4 DEF Fits
<1>6. Fits(3, 4)
  <2>1. PICK w \in Nat, v \in Nat : w = 4 /\ v = 3 OBVIOUS
  <2>2. PICK r : Rests(r, v, w) BY RestsExist
  <2>3. /\ r[1] = v /\ r[1 + 1] = r[1] \div Byte /\ r[2 + 1] = r[2] \div Byte
        /\ r[3 + 1] = r[3] \div Byte /\ r[4 + 1] = r[4] \div Byte
    BY <2>1, <2>2 DEF Rests
  <2>4. r[2] = 0 \/ r[2] = 1 BY <1>4, <2>1, <2>3
  <2>5. r[3] = 0 BY <1>2, <2>3, <2>4
  <2>6. r[4] = 0 BY <1>2, <2>3, <2>5
  <2>7. r[5] = 0 BY <1>2, <2>3, <2>6
  <2> QED BY <2>1, <2>2, <2>7 DEF Fits
<1> QED BY <1>5, <1>6

LEMMA FieldsHold ==
    ASSUME CodecInv
    PROVE  C!FieldsBack
<1> DEFINE plain == \A i \in DOMAIN sample.fields : sample.fields[i].kind = "string" =>
                       \A j \in DOMAIN sample.fields[i].runes : sample.fields[i].runes[j] < Byte * Byte
<1> SUFFICES ASSUME C!Is("fields"), plain
             PROVE  C!ReadAll(C!WriteAll(sample.fields), sample.fields)
                    = [i \in DOMAIN sample.fields |-> C!FieldValue(sample.fields[i])]
  BY DEF C!FieldsBack
<1>1. sample \in C!Fields BY SampleOf
<1>6. PICK fs : fs = sample.fields OBVIOUS
<1>2. PICK k \in 1..3 : fs \in [1..k -> C!Ints \cup C!Strings]
  BY <1>1, <1>6 DEF C!Fields
<1>3. k \in Nat /\ DOMAIN fs = 1..k /\ Len(fs) = k BY <1>2
<1>4. ASSUME NEW i \in 1..k PROVE Good(fs[i])
  <2>1. PICK f \in C!Ints \cup C!Strings : f = fs[i] BY <1>2
  <2>2. CASE f \in C!Ints BY <2>2, IntsFit, Sized, <2>1 DEF C!Ints, Good
  <2>3. CASE f \in C!Strings
    <3>1. PICK r \in C!SeqsUpto({1, Byte, Byte * Byte + 1}, 2) : f = [kind |-> "string", runes |-> r]
      BY <2>3 DEF C!Strings
    <3>2. PICK n \in 0..2 : r \in [1..n -> {1, Byte, Byte * Byte + 1}]
      BY <3>1 DEF C!SeqsUpto
    <3>3. f.kind = "string" /\ f.runes = r BY <3>1
    <3>4. \A j \in 1..n : r[j] < Byte * Byte BY <1>3, <1>6, <2>1, <3>2, <3>3
    <3>5. \A j \in 1..n : r[j] \in Nat /\ r[j] # 0 BY <3>2, Sized
    <3>6. r \in Seq(Nat) /\ Len(r) = n BY <3>2, <3>5
    <3>7. Text(r) BY <3>4, <3>5, <3>6 DEF Text
    <3> QED BY <2>1, <3>3, <3>7 DEF Good
  <2> QED BY <2>2, <2>3
<1>5. C!ReadAll(C!WriteAll(fs), fs) = [i \in 1..k |-> C!FieldValue(fs[i])]
  BY <1>3, <1>4, FieldsRead
<1> QED BY <1>3, <1>5, <1>6

\* The functions both ends of a connection share invert each other, and
\* checksums, opcodes and packet borders are what the other end expects, on
\* everything that is drawn, whatever the widths of a word and of a byte.
THEOREM ProgramsCodecsInvert == Spec => []CodecsInvert
<1>1. CodecInv => CodecsInvert
  BY PassHolds, SizeHolds, ModulusHolds, LoginHolds, StreamHolds, OpcodeHolds, FieldsHold
  DEF CodecsInvert, C!ChecksumClear
<1> QED BY <1>1, CodecInvariant, PTL

-----------------------------------------------------------------------------
(* Mail.                                                                   *)

\* The character of each session.
SessionChar(s) == IF s = "s2" THEN "b" ELSE "a"

MailRows == [id : Nat, to : Chars, item : Items \cup {NoItem}, money : Int]
MailCalls == [pc : {"idle", "write", "refund", "item", "add", "money", "pay", "delete"},
              to : Chars \cup {NoItem}, item : Items \cup {NoItem}, owed : Int, id : Nat]
ItemRows == [owner : Chars, place : {"cube", "mail", "gone"}]

MailTyped ==
    /\ item \in [Items -> ItemRows] /\ mails \subseteq MailRows /\ written \in Nat
    /\ call \in [Sessions -> MailCalls]
    /\ \A s \in Sessions : call[s].pc = "write" => call[s].to \in Chars

\* A mail keeps its number, which no other has.
MailsNumbered ==
    /\ \A m \in mails : m.id <= written
    /\ \A m, n \in mails : m.id = n.id => m = n
    /\ \A s \in Sessions : call[s].id <= written

\* What a deletion read is still so, or the mail went and the item with it.
LooksHold ==
    \A s \in Sessions : call[s].pc = "delete" =>
        /\ \A m \in mails : m.id = call[s].id => m.item = call[s].item /\ m.to = SessionChar(s)
        /\ call[s].item # NoItem /\ (\A m \in mails : m.id # call[s].id)
                => item[call[s].item].place = "gone"

\* An item is in the mail warehouse while one mail to its owner names it.
Attaches(i) ==
    /\ \A m, n \in mails : m.item = i /\ n.item = i => m = n
    /\ \A m \in mails : m.item = i => m.to = item[i].owner /\ item[i].place = "mail"
    /\ item[i].place = "mail" => \E m \in mails : m.item = i

MailInv == MailTyped /\ MailsNumbered /\ (~overtaken => LooksHold /\ \A i \in Items : Attaches(i))


\* The handler of session s goes on to r.
LEMMA MailCalled ==
    ASSUME MailTyped, NEW s \in Sessions, NEW r \in MailCalls,
           r.pc = "write" => r.to \in Chars, call' = [call EXCEPT ![s] = r]
    PROVE  /\ call' \in [Sessions -> MailCalls] /\ call'[s] = r
           /\ \A t \in Sessions \ {s} : call'[t] = call[t]
           /\ \A t \in Sessions : call'[t].pc = "write" => call'[t].to \in Chars
BY DEF MailTyped

\* A handler that touches no item and no mail.
LEMMA MailMoves ==
    ASSUME MailInv, NEW s \in Sessions, NEW r \in MailCalls,
           r.pc # "delete", r.pc = "write" => r.to \in Chars, r.id <= written,
           call' = [call EXCEPT ![s] = r], UNCHANGED <<item, mails, written, overtaken>>
    PROVE  MailInv'
<1>1. MailTyped /\ MailsNumbered BY DEF MailInv
<1>2. MailTyped' BY <1>1, MailCalled DEF MailTyped
<1>3. MailsNumbered' BY <1>1, MailCalled DEF MailsNumbered
<1>4. ASSUME ~overtaken' PROVE LooksHold' /\ \A i \in Items : Attaches(i)'
  BY <1>4, <1>1, MailCalled DEF MailInv, LooksHold, Attaches
<1> QED BY <1>2, <1>3, <1>4 DEF MailInv

LEMMA MailRests == M!Idle \in MailCalls /\ M!Idle.pc = "idle" /\ \A n \in Nat : M!Idle.id <= n
<1>1. ASSUME NEW to, NEW i, to \in Chars \cup {NoItem}, i \in Items \cup {NoItem}
      PROVE  [pc |-> "idle", to |-> to, item |-> i, owed |-> 0, id |-> 0] \in MailCalls
  BY <1>1 DEF MailCalls
<1>2. M!Idle \in MailCalls BY <1>1 DEF M!Idle
<1>3. M!Idle.pc = "idle" /\ M!Idle.id = 0 BY DEF M!Idle
<1>4. \A n \in Nat : M!Idle.id <= n BY <1>3
<1> QED BY <1>2, <1>3, <1>4

\* What a handler goes on with.
LEMMA MailAsks ==
    ASSUME NEW q \in MailCalls, NEW id \in Nat
    PROVE  \E r \in MailCalls : r = [q EXCEPT !.pc = "item", !.id = id] /\ r.pc = "item" /\ r.id = id
<1>1. [q EXCEPT !.pc = "item", !.id = id] \in MailCalls
      /\ [q EXCEPT !.pc = "item", !.id = id].pc = "item"
      /\ [q EXCEPT !.pc = "item", !.id = id].id = id
  BY DEF MailCalls
<1> QED BY <1>1

LEMMA MailGoes ==
    ASSUME NEW q \in MailCalls, NEW pc2 \in {"refund", "add", "money"}
    PROVE  \E r \in MailCalls : r = [q EXCEPT !.pc = pc2] /\ r.pc = pc2 /\ r.id = q.id
<1>1. [q EXCEPT !.pc = pc2] \in MailCalls /\ [q EXCEPT !.pc = pc2].pc = pc2
      /\ [q EXCEPT !.pc = pc2].id = q.id
  BY DEF MailCalls
<1> QED BY <1>1

LEMMA MailOwes ==
    ASSUME NEW q \in MailCalls, NEW n \in Int
    PROVE  \E r \in MailCalls : r = [q EXCEPT !.pc = "pay", !.owed = n] /\ r.pc = "pay" /\ r.id = q.id
<1>1. [q EXCEPT !.pc = "pay", !.owed = n] \in MailCalls
      /\ [q EXCEPT !.pc = "pay", !.owed = n].pc = "pay"
      /\ [q EXCEPT !.pc = "pay", !.owed = n].id = q.id
  BY DEF MailCalls
<1> QED BY <1>1

LEMMA MailSpend ==
    ASSUME MailInv, NEW s \in Sessions, NEW to \in Chars, NEW i \in Items \cup {NoItem},
           NEW k \in Attached, M!SendSpend(s, to, i, k)
    PROVE  MailInv'
<1> DEFINE r == [pc |-> "write", to |-> to, item |-> i, owed |-> SendFee + k, id |-> 0]
<1>1. r \in MailCalls /\ r.pc = "write" /\ r.to \in Chars /\ r.id = 0
  BY MailAssumption DEF MailCalls
<1>2. UNCHANGED <<item, mails, written, overtaken>>
      /\ (call' = [call EXCEPT ![s] = r] \/ (call' = call /\ call[s].pc = "idle"))
  BY DEF M!SendSpend, M!Goto
<1> HIDE DEF r
<1>3. CASE call' = [call EXCEPT ![s] = r]
  <2>1. r.id <= written BY <1>1 DEF MailInv, MailTyped
  <2> QED BY <1>1, <1>2, <1>3, <2>1, MailMoves
<1>4. CASE call' = call
  BY <1>2, <1>4 DEF MailInv, MailTyped, MailsNumbered, LooksHold, Attaches
<1> QED BY <1>2, <1>3, <1>4

\* Claims and refunds that leave the items where they are.
LEMMA MailQuiet ==
    ASSUME MailInv, NEW s \in Sessions,
           \/ M!SendRefund(s) \/ M!ClaimAdd(s) \/ M!ClaimPay(s)
           \/ \E id \in 1..written : M!ClaimBegin(s, id)
    PROVE  MailInv'
<1>1. call[s] \in MailCalls /\ call[s].id <= written /\ written \in Nat
  BY DEF MailInv, MailTyped, MailsNumbered
<1>2. CASE M!SendRefund(s) \/ M!ClaimPay(s)
  BY <1>2, <1>1, MailRests, MailMoves DEF M!SendRefund, M!ClaimPay, M!Goto
<1>3. CASE M!ClaimAdd(s)
  <2>1. PICK r \in MailCalls : r = [call[s] EXCEPT !.pc = "money"] /\ r.pc = "money" /\ r.id = call[s].id
    BY <1>1, MailGoes
  <2>2. call' = [call EXCEPT ![s] = r] /\ UNCHANGED <<item, mails, written, overtaken>>
    BY <1>3, <2>1 DEF M!ClaimAdd, M!Step, M!Goto
  <2>3. r.id <= written BY <1>1, <2>1
  <2> QED BY <2>1, <2>2, <2>3, MailMoves
<1>4. CASE \E id \in 1..written : M!ClaimBegin(s, id)
  <2>1. PICK id \in 1..written : M!ClaimBegin(s, id) BY <1>4
  <2>2. M!Idle \in MailCalls /\ id \in Nat BY <1>1, MailRests
  <2>3. PICK r \in MailCalls : r = [M!Idle EXCEPT !.pc = "item", !.id = id] /\ r.pc = "item" /\ r.id = id
    <3>1. PICK q \in MailCalls : q = M!Idle BY <2>2
    <3>2. \E r \in MailCalls : r = [q EXCEPT !.pc = "item", !.id = id] /\ r.pc = "item" /\ r.id = id
      BY <2>2, MailAsks
    <3> QED BY <3>1, <3>2
  <2>4. call' = [call EXCEPT ![s] = r] /\ UNCHANGED <<item, mails, written, overtaken>>
    BY <2>1, <2>3 DEF M!ClaimBegin, M!Goto
  <2>5. r.id <= written BY <1>1, <2>1, <2>3
  <2> QED BY <2>3, <2>4, <2>5, MailMoves
<1> QED BY <1>2, <1>3, <1>4

\* aion_mailwrite: the item was the sender's, in no mail, and is now in this one.
LEMMA MailWritten ==
    ASSUME MailInv, NEW s \in Sessions, call[s].pc = "write", M!MailWrite(s),
           NEW r \in MailCalls, r.pc # "delete", r.pc # "write", r.id <= written,
           call' = [call EXCEPT ![s] = r]
    PROVE  MailInv'
<1> DEFINE q == call[s]
           mail1 == [id |-> written + 1, to |-> q.to, item |-> q.item, money |-> q.owed - SendFee]
<1>1. MailTyped /\ MailsNumbered BY DEF MailInv
<1>2. q \in MailCalls /\ q.to \in Chars /\ q.item \in Items \cup {NoItem} /\ q.owed \in Int
  BY <1>1 DEF MailTyped, MailCalls
<1>3. mail1 \in MailRows /\ mail1.id = written + 1 /\ mail1.to = q.to /\ mail1.item = q.item
  BY <1>1, <1>2, MailAssumption DEF MailTyped, MailRows
<1>4. mails' = mails \cup {mail1} /\ written' = written + 1 BY DEF M!MailWrite
<1>5. item' = item \/ (q.item \in Items /\ item' = [item EXCEPT ![q.item] = [owner |-> q.to, place |-> "mail"]])
  BY <1>2 DEF M!MailWrite
<1>6. q.item # NoItem /\ ~overtaken'
        => /\ item[q.item] = [owner |-> SessionChar(s), place |-> "cube"]
           /\ item' = [item EXCEPT ![q.item] = [owner |-> q.to, place |-> "mail"]]
  <2>1. ~overtaken' => M!Sendable(s, q.item) BY DEF M!MailWrite
  <2>2. q.item # NoItem /\ ~overtaken' => item[q.item] = [owner |-> SessionChar(s), place |-> "cube"]
    BY <2>1 DEF M!Sendable, SessionChar
  <2>3. q.item # NoItem /\ item[q.item].owner = SessionChar(s)
          => item' = [item EXCEPT ![q.item] = [owner |-> q.to, place |-> "mail"]]
    BY DEF M!MailWrite, SessionChar
  <2> QED BY <2>2, <2>3
<1>7. q.item = NoItem => item' = item BY DEF M!MailWrite
<1>8. ~overtaken' => ~overtaken BY DEF M!MailWrite
<1> HIDE DEF q, mail1
<1>9. item' \in [Items -> ItemRows] BY <1>2, <1>1, <1>5 DEF ItemRows, MailTyped
<1>10. MailTyped' BY <1>1, <1>3, <1>4, <1>9, MailCalled DEF MailTyped
<1>11. MailsNumbered'
  BY <1>1, <1>3, <1>4, MailCalled DEF MailTyped, MailRows, MailsNumbered, MailCalls
<1>12. ASSUME ~overtaken' PROVE LooksHold' /\ \A i \in Items : Attaches(i)'
  <2>1. LooksHold /\ \A i \in Items : Attaches(i) BY <1>8, <1>12 DEF MailInv
  <2>2. \A i \in Items : i # q.item => item'[i] = item[i]
    BY <1>1, <1>5 DEF MailTyped
  <2>3. q.item \in Items => /\ item[q.item].place = "cube" /\ \A m \in mails : m.item # q.item
                            /\ item'[q.item].owner = q.to /\ item'[q.item].place = "mail"
    <3> SUFFICES ASSUME q.item \in Items
                 PROVE  /\ item[q.item].place = "cube" /\ \A m \in mails : m.item # q.item
                        /\ item'[q.item].owner = q.to /\ item'[q.item].place = "mail"
      OBVIOUS
    <3>1. q.item # NoItem BY MailAssumption
    <3>2. item[q.item].place = "cube" BY <1>6, <1>12, <3>1
    <3>3. item'[q.item] = [owner |-> q.to, place |-> "mail"]
      BY <1>1, <1>6, <1>12, <3>1 DEF MailTyped
    <3> QED BY <2>1, <3>2, <3>3 DEF Attaches
  <2>4. ASSUME NEW i \in Items PROVE Attaches(i)'
    BY <1>3, <1>4, <2>3, <2>1, <2>2 DEF Attaches
  <2>5. LooksHold'
    <3> SUFFICES ASSUME NEW t \in Sessions, call'[t].pc = "delete"
                 PROVE  /\ \A m \in mails' : m.id = call'[t].id => m.item = call'[t].item /\ m.to = SessionChar(t)
                        /\ call'[t].item # NoItem /\ (\A m \in mails' : m.id # call'[t].id)
                              => item'[call'[t].item].place = "gone"
      BY DEF LooksHold
    <3>1. t # s /\ call'[t] = call[t] /\ call[t].item \in Items \cup {NoItem}
      BY <1>1, MailCalled DEF MailTyped, MailCalls
    <3>2. mail1.id # call[t].id
      BY <1>1, <1>3 DEF MailTyped, MailCalls, MailsNumbered
    <3>3. /\ \A m \in mails : m.id = call[t].id => m.item = call[t].item /\ m.to = SessionChar(t)
          /\ call[t].item # NoItem /\ (\A m \in mails : m.id # call[t].id)
                => item[call[t].item].place = "gone"
      BY <2>1, <3>1 DEF LooksHold
    <3>4. call[t].item # NoItem /\ (\A m \in mails : m.id # call[t].id) => call[t].item # q.item
      BY <2>3, <3>1, <3>3
    <3> QED BY <1>4, <2>2, <3>1, <3>2, <3>3, <3>4
  <2> QED BY <2>4, <2>5
<1> QED BY <1>10, <1>11, <1>12 DEF MailInv

LEMMA MailSendWrite ==
    ASSUME MailInv, NEW s \in Sessions, M!SendWrite(s)
    PROVE  MailInv'
<1>1. call[s] \in MailCalls /\ call[s].id <= written /\ written \in Nat
  BY DEF MailInv, MailTyped, MailsNumbered
<1>2. M!Idle \in MailCalls /\ M!Idle.pc = "idle" /\ M!Idle.id <= written
  BY <1>1, MailRests
<1>3. PICK r \in MailCalls : r = [call[s] EXCEPT !.pc = "refund"] /\ r.pc = "refund" /\ r.id = call[s].id
  BY <1>1, MailGoes
<1>4. CASE M!MailWrite(s) /\ M!Goto(s, M!Idle)
  BY <1>4, <1>2, MailWritten DEF M!Goto, M!SendWrite
<1>5. CASE M!MailWrite(s) /\ M!Step(s, "refund")
  BY <1>1, <1>3, <1>5, MailWritten DEF M!Goto, M!Step, M!SendWrite
<1>6. CASE M!Step(s, "refund") /\ UNCHANGED <<item, mails, written, used, twice, overtaken>>
  BY <1>1, <1>3, <1>6, MailMoves DEF M!Goto, M!Step
<1> QED BY <1>4, <1>5, <1>6 DEF M!SendWrite

\* A mail gives up its item, and the item its place; nobody was deleting it.
LEMMA MailTakes ==
    ASSUME MailInv, NEW s \in Sessions, NEW m \in mails, m.item # NoItem, M!TakeItem(m),
           NEW r \in MailCalls, r.pc # "delete", r.pc # "write", r.id <= written,
           call' = [call EXCEPT ![s] = r], written' = written
    PROVE  MailInv'
<1> DEFINE n == [m EXCEPT !.item = NoItem]
<1>1. MailTyped /\ MailsNumbered BY DEF MailInv
<1>2. m \in MailRows /\ m.item \in Items /\ item[m.item] \in ItemRows
  BY <1>1 DEF MailTyped, MailRows
<1>3. n \in MailRows /\ n.id = m.id /\ n.item = NoItem BY <1>2 DEF MailRows
<1>4. mails' = (mails \ {m}) \cup {n} /\ item' = [item EXCEPT ![m.item].place = "cube"]
  BY DEF M!TakeItem, M!With
<1>5. overtaken' = (overtaken \/ \E t \in Sessions : call[t].pc = "delete" /\ call[t].item = m.item)
  BY DEF M!TakeItem
<1> HIDE DEF n
<1>6. /\ item' \in [Items -> ItemRows] /\ item'[m.item].place = "cube"
      /\ \A i \in Items : i # m.item => item'[i] = item[i]
  BY <1>2, <1>1, <1>4 DEF ItemRows, MailTyped
<1>7. MailTyped' BY <1>1, <1>3, <1>4, <1>6, MailCalled DEF MailTyped
<1>8. MailsNumbered' BY <1>1, <1>3, <1>4, MailCalled DEF MailsNumbered
<1>9. ASSUME ~overtaken' PROVE LooksHold' /\ \A i \in Items : Attaches(i)'
  <2>1. LooksHold /\ \A i \in Items : Attaches(i) BY <1>5, <1>9 DEF MailInv
  <2>2. \A k \in mails : k.item = m.item => k = m BY <1>2, <2>1 DEF Attaches
  <2>3. ASSUME NEW i \in Items PROVE Attaches(i)'
    BY MailAssumption, <1>3, <1>4, <2>2, <1>6, <2>1 DEF Attaches
  <2>4. LooksHold'
    <3> SUFFICES ASSUME NEW t \in Sessions, call'[t].pc = "delete"
                 PROVE  /\ \A k \in mails' : k.id = call'[t].id => k.item = call'[t].item /\ k.to = SessionChar(t)
                        /\ call'[t].item # NoItem /\ (\A k \in mails' : k.id # call'[t].id)
                              => item'[call'[t].item].place = "gone"
      BY DEF LooksHold
    <3>1. t # s /\ call'[t] = call[t] /\ call[t].item \in Items \cup {NoItem}
      BY <1>1, MailCalled DEF MailTyped, MailCalls
    <3>2. call[t].item # m.item BY <1>5, <1>9, <3>1
    <3>3. /\ \A k \in mails : k.id = call[t].id => k.item = call[t].item /\ k.to = SessionChar(t)
          /\ call[t].item # NoItem /\ (\A k \in mails : k.id # call[t].id)
                => item[call[t].item].place = "gone"
      BY <2>1, <3>1 DEF LooksHold
    <3>4. m.id # call[t].id BY <3>2, <3>3
    <3>5. \A k : k \in mails' /\ k.id = call[t].id <=> k \in mails /\ k.id = call[t].id
      BY <1>3, <1>4, <3>4
    <3>6. call[t].item # NoItem => item'[call[t].item] = item[call[t].item]
      BY <1>6, <3>1, <3>2
    <3> QED BY <3>1, <3>3, <3>5, <3>6
  <2> QED BY <2>3, <2>4
<1> QED BY <1>7, <1>8, <1>9 DEF MailInv

\* A mail gives up its kinah.
LEMMA MailPays ==
    ASSUME MailInv, NEW s \in Sessions, NEW m \in mails, M!TakeMoney(m),
           NEW r \in MailCalls, r.pc # "delete", r.pc # "write", r.id <= written,
           call' = [call EXCEPT ![s] = r], UNCHANGED <<written, item, overtaken>>
    PROVE  MailInv'
<1> DEFINE n == [m EXCEPT !.money = 0]
<1>1. MailTyped /\ MailsNumbered BY DEF MailInv
<1>2. m \in MailRows BY <1>1 DEF MailTyped
<1>3. n \in MailRows /\ n.id = m.id /\ n.item = m.item /\ n.to = m.to
  BY <1>2 DEF MailRows
<1>4. mails' = (mails \ {m}) \cup {n} BY DEF M!TakeMoney, M!With
<1> HIDE DEF n
<1>5. MailTyped' BY <1>1, <1>3, <1>4, MailCalled DEF MailTyped
<1>6. MailsNumbered' BY <1>1, <1>3, <1>4, MailCalled DEF MailsNumbered
<1>7. ASSUME ~overtaken' PROVE LooksHold' /\ \A i \in Items : Attaches(i)'
  <2>1. LooksHold /\ \A i \in Items : Attaches(i) BY <1>7 DEF MailInv
  <2>2. \A i \in Items : Attaches(i)' BY <1>3, <1>4, <2>1 DEF Attaches
  <2>3. LooksHold'
    <3> SUFFICES ASSUME NEW t \in Sessions, call'[t].pc = "delete"
                 PROVE  /\ \A k \in mails' : k.id = call'[t].id => k.item = call'[t].item /\ k.to = SessionChar(t)
                        /\ call'[t].item # NoItem /\ (\A k \in mails' : k.id # call'[t].id)
                              => item'[call'[t].item].place = "gone"
      BY DEF LooksHold
    <3>1. t # s /\ call'[t] = call[t] BY <1>1, MailCalled
    <3>2. /\ \A k \in mails : k.id = call[t].id => k.item = call[t].item /\ k.to = SessionChar(t)
          /\ call[t].item # NoItem /\ (\A k \in mails : k.id # call[t].id)
                => item[call[t].item].place = "gone"
      BY <2>1, <3>1 DEF LooksHold
    <3> QED BY <1>3, <1>4, <3>1, <3>2
  <2> QED BY <2>2, <2>3
<1> QED BY <1>5, <1>6, <1>7 DEF MailInv

LEMMA MailClaims ==
    ASSUME MailInv, NEW s \in Sessions, M!ClaimItem(s) \/ M!ClaimMoney(s)
    PROVE  MailInv'
<1>1. call[s] \in MailCalls /\ call[s].id <= written /\ written \in Nat /\ mails \subseteq MailRows
  BY DEF MailInv, MailTyped, MailsNumbered
<1>2. M!Idle \in MailCalls /\ M!Idle.pc = "idle" /\ M!Idle.id <= written
  BY <1>1, MailRests
<1>3. ASSUME NEW pc2 \in {"add", "money"}
      PROVE  \E r \in MailCalls : r = [call[s] EXCEPT !.pc = pc2] /\ r.pc = pc2 /\ r.id <= written
  <2>1. pc2 \in {"refund", "add", "money"} BY <1>3
  <2>2. \E r \in MailCalls : r = [call[s] EXCEPT !.pc = pc2] /\ r.pc = pc2 /\ r.id = call[s].id
    BY <1>1, <2>1, MailGoes
  <2> QED BY <1>1, <2>2
<1>4. CASE M!ClaimItem(s)
  <2>1. written' = written BY <1>4 DEF M!ClaimItem
  <2>2. CASE M!Goto(s, M!Idle) /\ UNCHANGED <<item, mails, overtaken>>
    BY <2>2, <1>2, <2>1, MailMoves DEF M!Goto
  <2>3. CASE M!Step(s, "money") /\ UNCHANGED <<item, mails, overtaken>>
    <3>1. PICK r \in MailCalls : r = [call[s] EXCEPT !.pc = "money"] /\ r.pc = "money" /\ r.id <= written
      BY <1>3
    <3>2. call' = [call EXCEPT ![s] = r] BY <2>3, <3>1 DEF M!Goto, M!Step
    <3> QED BY <2>1, <2>3, <3>1, <3>2, MailMoves
  <2>4. ASSUME NEW m \in mails, m.item # NoItem, M!TakeItem(m), M!Step(s, "add") \/ M!Goto(s, M!Idle)
        PROVE  MailInv'
    <3>1. PICK r \in MailCalls : r = [call[s] EXCEPT !.pc = "add"] /\ r.pc = "add" /\ r.id <= written
      BY <1>3
    <3>2. call' = [call EXCEPT ![s] = r] \/ call' = [call EXCEPT ![s] = M!Idle]
      BY <2>4, <3>1 DEF M!Goto, M!Step
    <3>3. CASE call' = [call EXCEPT ![s] = r] BY <2>1, <2>4, <3>1, <3>3, MailTakes
    <3>4. CASE call' = [call EXCEPT ![s] = M!Idle]
      BY <1>2, <2>1, <2>4, <3>4, MailTakes
    <3> QED BY <3>2, <3>3, <3>4
  <2> QED BY <1>4, <2>2, <2>3, <2>4 DEF M!ClaimItem, M!Mine, M!Row
<1>5. CASE M!ClaimMoney(s)
  <2>1. UNCHANGED <<written, item, overtaken>> BY <1>5 DEF M!ClaimMoney
  <2>2. CASE M!Goto(s, M!Idle) /\ UNCHANGED mails
    BY <2>2, <1>2, <2>1, MailMoves DEF M!Goto
  <2>3. ASSUME NEW m \in mails, M!TakeMoney(m),
               M!Goto(s, [call[s] EXCEPT !.pc = "pay", !.owed = m.money]) \/ M!Goto(s, M!Idle)
        PROVE  MailInv'
    <3>1. m.money \in Int BY <1>1 DEF MailRows
    <3>2. PICK r \in MailCalls : /\ r = [call[s] EXCEPT !.pc = "pay", !.owed = m.money]
                                 /\ r.pc = "pay" /\ r.id <= written
      <4>1. \E r \in MailCalls : /\ r = [call[s] EXCEPT !.pc = "pay", !.owed = m.money]
                                 /\ r.pc = "pay" /\ r.id = call[s].id
        <5>1. PICK n \in Int : n = m.money BY <3>1
        <5>2. \E r \in MailCalls : r = [call[s] EXCEPT !.pc = "pay", !.owed = n]
                                   /\ r.pc = "pay" /\ r.id = call[s].id
          BY <1>1, MailOwes
        <5> QED BY <5>1, <5>2
      <4> QED BY <1>1, <4>1
    <3>3. call' = [call EXCEPT ![s] = r] \/ call' = [call EXCEPT ![s] = M!Idle]
      BY <2>3, <3>2 DEF M!Goto
    <3>4. CASE call' = [call EXCEPT ![s] = r] BY <2>1, <2>3, <3>2, <3>4, MailPays
    <3>5. CASE call' = [call EXCEPT ![s] = M!Idle]
      BY <1>2, <2>1, <2>3, <3>5, MailPays
    <3> QED BY <3>3, <3>4, <3>5
  <2> QED BY <1>5, <2>2, <2>3 DEF M!ClaimMoney, M!Mine, M!Row
<1> QED BY <1>4, <1>5

\* aion_maildelete reads the item of a mail of the session's character.
LEMMA MailDeleteLook ==
    ASSUME MailInv, NEW s \in Sessions, NEW id \in 1..written, M!DeleteLook(s, id)
    PROVE  MailInv'
<1>1. MailTyped /\ MailsNumbered BY DEF MailInv
<1>2. UNCHANGED <<item, mails, written, overtaken>> BY DEF M!DeleteLook
<1>3. PICK m \in mails : m.id = id /\ m.to = SessionChar(s)
                         /\ call' = [call EXCEPT ![s] = [M!Idle EXCEPT !.pc = "delete", !.id = id, !.item = m.item]]
  BY DEF M!DeleteLook, M!Row, M!Goto, SessionChar
<1>4. id \in Nat /\ m.item \in Items \cup {NoItem}
  BY <1>1, <1>3 DEF MailTyped, MailRows
<1>5. PICK r \in MailCalls : /\ r = [M!Idle EXCEPT !.pc = "delete", !.id = id, !.item = m.item]
                             /\ r.pc = "delete" /\ r.id = id /\ r.item = m.item
  <2>1. PICK q \in MailCalls : q = M!Idle BY MailRests
  <2>2. PICK i \in Items \cup {NoItem} : i = m.item BY <1>4
  <2>3. \E r \in MailCalls : /\ r = [q EXCEPT !.pc = "delete", !.id = id, !.item = i]
                             /\ r.pc = "delete" /\ r.id = id /\ r.item = i
    <3>0. id \in Nat BY <1>4
    <3>1. [q EXCEPT !.pc = "delete", !.id = id, !.item = i] \in MailCalls
          /\ [q EXCEPT !.pc = "delete", !.id = id, !.item = i].pc = "delete"
          /\ [q EXCEPT !.pc = "delete", !.id = id, !.item = i].id = id
          /\ [q EXCEPT !.pc = "delete", !.id = id, !.item = i].item = i
      BY <3>0 DEF MailCalls
    <3> QED BY <3>1
  <2> QED BY <2>1, <2>2, <2>3
<1>6. call' = [call EXCEPT ![s] = r] BY <1>3, <1>5
<1>7. MailTyped' BY <1>1, <1>2, <1>5, <1>6, MailCalled DEF MailTyped
<1>8. MailsNumbered'
  BY <1>1, <1>5, <1>2, <1>6, MailCalled DEF MailTyped, MailsNumbered
<1>9. ASSUME ~overtaken' PROVE LooksHold' /\ \A i \in Items : Attaches(i)'
  BY <1>2, <1>9, <1>1, <1>5, <1>6, MailCalled, <1>3 DEF MailInv, Attaches, MailsNumbered,
     LooksHold
<1> QED BY <1>7, <1>8, <1>9 DEF MailInv

\* aion_maildelete removes the mail it read, if it is still there, with its item.
LEMMA MailDeleteRows ==
    ASSUME MailInv, NEW s \in Sessions, M!DeleteRows(s)
    PROVE  MailInv'
<1> DEFINE q == call[s]
<1>1. MailTyped /\ MailsNumbered /\ UNCHANGED <<written, overtaken>> /\ call' = [call EXCEPT ![s] = M!Idle]
      /\ q.pc = "delete"
  BY DEF MailInv, M!DeleteRows, M!Goto
<1>2. M!Idle \in MailCalls /\ M!Idle.pc = "idle" /\ M!Idle.id <= written
  BY <1>1, MailRests DEF MailTyped
<1>3. q \in MailCalls /\ q.item \in Items \cup {NoItem}
  BY <1>1 DEF MailTyped, MailCalls
<1>4. CASE UNCHANGED <<item, mails>> BY <1>1, <1>2, <1>4, MailMoves
<1>5. CASE item' = M!Drops(q.item) /\ mails' = mails \ M!Mine(s)
  <2>1. mails' \subseteq mails BY <1>5
  <2>2. q.item = NoItem => item' = item BY <1>5 DEF M!Drops
  <2>3. q.item # NoItem => /\ item' = [item EXCEPT ![q.item].place = "gone"]
                           /\ q.item \in Items
    BY <1>3, <1>5 DEF M!Drops
  <2>4. /\ item' \in [Items -> ItemRows]
        /\ \A i \in Items : i # q.item => item'[i] = item[i]
        /\ q.item # NoItem => item'[q.item].place = "gone"
    <3>1. \A k \in ItemRows : [k EXCEPT !.place = "gone"] \in ItemRows
                              /\ [k EXCEPT !.place = "gone"].place = "gone"
      BY DEF ItemRows
    <3>2. CASE q.item = NoItem BY <1>1, <2>2, <3>2 DEF MailTyped
    <3>3. CASE q.item # NoItem
      <4>1. item[q.item] \in ItemRows BY <1>1, <2>3, <3>3 DEF MailTyped
      <4> QED BY <1>1, <2>3, <3>1, <3>3, <4>1 DEF MailTyped
    <3> QED BY <3>2, <3>3
  <2>5. MailTyped' BY <1>1, <1>2, <2>1, <2>4, MailCalled DEF MailTyped
  <2>6. MailsNumbered' BY <1>1, <1>2, <2>1, MailCalled DEF MailsNumbered
  <2>7. ASSUME ~overtaken' PROVE LooksHold' /\ \A i \in Items : Attaches(i)'
    <3>1. LooksHold /\ \A i \in Items : Attaches(i) BY <1>1, <2>7 DEF MailInv
    <3>2. /\ \A k \in mails : k.id = q.id => k.item = q.item /\ k.to = SessionChar(s)
          /\ q.item # NoItem /\ (\A k \in mails : k.id # q.id) => item[q.item].place = "gone"
      BY <1>1, <3>1 DEF LooksHold
    <3>3. \A k : k \in mails' <=> k \in mails /\ k.id # q.id
      BY <1>5, <3>2 DEF M!Mine, M!Row, SessionChar
    <3>4. q.item # NoItem => \A k \in mails' : k.item # q.item
      <4> SUFFICES ASSUME q.item # NoItem, NEW k \in mails', k.item = q.item PROVE FALSE
        OBVIOUS
      <4>1. k \in mails /\ k.id # q.id /\ q.item \in Items BY <2>3, <3>3
      <4>2. item[q.item].place = "mail" BY <3>1, <4>1 DEF Attaches
      <4>3. PICK l \in mails : l.id = q.id BY <3>2, <4>2
      <4>4. l.item = q.item BY <3>2, <4>3
      <4> QED BY <3>1, <4>1, <4>3, <4>4 DEF Attaches
    <3>5. ASSUME NEW i \in Items PROVE Attaches(i)'
      BY MailAssumption, <2>4, <3>4, <3>2, <3>3, <3>1 DEF Attaches
    <3>6. LooksHold'
      <4> SUFFICES ASSUME NEW t \in Sessions, call'[t].pc = "delete"
                   PROVE  /\ \A k \in mails' : k.id = call'[t].id => k.item = call'[t].item /\ k.to = SessionChar(t)
                          /\ call'[t].item # NoItem /\ (\A k \in mails' : k.id # call'[t].id)
                                => item'[call'[t].item].place = "gone"
        BY DEF LooksHold
      <4>1. t # s /\ call'[t] = call[t] /\ call[t].item \in Items \cup {NoItem}
        BY <1>1, <1>2, MailCalled DEF MailTyped, MailCalls
      <4>2. /\ \A k \in mails : k.id = call[t].id => k.item = call[t].item /\ k.to = SessionChar(t)
            /\ call[t].item # NoItem /\ (\A k \in mails : k.id # call[t].id)
                  => item[call[t].item].place = "gone"
        BY <3>1, <4>1 DEF LooksHold
      <4>3. ASSUME call[t].item # NoItem, \A k \in mails' : k.id # call[t].id
            PROVE  item'[call[t].item].place = "gone"
        BY <2>4, <4>3, <3>2, <3>3, <4>2, <4>1
      <4> QED BY <2>1, <4>1, <4>2, <4>3
    <3> QED BY <3>5, <3>6
  <2> QED BY <2>5, <2>6, <2>7 DEF MailInv
<1> QED BY <1>4, <1>5 DEF M!DeleteRows

LEMMA MailStep ==
    ASSUME MailInv, M!Next PROVE MailInv'
<1>1. PICK s \in Sessions :
        \/ \E to \in Chars, i \in Items \cup {NoItem}, k \in Attached : M!SendSpend(s, to, i, k)
        \/ M!SendWrite(s) \/ M!SendRefund(s)
        \/ \E id \in 1..written : M!ClaimBegin(s, id) \/ M!DeleteLook(s, id)
        \/ M!ClaimItem(s) \/ M!ClaimAdd(s) \/ M!ClaimMoney(s) \/ M!ClaimPay(s) \/ M!DeleteRows(s)
  BY DEF M!Next
<1> QED BY <1>1, MailSpend, MailSendWrite, MailQuiet, MailClaims, MailDeleteLook, MailDeleteRows

LEMMA MailInvariant == Spec => [](part = "mail" => MailInv)
<1>1. Init => (part = "mail" => MailInv)
  <2> SUFFICES ASSUME Init, part = "mail" PROVE MailInv OBVIOUS
  <2>1. M!Init BY DEF Init
  <2>2. /\ item \in [Items -> [owner : Chars, place : {"cube"}]] /\ mails = {} /\ written = 0
        /\ call = [s \in Sessions |-> M!Idle]
    BY <2>1 DEF M!Init
  <2>3. /\ call \in [Sessions -> MailCalls]
        /\ \A s \in Sessions : call[s].pc = "idle" /\ call[s].id <= 0
    BY <2>2, MailRests
  <2>4. \A i \in Items : item[i] \in ItemRows /\ item[i].place = "cube"
    BY <2>2 DEF ItemRows
  <2>5. item \in [Items -> ItemRows] BY <2>2 DEF ItemRows
  <2> QED BY <2>2, <2>3, <2>4, <2>5 DEF MailInv, MailTyped, MailsNumbered, LooksHold, Attaches
<1>2. (part = "mail" => MailInv) /\ [Next]_all => (part = "mail" => MailInv)'
  <2> SUFFICES ASSUME part = "mail", MailInv, [Next]_all PROVE MailInv'
    BY PartOfStep
  <2>1. CASE M!Next BY <2>1, MailStep
  <2>2. CASE UNCHANGED mail
    BY <2>2 DEF mail, MailInv, MailTyped, MailsNumbered, LooksHold, Attaches
  <2> QED BY <2>1, <2>2, PartOfStep
<1> QED BY <1>1, <1>2, PTL DEF Spec

\* An item is in the mail warehouse exactly while one mail, to its owner, names
\* it: sends, claims and deletions of any number of sessions may fail half way
\* and overlap, as long as no two of one character move the same item at once.
THEOREM MailAttachmentsHeld == Spec => []AttachmentsHeld
<1>1. (part = "mail" => MailInv) => AttachmentsHeld
  <2> SUFFICES ASSUME part = "mail", MailInv, ~overtaken, NEW i \in Items
               PROVE  IF item[i].place = "mail"
                      THEN \E m \in {n \in mails : n.item = i} :
                              {n \in mails : n.item = i} = {m} /\ m.to = item[i].owner
                      ELSE {n \in mails : n.item = i} = {}
    BY DEF AttachmentsHeld, M!AttachmentsHeld
  <2>1. Attaches(i) BY DEF MailInv
  <2> QED BY <2>1 DEF Attaches
<1> QED BY <1>1, MailInvariant, PTL

-----------------------------------------------------------------------------
(* Mail: kinah.  Coin by coin, so that the totals of any number of purses, *)
(* mails and handlers are cardinalities.                                   *)

LEMMA PileCounts ==
    ASSUME NEW x, NEW n \in Nat
    PROVE  IsFiniteSet({x} \X (1..n)) /\ Cardinality({x} \X (1..n)) = n
<1>1. IsFiniteSet({x}) /\ Cardinality({x}) = 1 BY FS_Singleton
<1>2. IsFiniteSet(1..n) /\ Cardinality(1..n) = n BY FS_Interval
<1>3. /\ IsFiniteSet({x} \X (1..n))
      /\ Cardinality({x} \X (1..n)) = Cardinality({x}) * Cardinality(1..n)
  BY <1>1, <1>2, FS_Product
<1> QED BY <1>1, <1>2, <1>3

LEMMA CoinsFinite ==
    ASSUME NEW X, IsFiniteSet(X), NEW f, \A x \in X : f[x] \in Nat
    PROVE  IsFiniteSet(Coins(f, X)) /\ Total(f, X) \in Nat
<1> DEFINE Pile(x) == {x} \X (1..f[x])
           Piles == {Pile(x) : x \in X}
<1>1. \A x \in X : IsFiniteSet(Pile(x)) BY PileCounts
<1>2. IsFiniteSet(Piles)
  <2> DEFINE g == [x \in X |-> Pile(x)]
  <2>1. g \in Surjection(X, Piles) BY DEF Surjection
  <2> QED BY <2>1, FS_Surjection
<1>3. IsFiniteSet(UNION Piles) BY <1>1, <1>2, FS_UNION
<1> QED BY <1>3, FS_CardinalityType DEF Coins, Total

LEMMA TotalSame ==
    ASSUME NEW X, NEW f, NEW g, \A x \in X : f[x] = g[x]
    PROVE  Total(f, X) = Total(g, X)
BY DEF Total, Coins

\* A total is that of a part and that of the rest.
LEMMA TotalSplits ==
    ASSUME NEW X, IsFiniteSet(X), NEW f, \A x \in X : f[x] \in Nat, NEW Y \in SUBSET X
    PROVE  /\ Total(f, X) = Total(f, X \ Y) + Total(f, Y)
           /\ Total(f, X) \in Nat /\ Total(f, X \ Y) \in Nat /\ Total(f, Y) \in Nat
<1>1. /\ IsFiniteSet(X \ Y) /\ \A y \in X \ Y : f[y] \in Nat
      /\ IsFiniteSet(Y) /\ \A y \in Y : f[y] \in Nat
  BY FS_Subset
<1>2. /\ IsFiniteSet(Coins(f, X)) /\ Total(f, X) \in Nat
      /\ IsFiniteSet(Coins(f, X \ Y)) /\ Total(f, X \ Y) \in Nat
      /\ IsFiniteSet(Coins(f, Y)) /\ Total(f, Y) \in Nat
  BY <1>1, CoinsFinite
<1>3. Coins(f, X) = Coins(f, X \ Y) \cup Coins(f, Y) BY DEF Coins
<1>4. Coins(f, X \ Y) \cap Coins(f, Y) = {} BY DEF Coins
<1>5. Cardinality(Coins(f, X)) = Cardinality(Coins(f, X \ Y)) + Cardinality(Coins(f, Y))
                                 - Cardinality(Coins(f, X \ Y) \cap Coins(f, Y))
  BY <1>2, <1>3, FS_Union
<1>6. Cardinality(Coins(f, X \ Y) \cap Coins(f, Y)) = 0 BY <1>4, FS_EmptySet
<1> QED BY <1>2, <1>5, <1>6 DEF Total

LEMMA TotalOfOne ==
    ASSUME NEW x, NEW f, f[x] \in Nat
    PROVE  Total(f, {x}) = f[x]
<1>1. Coins(f, {x}) = {x} \X (1..f[x]) BY DEF Coins
<1> QED BY <1>1, PileCounts DEF Total

\* One amount changes and the total by as much.
LEMMA TotalChanges ==
    ASSUME NEW X, IsFiniteSet(X), NEW f, NEW g, NEW x \in X,
           \A y \in X : f[y] \in Nat /\ g[y] \in Nat, \A y \in X \ {x} : g[y] = f[y]
    PROVE  /\ Total(g, X) + f[x] = Total(f, X) + g[x]
           /\ Total(f, X) \in Nat /\ Total(g, X) \in Nat
<1>1. Total(g, X \ {x}) = Total(f, X \ {x}) BY TotalSame
<1>3. /\ Total(f, X) = Total(f, X \ {x}) + Total(f, {x})
      /\ Total(f, X) \in Nat /\ Total(f, X \ {x}) \in Nat
  BY TotalSplits
<1>4. Total(g, X) = Total(g, X \ {x}) + Total(g, {x}) /\ Total(g, X) \in Nat
  BY TotalSplits
<1>5. Total(f, {x}) = f[x] /\ Total(g, {x}) = g[x] /\ f[x] \in Nat /\ g[x] \in Nat
  BY TotalOfOne
<1> QED BY <1>1, <1>3, <1>4, <1>5

LEMMA TotalOfSame ==
    ASSUME NEW X, IsFiniteSet(X), NEW f, NEW n \in Nat, \A x \in X : f[x] = n
    PROVE  Total(f, X) = n * Cardinality(X) /\ Total(f, X) \in Nat
<1>1. Coins(f, X) = X \X (1..n) BY DEF Coins
<1>2. Cardinality(1..n) = n /\ IsFiniteSet(1..n) BY FS_Interval
<1>3. Cardinality(X \X (1..n)) = Cardinality(X) * n /\ Cardinality(X) \in Nat
  BY <1>2, FS_Product, FS_CardinalityType
<1> QED BY <1>1, <1>3 DEF Total

\* What is in a set of mails, and on its way in the handlers.
MailMoney(X) == Total([m \in X |-> m.money], X)
MailFlight(cl) == Total([t \in Sessions |-> M!InFlight(cl[t])], Sessions)
MailKinah == used + Total(purse, Chars) + MailMoney(mails) + MailFlight(call)

LEMMA MailTotal ==
    ASSUME NEW f, NEW X
    PROVE  M!Total(f, X) = Total(f, X)
BY DEF M!Total, M!Coins, M!Cardinality, Total, Coins, Cardinality

LEMMA MailKinahIs == /\ M!Kinah = MailKinah
                     /\ \A X : M!Money(X) = MailMoney(X)
                     /\ \A X : M!Cardinality(X) = Cardinality(X)
BY MailTotal DEF M!Money, MailMoney, M!Cardinality, Cardinality, MailFlight, M!Kinah, MailKinah

LEMMA PursesMove ==
    ASSUME NEW p, NEW q, NEW c \in Chars,
           \A y \in Chars : p[y] \in Nat /\ q[y] \in Nat, \A y \in Chars \ {c} : q[y] = p[y]
    PROVE  /\ Total(q, Chars) + p[c] = Total(p, Chars) + q[c]
           /\ Total(p, Chars) \in Nat /\ Total(q, Chars) \in Nat
BY MailAssumption, TotalChanges

LEMMA FlightMoves ==
    ASSUME NEW cl, NEW dl, NEW s \in Sessions,
           \A t \in Sessions : M!InFlight(cl[t]) \in Nat, M!InFlight(dl[s]) \in Nat,
           \A t \in Sessions \ {s} : dl[t] = cl[t]
    PROVE  /\ MailFlight(dl) + M!InFlight(cl[s]) = MailFlight(cl) + M!InFlight(dl[s])
           /\ MailFlight(dl) \in Nat /\ MailFlight(cl) \in Nat
<1> DEFINE f == [t \in Sessions |-> M!InFlight(cl[t])]
           g == [t \in Sessions |-> M!InFlight(dl[t])]
<1>1. \A t \in Sessions : f[t] \in Nat /\ g[t] \in Nat OBVIOUS
<1>2. \A t \in Sessions \ {s} : g[t] = f[t] OBVIOUS
<1>3. f[s] = M!InFlight(cl[s]) /\ g[s] = M!InFlight(dl[s]) OBVIOUS
<1> HIDE DEF f, g
<1>4. /\ Total(g, Sessions) + f[s] = Total(f, Sessions) + g[s]
      /\ Total(f, Sessions) \in Nat /\ Total(g, Sessions) \in Nat
  BY <1>1, <1>2, MailAssumption, TotalChanges
<1>5. MailFlight(dl) = Total(g, Sessions) /\ MailFlight(cl) = Total(f, Sessions)
  BY DEF f, g, MailFlight
<1> QED BY <1>3, <1>4, <1>5

LEMMA MoneyTaken ==
    ASSUME NEW X, IsFiniteSet(X), \A m \in X : m.money \in Nat, NEW Y \in SUBSET X
    PROVE  /\ MailMoney(X) = MailMoney(X \ Y) + MailMoney(Y)
           /\ MailMoney(X) \in Nat /\ MailMoney(X \ Y) \in Nat /\ MailMoney(Y) \in Nat
           /\ IsFiniteSet(X \ Y)
<1> DEFINE f == [m \in X |-> m.money]
<1>1. \A m \in X : f[m] \in Nat OBVIOUS
<1>2. \A m \in X \ Y : f[m] = [k \in X \ Y |-> k.money][m] OBVIOUS
<1>3. \A m \in Y : f[m] = [k \in Y |-> k.money][m] OBVIOUS
<1>4. MailMoney(X) = Total(f, X) BY DEF MailMoney
<1> HIDE DEF f
<1>5. MailMoney(X \ Y) = Total(f, X \ Y) /\ MailMoney(Y) = Total(f, Y)
  BY <1>2, <1>3, TotalSame DEF MailMoney
<1>6. /\ Total(f, X) = Total(f, X \ Y) + Total(f, Y)
      /\ Total(f, X) \in Nat /\ Total(f, X \ Y) \in Nat /\ Total(f, Y) \in Nat
  BY <1>1, TotalSplits
<1> QED BY <1>4, <1>5, <1>6, FS_Subset

LEMMA MoneyOfOne ==
    ASSUME NEW m, m.money \in Nat
    PROVE  MailMoney({m}) = m.money
<1> DEFINE f == [k \in {m} |-> k.money]
<1>1. f[m] = m.money OBVIOUS
<1> HIDE DEF f
<1>2. Total(f, {m}) = f[m] BY <1>1, TotalOfOne
<1> QED BY <1>1, <1>2 DEF MailMoney, f

LEMMA MoneyAdded ==
    ASSUME NEW X, IsFiniteSet(X), \A m \in X : m.money \in Nat, NEW n, n.money \in Nat, n \notin X
    PROVE  /\ MailMoney(X \cup {n}) = MailMoney(X) + n.money
           /\ MailMoney(X) \in Nat /\ IsFiniteSet(X \cup {n})
<1> DEFINE Z == X \cup {n}
<1>1. IsFiniteSet(Z) /\ \A m \in Z : m.money \in Nat BY FS_AddElement
<1>2. {n} \in SUBSET Z /\ Z \ {n} = X OBVIOUS
<1> HIDE DEF Z
<1>3. MailMoney(Z) = MailMoney(Z \ {n}) + MailMoney({n}) /\ MailMoney(Z \ {n}) \in Nat
  BY <1>1, <1>2, MoneyTaken
<1>4. MailMoney({n}) = n.money BY MoneyOfOne
<1>5. MailMoney(Z) = MailMoney(X) + n.money /\ MailMoney(X) \in Nat
  BY <1>2, <1>3, <1>4
<1> QED BY <1>1, <1>5 DEF Z

\* A mail in place of another.
LEMMA MoneyReplaced ==
    ASSUME NEW X, IsFiniteSet(X), \A m \in X : m.money \in Nat, NEW m \in X,
           NEW n, n.money \in Nat, n \notin X \ {m}, NEW Z, Z = (X \ {m}) \cup {n}
    PROVE  /\ MailMoney(Z) + m.money = MailMoney(X) + n.money
           /\ MailMoney(X) \in Nat /\ MailMoney(Z) \in Nat
           /\ IsFiniteSet(Z) /\ \A k \in Z : k.money \in Nat
<1>2. /\ MailMoney(X) = MailMoney(X \ {m}) + MailMoney({m}) /\ MailMoney(X) \in Nat
      /\ MailMoney(X \ {m}) \in Nat /\ IsFiniteSet(X \ {m})
  BY MoneyTaken
<1>3. MailMoney({m}) = m.money BY MoneyOfOne
<1>4. MailMoney((X \ {m}) \cup {n}) = MailMoney(X \ {m}) + n.money /\ IsFiniteSet((X \ {m}) \cup {n})
  BY <1>2, MoneyAdded
<1> QED BY <1>2, <1>3, <1>4

\* Amounts are numbers, and a handler that writes has taken the fee.
MailAmounts ==
    /\ purse \in [Chars -> Nat] /\ used \in Nat /\ mailFaults \in Nat
    /\ IsFiniteSet(mails) /\ \A m \in mails : m.money \in Nat
    /\ \A s \in Sessions : call[s].owed \in Nat /\ (call[s].pc = "write" => call[s].owed >= SendFee)

\* A step keeps the sum, or loses of it with a failed call, or is an
\* unanswered aion_mailwrite.
MailLedger ==
    \/ MailKinah' = MailKinah
    \/ MailKinah' <= MailKinah /\ mailFaults' = mailFaults + 1
    \/ twice' = TRUE /\ mailFaults' = mailFaults + 1

LEMMA InFlightIs ==
    ASSUME NEW r, r.owed \in Nat
    PROVE  /\ M!InFlight(r) \in Nat
           /\ r.pc \in {"write", "refund", "pay"} => M!InFlight(r) = r.owed
           /\ r.pc \notin {"write", "refund", "pay"} => M!InFlight(r) = 0
BY DEF M!InFlight

LEMMA MailIdleOwes == M!Idle.owed = 0 /\ M!Idle.pc = "idle"
BY DEF M!Idle

\* The handler of s goes on to r.
LEMMA MailCallMoves ==
    ASSUME MailTyped, MailAmounts, NEW s \in Sessions, NEW r, r.owed \in Nat,
           r.pc = "write" => r.owed >= SendFee, call' = [call EXCEPT ![s] = r]
    PROVE  /\ \A t \in Sessions : call'[t].owed \in Nat /\ (call'[t].pc = "write" => call'[t].owed >= SendFee)
           /\ MailFlight(call') + M!InFlight(call[s]) = MailFlight(call) + M!InFlight(r)
           /\ MailFlight(call') \in Nat /\ MailFlight(call) \in Nat
           /\ M!InFlight(call[s]) \in Nat /\ M!InFlight(r) \in Nat
<1>1. call'[s] = r /\ \A t \in Sessions \ {s} : call'[t] = call[t] BY DEF MailTyped
<1>2. \A t \in Sessions : call'[t].owed \in Nat /\ (call'[t].pc = "write" => call'[t].owed >= SendFee)
  BY <1>1 DEF MailAmounts
<1>3. \A t \in Sessions : call[t].owed \in Nat BY DEF MailAmounts
<1>4. \A t \in Sessions : M!InFlight(call[t]) \in Nat BY <1>3, InFlightIs
<1>5. M!InFlight(r) \in Nat BY InFlightIs
<1>6. PICK dl : dl = call' OBVIOUS
<1>7. M!InFlight(dl[s]) \in Nat /\ dl[s] = r /\ \A t \in Sessions \ {s} : dl[t] = call[t]
  BY <1>1, <1>5, <1>6
<1>8. /\ MailFlight(dl) + M!InFlight(call[s]) = MailFlight(call) + M!InFlight(dl[s])
      /\ MailFlight(dl) \in Nat /\ MailFlight(call) \in Nat
  BY <1>4, <1>7, FlightMoves
<1> QED BY <1>2, <1>4, <1>5, <1>6, <1>7, <1>8

\* The parts of the sum are numbers.
LEMMA MailSums ==
    ASSUME MailAmounts
    PROVE  Total(purse, Chars) \in Nat /\ MailMoney(mails) \in Nat /\ used \in Nat /\ mailFaults \in Nat
BY MailAssumption, CoinsFinite, MoneyTaken DEF MailAmounts

\* A handler that moves no kinah.
LEMMA MailIdles ==
    ASSUME MailTyped, MailAmounts, NEW s \in Sessions, NEW r, r.owed \in Nat, r.pc # "write",
           M!InFlight(r) = M!InFlight(call[s]),
           call' = [call EXCEPT ![s] = r], UNCHANGED <<purse, mails, used>>,
           mailFaults' = mailFaults \/ mailFaults' = mailFaults + 1
    PROVE  MailAmounts' /\ MailLedger
<1>1. /\ \A t \in Sessions : call'[t].owed \in Nat /\ (call'[t].pc = "write" => call'[t].owed >= SendFee)
      /\ MailFlight(call') + M!InFlight(call[s]) = MailFlight(call) + M!InFlight(r)
      /\ MailFlight(call') \in Nat /\ MailFlight(call) \in Nat
      /\ M!InFlight(call[s]) \in Nat /\ M!InFlight(r) \in Nat
  BY MailCallMoves
<1>2. mailFaults' \in Nat BY DEF MailAmounts
<1>3. MailAmounts' BY <1>1, <1>2 DEF MailAmounts
<1>4. MailFlight(call') = MailFlight(call) BY <1>1
<1>5. MailKinah' = MailKinah BY <1>4 DEF MailKinah
<1> QED BY <1>3, <1>5 DEF MailLedger

LEMMA PursePays ==
    ASSUME purse \in [Chars -> Nat], NEW c \in Chars, NEW n \in Nat, NEW q, q = [purse EXCEPT ![c] = n]
    PROVE  /\ q \in [Chars -> Nat] /\ Total(q, Chars) + purse[c] = Total(purse, Chars) + n
           /\ Total(purse, Chars) \in Nat /\ Total(q, Chars) \in Nat
<1>1. PICK p : p = purse OBVIOUS
<1>2. /\ q \in [Chars -> Nat] /\ q[c] = n /\ p[c] = purse[c]
      /\ \A y \in Chars : p[y] \in Nat /\ q[y] \in Nat
      /\ \A y \in Chars \ {c} : q[y] = p[y]
  BY <1>1
<1>3. ASSUME NEW f, NEW g, \A y \in Chars : f[y] \in Nat /\ g[y] \in Nat, \A y \in Chars \ {c} : g[y] = f[y]
      PROVE  /\ Total(g, Chars) + f[c] = Total(f, Chars) + g[c]
             /\ Total(f, Chars) \in Nat /\ Total(g, Chars) \in Nat
  BY <1>3, PursesMove
<1>4. /\ Total(q, Chars) + p[c] = Total(p, Chars) + q[c]
      /\ Total(p, Chars) \in Nat /\ Total(q, Chars) \in Nat
  BY <1>2, <1>3
<1> QED BY <1>1, <1>2, <1>4

LEMMA MailSpendKinah ==
    ASSUME MailTyped, MailAmounts, NEW s \in Sessions, NEW to \in Chars, NEW i \in Items \cup {NoItem},
           NEW k \in Attached, M!SendSpend(s, to, i, k)
    PROVE  MailAmounts' /\ MailLedger
<1> DEFINE r == [pc |-> "write", to |-> to, item |-> i, owed |-> SendFee + k, id |-> 0]
           c == SessionChar(s)
<1>1. r.pc = "write" /\ r.owed = SendFee + k OBVIOUS
<1>2. k \in Nat /\ SendFee \in Nat /\ c \in Chars BY MailAssumption DEF SessionChar
<1>3. /\ call[s].pc = "idle" /\ UNCHANGED <<mails, used>> /\ purse[c] >= SendFee + k
      /\ purse' = [purse EXCEPT ![c] = @ - (SendFee + k)]
      /\ (call' = [call EXCEPT ![s] = r] /\ mailFaults' = mailFaults)
         \/ (call' = call /\ mailFaults' = mailFaults + 1)
  BY DEF M!SendSpend, M!Goto, SessionChar, M!MailFault
<1> HIDE DEF r, c
<1>4. purse[c] \in Nat /\ purse \in [Chars -> Nat] BY <1>2 DEF MailAmounts
<1>5. PICK n \in Nat : n = purse[c] - (SendFee + k) BY <1>2, <1>3, <1>4
<1>6. PICK q : q = purse' OBVIOUS
<1>7. q = [purse EXCEPT ![c] = n] BY <1>3, <1>5, <1>6
<1>8. /\ q \in [Chars -> Nat] /\ Total(q, Chars) + purse[c] = Total(purse, Chars) + n
      /\ Total(purse, Chars) \in Nat /\ Total(q, Chars) \in Nat
  BY <1>2, <1>4, <1>7, PursePays
<1>9. Total(purse', Chars) + (SendFee + k) = Total(purse, Chars) /\ Total(purse', Chars) \in Nat
  BY <1>2, <1>4, <1>5, <1>6, <1>8
<1>10. MailMoney(mails) \in Nat /\ used \in Nat /\ mailFaults \in Nat BY MailSums
<1>11. CASE call' = [call EXCEPT ![s] = r] /\ mailFaults' = mailFaults
  <2>1. r.owed \in Nat /\ r.owed >= SendFee BY <1>1, <1>2
  <2>2. /\ \A t \in Sessions : call'[t].owed \in Nat /\ (call'[t].pc = "write" => call'[t].owed >= SendFee)
        /\ MailFlight(call') + M!InFlight(call[s]) = MailFlight(call) + M!InFlight(r)
        /\ MailFlight(call') \in Nat /\ MailFlight(call) \in Nat
    BY <1>11, <2>1, MailCallMoves
  <2>3. call[s].owed \in Nat BY DEF MailAmounts
  <2>4. M!InFlight(call[s]) = 0 BY <1>3, <2>3, InFlightIs
  <2>5. M!InFlight(r) = SendFee + k BY <1>1, <2>1, InFlightIs
  <2>6. MailFlight(call') = MailFlight(call) + (SendFee + k)
    BY <1>2, <2>2, <2>4, <2>5
  <2>7. MailKinah' = MailKinah
    BY <1>2, <1>3, <1>9, <1>10, <2>2, <2>6, <1>8 DEF MailKinah
  <2>8. MailAmounts' BY <1>3, <1>6, <1>8, <1>11, <2>2 DEF MailAmounts
  <2> QED BY <2>7, <2>8 DEF MailLedger
<1>12. CASE call' = call /\ mailFaults' = mailFaults + 1
  <2>1. call[s].owed \in Nat /\ \A t \in Sessions : call[t].owed \in Nat
    BY DEF MailAmounts
  <2>2. MailFlight(call) \in Nat BY <2>1, InFlightIs, FlightMoves
  <2>3. MailKinah' <= MailKinah
    BY <1>2, <1>3, <1>8, <1>9, <1>10, <1>12, <2>2 DEF MailKinah
  <2>4. MailAmounts' BY <1>3, <1>6, <1>8, <1>10, <1>12 DEF MailAmounts
  <2> QED BY <1>12, <2>3, <2>4 DEF MailLedger
<1> QED BY <1>3, <1>11, <1>12

\* What is owed comes back, or with a failed call is lost.
LEMMA MailRepays ==
    ASSUME MailTyped, MailAmounts, NEW s \in Sessions, call[s].pc \in {"refund", "pay"},
           M!AddKinah(s), call' = [call EXCEPT ![s] = M!Idle], UNCHANGED <<mails, used>>
    PROVE  MailAmounts' /\ MailLedger
<1> DEFINE c == SessionChar(s)
<1>1. c \in Chars BY MailAssumption DEF SessionChar
<1>2. \/ purse' = [purse EXCEPT ![c] = @ + call[s].owed] /\ mailFaults' = mailFaults
      \/ purse' = purse /\ mailFaults' = mailFaults + 1
  BY DEF M!AddKinah, SessionChar, M!MailFault
<1> HIDE DEF c
<1>3. call[s].owed \in Nat /\ purse \in [Chars -> Nat] /\ purse[c] \in Nat
  BY <1>1 DEF MailAmounts
<1>4. M!InFlight(call[s]) = call[s].owed BY <1>3, InFlightIs
<1>5. M!Idle.owed \in Nat /\ M!Idle.pc # "write" /\ M!InFlight(M!Idle) = 0
  BY MailIdleOwes, InFlightIs
<1>6. /\ \A t \in Sessions : call'[t].owed \in Nat /\ (call'[t].pc = "write" => call'[t].owed >= SendFee)
      /\ MailFlight(call') + M!InFlight(call[s]) = MailFlight(call) + M!InFlight(M!Idle)
      /\ MailFlight(call') \in Nat /\ MailFlight(call) \in Nat
  BY <1>5, MailCallMoves
<1>7. MailFlight(call') + call[s].owed = MailFlight(call) BY <1>4, <1>5, <1>6
<1>8. MailMoney(mails) \in Nat /\ used \in Nat /\ mailFaults \in Nat /\ Total(purse, Chars) \in Nat
  BY MailSums
<1>9. CASE purse' = [purse EXCEPT ![c] = @ + call[s].owed] /\ mailFaults' = mailFaults
  <2>1. PICK n \in Nat : n = purse[c] + call[s].owed BY <1>3
  <2>2. PICK q : q = purse' OBVIOUS
  <2>3. q = [purse EXCEPT ![c] = n] BY <1>9, <2>1, <2>2
  <2>4. /\ q \in [Chars -> Nat] /\ Total(q, Chars) + purse[c] = Total(purse, Chars) + n
        /\ Total(purse, Chars) \in Nat /\ Total(q, Chars) \in Nat
    BY <1>1, <1>3, <2>3, PursePays
  <2>5. Total(purse', Chars) = Total(purse, Chars) + call[s].owed
    BY <1>3, <2>1, <2>2, <2>4
  <2>6. MailKinah' = MailKinah BY <1>3, <1>6, <1>7, <1>8, <2>5 DEF MailKinah
  <2>7. MailAmounts' BY <1>6, <1>9, <2>2, <2>4 DEF MailAmounts
  <2> QED BY <2>6, <2>7 DEF MailLedger
<1>10. CASE purse' = purse /\ mailFaults' = mailFaults + 1
  BY <1>3, <1>6, <1>7, <1>8, <1>10 DEF MailKinah, MailAmounts, MailLedger
<1> QED BY <1>2, <1>9, <1>10

\* aion_mailwrite puts what is not the fee into a mail of its own.
LEMMA MailWritesKinah ==
    ASSUME MailInv, MailAmounts, NEW s \in Sessions, M!SendWrite(s)
    PROVE  MailAmounts' /\ MailLedger
<1> DEFINE q == call[s]
           mail1 == [id |-> written + 1, to |-> q.to, item |-> q.item, money |-> q.owed - SendFee]
           refund == [q EXCEPT !.pc = "refund"]
<1>1. MailTyped /\ MailsNumbered /\ q \in MailCalls BY DEF MailInv, MailTyped
<1>2. q.pc = "write" /\ q.owed \in Nat /\ q.owed >= SendFee /\ UNCHANGED purse
  BY DEF M!SendWrite, MailAmounts
<1>3. refund.pc = "refund" /\ refund.owed = q.owed BY <1>1 DEF MailCalls
<1>4. mail1.id = written + 1 /\ mail1.money = q.owed - SendFee /\ mail1.money \in Nat
  BY <1>2, MailAssumption
<1>5. M!MailWrite(s) => mails' = mails \cup {mail1} BY DEF M!MailWrite
<1>6. \/ M!MailWrite(s) /\ used' = used + SendFee /\ call' = [call EXCEPT ![s] = M!Idle] /\ mailFaults' = mailFaults
      \/ mailFaults' = mailFaults + 1 /\ call' = [call EXCEPT ![s] = refund] /\ UNCHANGED <<mails, used>>
      \/ /\ mailFaults' = mailFaults + 1 /\ call' = [call EXCEPT ![s] = refund]
         /\ M!MailWrite(s) /\ twice' = TRUE /\ used' = used
  BY DEF M!SendWrite, M!Goto, M!Step, M!MailFault
<1> HIDE DEF q, mail1, refund
<1>7. SendFee \in Nat /\ M!Idle.owed \in Nat /\ M!Idle.pc # "write" /\ M!InFlight(M!Idle) = 0
  BY MailAssumption, MailIdleOwes, InFlightIs
<1>8. M!InFlight(q) = q.owed /\ M!InFlight(refund) = q.owed
  BY <1>2, <1>3, InFlightIs
<1>9. mail1 \notin mails BY <1>1, <1>4 DEF MailTyped, MailsNumbered
<1>10. MailMoney(mails) \in Nat /\ used \in Nat /\ mailFaults \in Nat /\ Total(purse, Chars) \in Nat
  BY MailSums
<1>11. IsFiniteSet(mails) /\ \A m \in mails : m.money \in Nat BY DEF MailAmounts
<1>12. /\ MailMoney(mails \cup {mail1}) = MailMoney(mails) + mail1.money
       /\ IsFiniteSet(mails \cup {mail1}) /\ \A m \in mails \cup {mail1} : m.money \in Nat
  BY <1>4, <1>9, <1>11, MoneyAdded
<1>13. CASE M!MailWrite(s) /\ used' = used + SendFee /\ call' = [call EXCEPT ![s] = M!Idle]
            /\ mailFaults' = mailFaults
  <2>1. /\ \A t \in Sessions : call'[t].owed \in Nat /\ (call'[t].pc = "write" => call'[t].owed >= SendFee)
        /\ MailFlight(call') + M!InFlight(call[s]) = MailFlight(call) + M!InFlight(M!Idle)
        /\ MailFlight(call') \in Nat /\ MailFlight(call) \in Nat
    BY <1>1, <1>7, <1>13, MailCallMoves
  <2>2. MailFlight(call') + q.owed = MailFlight(call) BY <1>7, <1>8, <2>1 DEF q
  <2>3. MailMoney(mails') = MailMoney(mails) + (q.owed - SendFee)
    BY <1>4, <1>5, <1>12, <1>13
  <2>4. MailKinah' = MailKinah
    BY <1>2, <1>7, <1>10, <1>13, <2>1, <2>2, <2>3 DEF MailKinah
  <2>5. MailAmounts'
    <3>1. IsFiniteSet(mails') /\ \A m \in mails' : m.money \in Nat
      BY <1>5, <1>12, <1>13
    <3>2. used' \in Nat /\ mailFaults' \in Nat BY <1>7, <1>10, <1>13
    <3> QED BY <1>2, <2>1, <3>1, <3>2 DEF MailAmounts
  <2> QED BY <2>4, <2>5 DEF MailLedger
<1>14. CASE mailFaults' = mailFaults + 1 /\ call' = [call EXCEPT ![s] = refund] /\ UNCHANGED <<mails, used>>
  BY <1>1, <1>2, <1>3, <1>8, <1>14, MailIdles DEF q
<1>15. CASE /\ mailFaults' = mailFaults + 1 /\ call' = [call EXCEPT ![s] = refund]
            /\ M!MailWrite(s) /\ twice' = TRUE /\ used' = used
  <2>1. \A t \in Sessions : call'[t].owed \in Nat /\ (call'[t].pc = "write" => call'[t].owed >= SendFee)
    BY <1>1, <1>2, <1>3, <1>15, MailCallMoves
  <2>2. IsFiniteSet(mails') /\ \A m \in mails' : m.money \in Nat
    BY <1>5, <1>12, <1>15
  <2>3. MailAmounts' BY <1>2, <1>10, <1>15, <2>1, <2>2 DEF MailAmounts
  <2> QED BY <1>15, <2>3 DEF MailLedger
<1> QED BY <1>6, <1>13, <1>14, <1>15

\* The item leaves its mail, or nothing does.
LEMMA MailClaimsItem ==
    ASSUME MailInv, MailAmounts, NEW s \in Sessions, M!ClaimItem(s)
    PROVE  MailAmounts' /\ MailLedger
<1>1. MailTyped /\ MailsNumbered /\ call[s] \in MailCalls /\ mails \subseteq MailRows
  BY DEF MailInv, MailTyped
<1>2. call[s].pc = "item" /\ call[s].owed \in Nat /\ UNCHANGED <<purse, used>>
      /\ (mailFaults' = mailFaults \/ mailFaults' = mailFaults + 1)
  BY DEF M!ClaimItem, MailAmounts, M!MailFault
<1>3. PICK r : r.owed \in Nat /\ r.pc \in {"idle", "add", "money"} /\ call' = [call EXCEPT ![s] = r]
  BY MailIdleOwes, <1>1, <1>2 DEF M!ClaimItem, M!Goto, M!Step, MailCalls
<1>4. M!InFlight(r) = 0 /\ M!InFlight(call[s]) = 0 BY <1>2, <1>3, InFlightIs
<1>5. CASE UNCHANGED mails BY <1>1, <1>2, <1>3, <1>4, <1>5, MailIdles
<1>6. ASSUME NEW m \in mails, M!TakeItem(m)
      PROVE  MailAmounts' /\ MailLedger
  <2> DEFINE n == [m EXCEPT !.item = NoItem]
  <2>1. m \in MailRows BY <1>1
  <2>2. n.id = m.id /\ n.money = m.money BY <2>1 DEF MailRows
  <2>3. mails' = (mails \ {m}) \cup {n} BY <1>6 DEF M!TakeItem, M!With
  <2> HIDE DEF n
  <2>4. n \notin mails \ {m} BY <1>1, <2>2 DEF MailsNumbered
  <2>5. IsFiniteSet(mails) /\ (\A k \in mails : k.money \in Nat) /\ n.money \in Nat
    BY <2>2 DEF MailAmounts
  <2>6. PICK Z : Z = mails' OBVIOUS
  <2>7. /\ MailMoney(Z) + m.money = MailMoney(mails) + n.money
        /\ MailMoney(mails) \in Nat /\ MailMoney(Z) \in Nat
        /\ IsFiniteSet(Z) /\ \A k \in Z : k.money \in Nat
    BY <2>3, <2>4, <2>5, <2>6, MoneyReplaced
  <2>8. MailMoney(mails') = MailMoney(mails) BY <2>5, <2>2, <2>6, <2>7
  <2>9. /\ \A t \in Sessions : call'[t].owed \in Nat /\ (call'[t].pc = "write" => call'[t].owed >= SendFee)
        /\ MailFlight(call') + M!InFlight(call[s]) = MailFlight(call) + M!InFlight(r)
        /\ MailFlight(call') \in Nat /\ MailFlight(call) \in Nat
    BY <1>1, <1>3, MailCallMoves
  <2>10. MailFlight(call') = MailFlight(call) BY <1>4, <2>9
  <2>11. MailKinah' = MailKinah BY <1>2, <2>8, <2>10 DEF MailKinah
  <2>12. mailFaults' \in Nat BY <1>2 DEF MailAmounts
  <2>13. MailAmounts' BY <1>2, <2>6, <2>7, <2>9, <2>12 DEF MailAmounts
  <2> QED BY <2>11, <2>13 DEF MailLedger
<1>7. UNCHANGED mails \/ \E m \in mails : M!TakeItem(m)
  BY DEF M!ClaimItem, M!Mine, M!Row
<1> QED BY <1>5, <1>6, <1>7

\* The kinah leaves its mail for the handler, or with a failed call is lost.
LEMMA MailClaimsKinah ==
    ASSUME MailInv, MailAmounts, NEW s \in Sessions, M!ClaimMoney(s)
    PROVE  MailAmounts' /\ MailLedger
<1>1. MailTyped /\ MailsNumbered /\ call[s] \in MailCalls /\ mails \subseteq MailRows
  BY DEF MailInv, MailTyped
<1>2. call[s].pc = "money" /\ call[s].owed \in Nat /\ UNCHANGED <<purse, used>>
  BY DEF M!ClaimMoney, MailAmounts
<1>3. M!Idle.owed \in Nat /\ M!Idle.pc # "write" /\ M!InFlight(M!Idle) = 0 /\ M!InFlight(call[s]) = 0
  BY <1>2, MailIdleOwes, InFlightIs
<1>4. CASE UNCHANGED mails /\ call' = [call EXCEPT ![s] = M!Idle]
           /\ (mailFaults' = mailFaults \/ mailFaults' = mailFaults + 1)
  BY <1>1, <1>2, <1>3, <1>4, MailIdles
<1>5. ASSUME NEW m \in mails, M!TakeMoney(m),
             NEW r, r.owed \in Nat, r.pc # "write",
             \/ r.pc = "pay" /\ r.owed = m.money /\ mailFaults' = mailFaults
             \/ r = M!Idle /\ mailFaults' = mailFaults + 1,
             call' = [call EXCEPT ![s] = r]
      PROVE  MailAmounts' /\ MailLedger
  <2> DEFINE n == [m EXCEPT !.money = 0]
  <2>1. m \in MailRows BY <1>1
  <2>2. n.id = m.id /\ n.money = 0 BY <2>1 DEF MailRows
  <2>3. mails' = (mails \ {m}) \cup {n} BY <1>5 DEF M!TakeMoney, M!With
  <2> HIDE DEF n
  <2>4. n \notin mails \ {m} BY <1>1, <2>2 DEF MailsNumbered
  <2>5. IsFiniteSet(mails) /\ (\A k \in mails : k.money \in Nat) /\ n.money \in Nat
    BY <2>2 DEF MailAmounts
  <2>6. PICK Z : Z = mails' OBVIOUS
  <2>7. /\ MailMoney(Z) + m.money = MailMoney(mails) + n.money
        /\ MailMoney(mails) \in Nat /\ MailMoney(Z) \in Nat
        /\ IsFiniteSet(Z) /\ \A k \in Z : k.money \in Nat
    BY <2>3, <2>4, <2>5, <2>6, MoneyReplaced
  <2>8. MailMoney(mails') + m.money = MailMoney(mails) /\ m.money \in Nat
    BY <2>2, <2>5, <2>6, <2>7
  <2>9. /\ \A t \in Sessions : call'[t].owed \in Nat /\ (call'[t].pc = "write" => call'[t].owed >= SendFee)
        /\ MailFlight(call') + M!InFlight(call[s]) = MailFlight(call) + M!InFlight(r)
        /\ MailFlight(call') \in Nat /\ MailFlight(call) \in Nat
    BY <1>1, <1>5, MailCallMoves
  <2>10. MailFlight(call') = MailFlight(call) + M!InFlight(r) BY <1>3, <2>9
  <2>11. MailMoney(mails') \in Nat /\ used \in Nat /\ mailFaults \in Nat /\ Total(purse, Chars) \in Nat
    BY <2>6, <2>7, MailSums
  <2>12. MailAmounts' BY <1>5, <2>11, <1>2, <2>6, <2>7, <2>9 DEF MailAmounts
  <2>13. CASE r.pc = "pay" /\ r.owed = m.money /\ mailFaults' = mailFaults
    BY <1>5, <2>13, InFlightIs, <1>2, <2>8, <2>9, <2>10, <2>11, <2>12 DEF MailKinah, MailLedger
  <2>14. CASE r = M!Idle /\ mailFaults' = mailFaults + 1
    BY <1>3, <2>14, <1>2, <2>8, <2>9, <2>10, <2>11, <2>12 DEF MailKinah, MailLedger
  <2> QED BY <1>5, <2>13, <2>14
<1>6. ASSUME NEW m \in mails, M!TakeMoney(m),
             \/ M!Goto(s, [call[s] EXCEPT !.pc = "pay", !.owed = m.money]) /\ mailFaults' = mailFaults
             \/ mailFaults' = mailFaults + 1 /\ M!Goto(s, M!Idle)
      PROVE  MailAmounts' /\ MailLedger
  <2>1. m.money \in Nat BY DEF MailAmounts
  <2>2. CASE M!Goto(s, [call[s] EXCEPT !.pc = "pay", !.owed = m.money]) /\ mailFaults' = mailFaults
    <3>1. PICK r : r = [call[s] EXCEPT !.pc = "pay", !.owed = m.money] OBVIOUS
    <3>2. r.pc = "pay" /\ r.owed = m.money BY <1>1, <3>1 DEF MailCalls
    <3>3. call' = [call EXCEPT ![s] = r] BY <2>2, <3>1 DEF M!Goto
    <3>4. r.owed \in Nat /\ r.pc # "write" /\ mailFaults' = mailFaults
      BY <2>1, <2>2, <3>2
    <3> QED BY <1>5, <1>6, <3>2, <3>3, <3>4
  <2>3. CASE mailFaults' = mailFaults + 1 /\ M!Goto(s, M!Idle)
    BY <2>3, <1>3, <1>5, <1>6 DEF M!Goto
  <2> QED BY <1>6, <2>2, <2>3
<1>7. \/ UNCHANGED mails /\ call' = [call EXCEPT ![s] = M!Idle]
         /\ (mailFaults' = mailFaults \/ mailFaults' = mailFaults + 1)
      \/ \E m \in mails : /\ M!TakeMoney(m)
                          /\ \/ M!Goto(s, [call[s] EXCEPT !.pc = "pay", !.owed = m.money]) /\ mailFaults' = mailFaults
                             \/ mailFaults' = mailFaults + 1 /\ M!Goto(s, M!Idle)
  BY DEF M!Mine, M!Row, M!Goto, M!ClaimMoney, M!MailFault
<1> QED BY <1>4, <1>6, <1>7

\* What is deleted with its mail counts as spent.
LEMMA MailDeletesKinah ==
    ASSUME MailInv, MailAmounts, NEW s \in Sessions, M!DeleteRows(s)
    PROVE  MailAmounts' /\ MailLedger
<1>1. MailTyped BY DEF MailInv
<1>2. /\ call[s].pc = "delete" /\ call[s].owed \in Nat /\ purse' = purse
      /\ call' = [call EXCEPT ![s] = M!Idle]
  BY DEF M!DeleteRows, MailAmounts, M!Goto
<1>3. M!Idle.owed \in Nat /\ M!Idle.pc # "write" /\ M!InFlight(M!Idle) = 0 /\ M!InFlight(call[s]) = 0
  BY <1>2, MailIdleOwes, InFlightIs
<1>4. PICK Y \in SUBSET mails : Y = M!Mine(s) BY DEF M!Mine, M!Row
<1>5. \/ mails' = mails \ Y /\ used' = used + MailMoney(Y) /\ mailFaults' = mailFaults
      \/ UNCHANGED <<mails, used>> /\ mailFaults' = mailFaults + 1
  BY <1>4, MailKinahIs DEF M!DeleteRows, M!MailFault
<1>6. CASE UNCHANGED <<mails, used>> /\ mailFaults' = mailFaults + 1
  BY <1>1, <1>2, <1>3, <1>6, MailIdles
<1>7. CASE mails' = mails \ Y /\ used' = used + MailMoney(Y) /\ mailFaults' = mailFaults
  <2>1. IsFiniteSet(mails) /\ \A m \in mails : m.money \in Nat BY DEF MailAmounts
  <2>2. /\ MailMoney(mails) = MailMoney(mails \ Y) + MailMoney(Y)
        /\ MailMoney(mails) \in Nat /\ MailMoney(mails \ Y) \in Nat /\ MailMoney(Y) \in Nat
        /\ IsFiniteSet(mails \ Y)
    BY <2>1, MoneyTaken
  <2>3. /\ \A t \in Sessions : call'[t].owed \in Nat /\ (call'[t].pc = "write" => call'[t].owed >= SendFee)
        /\ MailFlight(call') + M!InFlight(call[s]) = MailFlight(call) + M!InFlight(M!Idle)
        /\ MailFlight(call') \in Nat /\ MailFlight(call) \in Nat
    BY <1>1, <1>2, <1>3, MailCallMoves
  <2>4. MailFlight(call') = MailFlight(call) BY <1>3, <2>3
  <2>5. used \in Nat /\ mailFaults \in Nat /\ Total(purse, Chars) \in Nat
    BY MailSums
  <2>6. MailMoney(mails') = MailMoney(mails \ Y) BY <1>7
  <2>7. MailKinah' = MailKinah
    BY <1>2, <1>7, <2>2, <2>3, <2>4, <2>5, <2>6 DEF MailKinah
  <2>8. MailAmounts' BY <1>7, <2>1, <2>2, <2>5, <1>2, <2>3 DEF MailAmounts
  <2> QED BY <2>7, <2>8 DEF MailLedger
<1> QED BY <1>5, <1>6, <1>7

\* The other steps move no kinah.
LEMMA MailOthersIdle ==
    ASSUME MailInv, MailAmounts, NEW s \in Sessions,
           \/ M!ClaimAdd(s)
           \/ \E id \in 1..written : M!ClaimBegin(s, id) \/ M!DeleteLook(s, id)
    PROVE  MailAmounts' /\ MailLedger
<1>1. MailTyped /\ call[s] \in MailCalls /\ call[s].owed \in Nat
  BY DEF MailInv, MailTyped, MailAmounts
<1>2. call[s].pc \in {"add", "idle"} /\ UNCHANGED <<purse, mails, used>>
      /\ (mailFaults' = mailFaults \/ mailFaults' = mailFaults + 1)
  BY DEF M!ClaimAdd, M!ClaimBegin, M!DeleteLook, M!MailFault
<1>3. PICK r : r.owed \in Nat /\ r.pc \in {"item", "money", "delete"} /\ call' = [call EXCEPT ![s] = r]
  <2>1. CASE M!ClaimAdd(s) BY <2>1, <1>1 DEF M!ClaimAdd, M!Goto, M!Step, MailCalls
  <2>2. ASSUME NEW id \in 1..written, M!ClaimBegin(s, id) \/ M!DeleteLook(s, id)
        PROVE  \E q : q.owed \in Nat /\ q.pc \in {"item", "money", "delete"} /\ call' = [call EXCEPT ![s] = q]
    <3>1. M!Idle \in MailCalls /\ M!Idle.owed \in Nat BY MailIdleOwes, MailRests
    <3>2. PICK z \in MailCalls : z = M!Idle BY <3>1
    <3>3. CASE M!ClaimBegin(s, id)
      BY <3>2, <3>3, <3>1 DEF M!ClaimBegin, M!Goto, MailCalls
    <3>4. CASE M!DeleteLook(s, id)
      <4>1. PICK i : call' = [call EXCEPT ![s] = [z EXCEPT !.pc = "delete", !.id = id, !.item = i]]
        BY <3>2, <3>4 DEF M!DeleteLook, M!Goto
      <4>2. /\ [z EXCEPT !.pc = "delete", !.id = id, !.item = i].owed \in Nat
            /\ [z EXCEPT !.pc = "delete", !.id = id, !.item = i].pc = "delete"
        BY <3>1, <3>2 DEF MailCalls
      <4> QED BY <4>1, <4>2
    <3> QED BY <2>2, <3>3, <3>4
  <2> QED BY <2>1, <2>2
<1>4. M!InFlight(r) = 0 /\ M!InFlight(call[s]) = 0 BY <1>1, <1>2, <1>3, InFlightIs
<1> QED BY <1>1, <1>2, <1>3, <1>4, MailIdles

LEMMA MailKinahStep ==
    ASSUME MailInv, MailAmounts, M!Next PROVE MailAmounts' /\ MailLedger
<1>1. PICK s \in Sessions :
        \/ \E to \in Chars, i \in Items \cup {NoItem}, k \in Attached : M!SendSpend(s, to, i, k)
        \/ M!SendWrite(s) \/ M!SendRefund(s)
        \/ \E id \in 1..written : M!ClaimBegin(s, id) \/ M!DeleteLook(s, id)
        \/ M!ClaimItem(s) \/ M!ClaimAdd(s) \/ M!ClaimMoney(s) \/ M!ClaimPay(s) \/ M!DeleteRows(s)
  BY DEF M!Next
<1>2. MailTyped BY DEF MailInv
<1>3. CASE M!SendRefund(s) \/ M!ClaimPay(s)
  BY <1>3, <1>2, MailRepays DEF M!SendRefund, M!ClaimPay, M!Goto
<1>4. CASE M!ClaimAdd(s) \/ \E id \in 1..written : M!ClaimBegin(s, id) \/ M!DeleteLook(s, id)
  BY <1>4, MailOthersIdle
<1> QED BY <1>1, <1>2, <1>3, <1>4, MailSpendKinah, MailWritesKinah, MailClaimsItem, MailClaimsKinah,
           MailDeletesKinah

\* What the books say of the sum.
MailBooks == /\ mailFaults = 0 => MailKinah = Purse * Cardinality(Chars)
             /\ ~twice => MailKinah <= Purse * Cardinality(Chars)

LEMMA MailKinahNat ==
    ASSUME MailTyped, MailAmounts
    PROVE  MailKinah \in Nat
<1>1. \A t \in Sessions : call[t].owed \in Nat BY DEF MailAmounts
<1>2. \A t \in Sessions : M!InFlight(call[t]) \in Nat BY <1>1, InFlightIs
<1> DEFINE f == [t \in Sessions |-> M!InFlight(call[t])]
<1>3. \A t \in Sessions : f[t] \in Nat BY <1>2
<1> HIDE DEF f
<1>4. Total(f, Sessions) \in Nat BY <1>3, MailAssumption, CoinsFinite
<1>5. MailFlight(call) \in Nat BY <1>4 DEF f, MailFlight
<1> QED BY <1>5, MailSums DEF MailKinah

LEMMA MailBooksStep ==
    ASSUME MailInv, MailAmounts, MailBooks, M!Next
    PROVE  MailAmounts' /\ MailBooks'
<1>1. MailAmounts' /\ MailLedger BY MailKinahStep
<1>2. MailInv' BY MailStep
<1>3. MailKinah \in Nat /\ mailFaults \in Nat
  BY MailKinahNat DEF MailInv, MailAmounts
<1>4. MailTyped' BY <1>2 DEF MailInv
<1>5. MailKinah' \in Nat
  <2>1. \A t \in Sessions : call'[t].owed \in Nat BY <1>1 DEF MailAmounts
  <2>2. \A t \in Sessions : M!InFlight(call'[t]) \in Nat BY <2>1, InFlightIs
  <2> DEFINE f == [t \in Sessions |-> M!InFlight(call'[t])]
  <2>3. \A t \in Sessions : f[t] \in Nat BY <2>2
  <2> HIDE DEF f
  <2>4. Total(f, Sessions) \in Nat BY <2>3, MailAssumption, CoinsFinite
  <2>5. MailFlight(call') \in Nat BY <2>4 DEF f, MailFlight
  <2>6. \A c \in Chars : purse'[c] \in Nat BY <1>1 DEF MailAmounts
  <2>7. Total(purse', Chars) \in Nat BY <2>6, MailAssumption, CoinsFinite
  <2>8. IsFiniteSet(mails') /\ \A m \in mails' : m.money \in Nat
    BY <1>1 DEF MailAmounts
  <2>9. PICK Z : Z = mails' OBVIOUS
  <2>11. MailMoney(Z) \in Nat BY <2>8, <2>9, MoneyTaken
  <2>12. used' \in Nat BY <1>1 DEF MailAmounts
  <2> QED BY <2>5, <2>7, <2>9, <2>11, <2>12 DEF MailKinah
<1>6. Purse * Cardinality(Chars) \in Nat BY MailAssumption, FS_CardinalityType
<1>7. twice => twice'
  <2>1. PICK s \in Sessions :
          \/ \E to \in Chars, i \in Items \cup {NoItem}, k \in Attached : M!SendSpend(s, to, i, k)
          \/ M!SendWrite(s) \/ M!SendRefund(s)
          \/ \E id \in 1..written : M!ClaimBegin(s, id) \/ M!DeleteLook(s, id)
          \/ M!ClaimItem(s) \/ M!ClaimAdd(s) \/ M!ClaimMoney(s) \/ M!ClaimPay(s) \/ M!DeleteRows(s)
    BY DEF M!Next
  <2>2. M!SendWrite(s) => twice' = twice \/ twice' = TRUE BY DEF M!SendWrite
  <2>3. M!SendWrite(s) \/ twice' = twice
    BY <2>1 DEF M!SendSpend, M!SendRefund, M!ClaimBegin, M!DeleteLook, M!ClaimItem, M!ClaimAdd,
                M!ClaimMoney, M!ClaimPay, M!DeleteRows
  <2> QED BY <2>2, <2>3
<1>8. mailFaults' = mailFaults \/ mailFaults' = mailFaults + 1
  <2>1. PICK s \in Sessions :
          \/ \E to \in Chars, i \in Items \cup {NoItem}, k \in Attached : M!SendSpend(s, to, i, k)
          \/ M!SendWrite(s) \/ M!SendRefund(s)
          \/ \E id \in 1..written : M!ClaimBegin(s, id) \/ M!DeleteLook(s, id)
          \/ M!ClaimItem(s) \/ M!ClaimAdd(s) \/ M!ClaimMoney(s) \/ M!ClaimPay(s) \/ M!DeleteRows(s)
    BY DEF M!Next
  <2>2. M!MailFault => mailFaults' = mailFaults + 1 BY DEF M!MailFault
  <2> QED BY <2>1, <2>2 DEF M!SendSpend, M!SendWrite, M!SendRefund, M!AddKinah, M!ClaimBegin, M!DeleteLook,
                            M!ClaimItem, M!ClaimAdd, M!ClaimMoney, M!ClaimPay, M!DeleteRows
<1>9. ~twice' => MailKinah' <= MailKinah BY <1>3, <1>1 DEF MailLedger
<1>10. mailFaults' = 0 => mailFaults = 0 /\ MailKinah' = MailKinah
  BY <1>1, <1>3, <1>8 DEF MailLedger
<1>11. mailFaults' = 0 => MailKinah' = Purse * Cardinality(Chars)
  BY <1>10 DEF MailBooks
<1>12. ~twice' => MailKinah' <= Purse * Cardinality(Chars)
  BY <1>7, <1>3, <1>5, <1>6, <1>9 DEF MailBooks
<1> QED BY <1>1, <1>11, <1>12 DEF MailBooks

LEMMA MailBooksInvariant == Spec => [](part = "mail" => MailInv /\ MailAmounts /\ MailBooks)
<1>1. Init => (part = "mail" => MailAmounts /\ MailBooks)
  <2> SUFFICES ASSUME Init, part = "mail" PROVE MailAmounts /\ MailBooks OBVIOUS
  <2>1. M!Init BY DEF Init
  <2>2. /\ purse = [c \in Chars |-> Purse] /\ mails = {} /\ used = 0 /\ mailFaults = 0
        /\ call = [s \in Sessions |-> M!Idle]
    BY <2>1 DEF M!Init
  <2>3. \A s \in Sessions : call[s].owed = 0 /\ call[s].pc = "idle"
    BY <2>2, MailIdleOwes
  <2>4. IsFiniteSet(mails) /\ Purse \in Nat BY <2>2, FS_EmptySet, MailAssumption
  <2>5. purse \in [Chars -> Nat] BY <2>2, <2>4
  <2>6. MailAmounts BY <2>2, <2>3, <2>4, <2>5 DEF MailAmounts
  <2>7. Total(purse, Chars) = Purse * Cardinality(Chars) /\ Total(purse, Chars) \in Nat
    <3>1. PICK p : p = purse OBVIOUS
    <3>2. \A c \in Chars : p[c] = Purse BY <2>2, <3>1
    <3>3. Total(p, Chars) = Purse * Cardinality(Chars) /\ Total(p, Chars) \in Nat
      BY <2>4, <3>2, MailAssumption, TotalOfSame
    <3> QED BY <3>1, <3>3
  <2>8. MailMoney(mails) = 0 BY <2>2, FS_EmptySet DEF Coins, MailMoney, Total
  <2>9. MailFlight(call) = 0
    <3> DEFINE f == [t \in Sessions |-> M!InFlight(call[t])]
    <3>0. \A t \in Sessions : M!InFlight(call[t]) = 0 BY <2>3, InFlightIs
    <3>1. \A t \in Sessions : f[t] = 0 BY <3>0
    <3> HIDE DEF f
    <3>2. Coins(f, Sessions) = {} BY <3>1 DEF Coins
    <3>3. MailFlight(call) = Cardinality({}) BY <3>2 DEF MailFlight, Total, f
    <3> QED BY <3>3, FS_EmptySet
  <2>10. MailKinah = Purse * Cardinality(Chars) /\ Purse * Cardinality(Chars) \in Nat
    BY <2>2, <2>7, <2>8, <2>9 DEF MailKinah
  <2>11. MailBooks BY <2>10 DEF MailBooks
  <2> QED BY <2>6, <2>11
<1>2. (part = "mail" => MailInv) /\ (part = "mail" => MailAmounts /\ MailBooks) /\ [Next]_all
        => (part = "mail" => MailAmounts /\ MailBooks)'
  <2> SUFFICES ASSUME part = "mail", MailInv, MailAmounts, MailBooks, [Next]_all
               PROVE  MailAmounts' /\ MailBooks'
    BY PartOfStep
  <2>1. CASE M!Next BY <2>1, MailBooksStep
  <2>2. CASE UNCHANGED mail
    BY <2>2 DEF mail, MailAmounts, MailBooks, MailKinah, MailFlight
  <2> QED BY <2>1, <2>2, PartOfStep
<1> QED BY <1>1, <1>2, MailInvariant, PTL DEF Spec

\* Kinah is neither made nor lost in the mail while every call succeeds, however
\* the sends, claims and deletions of any number of sessions overlap; a failed
\* call may lose some, and only an unanswered aion_mailwrite makes any.
THEOREM MailKinahAccounted == Spec => []KinahAccounted
<1>1. (part = "mail" => MailInv /\ MailAmounts /\ MailBooks) => KinahAccounted
  BY MailKinahIs DEF KinahAccounted, M!KinahAccounted, MailBooks
<1> QED BY <1>1, MailBooksInvariant, PTL

-----------------------------------------------------------------------------
(* Party.                                                                  *)

Roster == [leader : P!Eids, members : Seq(P!Eids)]
RunRow == [template : Templates, members : [P!Eids -> Nat], boss : BOOLEAN, made : Nat]
Among(e, s) == \E i \in 1..Len(s) : s[i] = e
Distinct(s) == \A i, j \in 1..Len(s) : s[i] = s[j] => i = j

\* The groups of a VM, who they are of and the number to come: a pointer leads
\* to a roster that has the entity, and unless somebody joined a group from a
\* group the rosters have nobody else.
GroupsOk(rows, of, next, joined) ==
    /\ of \in [P!Eids -> Nat] /\ next \in Nat \ {0}
    /\ \A g \in DOMAIN rows : /\ g \in 1..next - 1 /\ rows[g] \in Roster
                               /\ Among(rows[g].leader, rows[g].members)
    /\ \A e \in P!Eids : of[e] # 0 => of[e] \in DOMAIN rows /\ Among(e, rows[of[e]].members)
    /\ ~joined => \A g \in DOMAIN rows : /\ Distinct(rows[g].members)
                                          /\ \A e \in P!Eids : Among(e, rows[g].members) => of[e] = g

\* The runs of a VM, likewise.
RunsOk(rows, of, next, joined) ==
    /\ of \in [P!Eids -> Nat] /\ next \in Nat \ {0}
    /\ \A r \in DOMAIN rows : r \in 1..next - 1 /\ rows[r] \in RunRow
    /\ \A e \in P!Eids : of[e] < next /\ (of[e] \in DOMAIN rows => rows[of[e]].members[e] > 0)
    /\ ~joined => \A r \in DOMAIN rows : \A e \in P!Eids : rows[r].members[e] <= 1

\* Those of Who who are in run r.
Gone(Who, of, r) == {e \in Who : of[e] = r}

\* A create under way has a party as a group has it.
CreateOk(c, joined) ==
    c # P!NotCreating => /\ c.party \in Seq(P!Eids) /\ c.template \in Templates
                         /\ ~joined => Distinct(c.party)

PartyTyped ==
    /\ hour \in Nat /\ logins \in [Players -> 1..MaxLogins]
    /\ scale.vms \subseteq PartyVms /\ scale.templates \subseteq Templates
    /\ joinedTwice \in BOOLEAN /\ uncleared \in BOOLEAN
    /\ reentry \in [Players -> [Templates -> Nat]]
    /\ DOMAIN groups = PartyVms /\ DOMAIN memberGroup = PartyVms /\ DOMAIN nextGroup = PartyVms
    /\ DOMAIN instances = PartyVms /\ DOMAIN memberInstance = PartyVms /\ DOMAIN nextInstance = PartyVms
    /\ DOMAIN creating = PartyVms

GroupsAt(v) == GroupsOk(groups[v], memberGroup[v], nextGroup[v], joinedTwice)
RunsAt(v) == RunsOk(instances[v], memberInstance[v], nextInstance[v], joinedTwice)
CreateAt(v) == CreateOk(creating[v], joinedTwice)
VmOk(v) == GroupsAt(v) /\ RunsAt(v) /\ CreateAt(v)

\* Who is on cooldown was in a run.
ChargeOk == ~uncleared => \A p \in Players, t \in Templates : reentry[p][t] > hour => <<p, t>> \in entered

PartyInv == PartyTyped /\ (\A v \in PartyVms : VmOk(v)) /\ ChargeOk

\* A sequence without its k-th element.
LEMMA WithoutOne ==
    ASSUME NEW D, NEW s \in Seq(D), NEW k \in 1..Len(s)
    PROVE  /\ P!RemoveAt(s, k) \in Seq(D) /\ Len(P!RemoveAt(s, k)) = Len(s) - 1
           /\ \A i \in 1..Len(s) - 1 : P!RemoveAt(s, k)[i] = IF i < k THEN s[i] ELSE s[i + 1]
BY DEF P!RemoveAt

\* RemoveFirst takes off one entry of e, and nothing else.
LEMMA FirstRemoved ==
    ASSUME NEW D, NEW s \in Seq(D), NEW e
    PROVE  \/ ~Among(e, s) /\ P!RemoveFirst(s, e) = s
           \/ \E k \in 1..Len(s) : s[k] = e /\ P!RemoveFirst(s, e) = P!RemoveAt(s, k)
<1> DEFINE places == {i \in DOMAIN s : s[i] = e}
<1>1. CASE places # {}
  <2>1. places \subseteq Nat OBVIOUS
  <2>2. \E k \in places : \A i \in places : k <= i BY <1>1, <2>1, LeastNatural
  <2> DEFINE k == CHOOSE k \in places : \A i \in places : k <= i
  <2>3. k \in places BY <2>2
  <2>4. P!RemoveFirst(s, e) = P!RemoveAt(s, k) BY <1>1 DEF P!RemoveFirst
  <2> HIDE DEF k
  <2> QED BY <2>3, <2>4
<1>2. CASE places = {} BY <1>2 DEF P!RemoveFirst, Among
<1> QED BY <1>1, <1>2

LEMMA RestOf ==
    ASSUME NEW D, NEW s \in Seq(D), NEW e
    PROVE  \E rest \in Seq(D) :
             /\ rest = P!RemoveFirst(s, e)
             /\ \A x : Among(x, rest) => Among(x, s)
             /\ \A x : x # e /\ Among(x, s) => Among(x, rest)
             /\ Distinct(s) => Distinct(rest) /\ ~Among(e, rest)
<1>1. CASE ~Among(e, s) /\ P!RemoveFirst(s, e) = s BY <1>1
<1>2. ASSUME NEW k \in 1..Len(s), s[k] = e, P!RemoveFirst(s, e) = P!RemoveAt(s, k)
      PROVE  \E rest \in Seq(D) :
             /\ rest = P!RemoveFirst(s, e)
             /\ \A x : Among(x, rest) => Among(x, s)
             /\ \A x : x # e /\ Among(x, s) => Among(x, rest)
             /\ Distinct(s) => Distinct(rest) /\ ~Among(e, rest)
  <2>1. PICK rest \in Seq(D) : rest = P!RemoveAt(s, k) /\ Len(rest) = Len(s) - 1
             /\ \A i \in 1..Len(s) - 1 : rest[i] = IF i < k THEN s[i] ELSE s[i + 1]
    BY WithoutOne
  <2>2. \A x : Among(x, rest) => Among(x, s) BY <2>1 DEF Among
  <2>3. \A x : x # e /\ Among(x, s) => Among(x, rest)
    <3> SUFFICES ASSUME NEW i \in 1..Len(s), s[i] # e PROVE \E j \in 1..Len(rest) : rest[j] = s[i]
      BY DEF Among
    <3>1. CASE i < k BY <2>1, <3>1
    <3>2. CASE i > k
      <4>1. i - 1 \in 1..Len(s) - 1 /\ ~(i - 1 < k) /\ (i - 1) + 1 = i BY <3>2
      <4> QED BY <2>1, <4>1
    <3> QED BY <1>2, <3>1, <3>2
  <2>4. ASSUME Distinct(s) PROVE Distinct(rest) /\ ~Among(e, rest)
    <3> DEFINE place(i) == IF i < k THEN i ELSE i + 1
    <3>1. \A i \in 1..Len(rest) : place(i) \in 1..Len(s) /\ place(i) # k /\ rest[i] = s[place(i)]
      BY <2>1
    <3>2. \A i, j \in 1..Len(rest) : place(i) = place(j) => i = j BY <2>1
    <3> HIDE DEF place
    <3> QED BY <1>2, <2>4, <3>1, <3>2 DEF Distinct, Among
  <2> QED BY <1>2, <2>1, <2>2, <2>3, <2>4
<1> QED BY <1>1, <1>2, FirstRemoved

\* How a group comes to be, is joined and is left.
LEMMA GroupsFounded ==
    ASSUME NEW t, NEW of, NEW n, NEW j \in BOOLEAN, GroupsOk(t, of, n, j), NEW e \in P!Eids, of[e] = 0
    PROVE  GroupsOk(P!With(t, n, [leader |-> e, members |-> <<e>>]), [of EXCEPT ![e] = n], n + 1, j)
<1> DEFINE row == [leader |-> e, members |-> <<e>>]
           t2 == P!With(t, n, row)
           of2 == [of EXCEPT ![e] = n]
<1>1. row \in Roster /\ Among(row.leader, row.members) /\ Distinct(row.members)
      /\ \A x : Among(x, row.members) <=> x = e
  BY DEF Roster, Among, Distinct
<1>2. DOMAIN t2 = DOMAIN t \cup {n} /\ t2[n] = row /\ n \notin DOMAIN t
      /\ \A g \in DOMAIN t : t2[g] = t[g] /\ g # n
  BY DEF P!With, GroupsOk
<1>3. of2 \in [P!Eids -> Nat] /\ of2[e] = n /\ \A x \in P!Eids : x # e => of2[x] = of[x]
  BY DEF GroupsOk
<1> HIDE DEF row, t2, of2
<1>4. n + 1 \in Nat \ {0} /\ n \in 1..(n + 1) - 1 /\ \A g \in 1..n - 1 : g \in 1..(n + 1) - 1
  BY DEF GroupsOk
<1>5. \A g \in DOMAIN t2 : g \in 1..(n + 1) - 1 /\ t2[g] \in Roster /\ Among(t2[g].leader, t2[g].members)
  BY <1>1, <1>2, <1>4 DEF GroupsOk
<1>6. \A x \in P!Eids : of2[x] # 0 => of2[x] \in DOMAIN t2 /\ Among(x, t2[of2[x]].members)
  BY <1>1, <1>2, <1>3 DEF GroupsOk
<1>7. ASSUME ~j, NEW g \in DOMAIN t2
      PROVE  Distinct(t2[g].members) /\ \A x \in P!Eids : Among(x, t2[g].members) => of2[x] = g
  BY <1>1, <1>2, <1>3, <1>7 DEF GroupsOk
<1> QED BY <1>3, <1>4, <1>5, <1>6, <1>7 DEF GroupsOk, t2, of2, row

LEMMA Appended ==
    ASSUME NEW D, NEW s \in Seq(D), NEW e \in D
    PROVE  \E c \in Seq(D) : /\ c = Append(s, e)
                             /\ \A x : Among(x, c) <=> x = e \/ Among(x, s)
                             /\ Distinct(s) /\ ~Among(e, s) => Distinct(c)
<1>1. Append(s, e) \in Seq(D) /\ Len(Append(s, e)) = Len(s) + 1
      /\ \A i \in 1..Len(s) + 1 : Append(s, e)[i] = IF i = Len(s) + 1 THEN e ELSE s[i]
  OBVIOUS
<1>2. PICK c \in Seq(D) : c = Append(s, e) /\ Len(c) = Len(s) + 1
         /\ \A i \in 1..Len(s) + 1 : c[i] = IF i = Len(s) + 1 THEN e ELSE s[i]
  BY <1>1
<1>3. \A x : Among(x, c) => x = e \/ Among(x, s) BY <1>2 DEF Among
<1>4. \A x : Among(x, s) => Among(x, c) BY <1>2 DEF Among
<1>5. Among(e, c) BY <1>2 DEF Among
<1>6. ASSUME Distinct(s), ~Among(e, s) PROVE Distinct(c)
  BY <1>2, <1>6 DEF Distinct, Among
<1> QED BY <1>2, <1>3, <1>4, <1>5, <1>6

LEMMA GroupsJoined ==
    ASSUME NEW t, NEW of, NEW n, NEW j \in BOOLEAN, GroupsOk(t, of, n, j), NEW e \in P!Eids,
           NEW g \in DOMAIN t
    PROVE  GroupsOk([t EXCEPT ![g].members = Append(@, e)], [of EXCEPT ![e] = g], n, j \/ of[e] # 0)
<1> DEFINE t2 == [t EXCEPT ![g].members = Append(@, e)]
           of2 == [of EXCEPT ![e] = g]
<1>1. t[g] \in Roster /\ t[g].members \in Seq(P!Eids) /\ t[g].leader \in P!Eids
      /\ Among(t[g].leader, t[g].members) /\ g \in Nat
  BY DEF GroupsOk, Roster
<1>2. PICK c \in Seq(P!Eids) : /\ c = Append(t[g].members, e)
                               /\ \A x : Among(x, c) <=> x = e \/ Among(x, t[g].members)
                               /\ Distinct(t[g].members) /\ ~Among(e, t[g].members) => Distinct(c)
  BY <1>1, Appended
<1>3. DOMAIN t2 = DOMAIN t /\ t2[g] = [leader |-> t[g].leader, members |-> c]
      /\ \A h \in DOMAIN t : h # g => t2[h] = t[h]
  BY <1>1, <1>2 DEF Roster
<1>4. t2[g] \in Roster /\ t2[g].members = c /\ t2[g].leader = t[g].leader
  BY <1>1, <1>3 DEF Roster
<1>5. of2 \in [P!Eids -> Nat] /\ of2[e] = g /\ \A x \in P!Eids : x # e => of2[x] = of[x]
  BY <1>1 DEF GroupsOk
<1> HIDE DEF t2, of2
<1>6. ASSUME NEW h \in DOMAIN t2
      PROVE  h \in 1..n - 1 /\ t2[h] \in Roster /\ Among(t2[h].leader, t2[h].members)
  <2>1. h \in DOMAIN t /\ h \in 1..n - 1 /\ t[h] \in Roster /\ Among(t[h].leader, t[h].members)
    BY <1>3 DEF GroupsOk
  <2>2. Among(t[g].leader, c) BY <1>1, <1>2
  <2>3. CASE h = g BY <1>4, <2>1, <2>2, <2>3
  <2>4. CASE h # g BY <1>3, <2>1, <2>4
  <2> QED BY <2>3, <2>4
<1>7. ASSUME NEW x \in P!Eids, of2[x] # 0
      PROVE  of2[x] \in DOMAIN t2 /\ Among(x, t2[of2[x]].members)
  <2>1. Among(e, c) BY <1>2
  <2>2. CASE x = e BY <1>3, <1>4, <1>5, <2>1, <2>2
  <2>3. CASE x # e
    <3>1. of2[x] = of[x] /\ of[x] \in DOMAIN t /\ Among(x, t[of[x]].members)
      BY <1>5, <1>7, <2>3 DEF GroupsOk
    <3>2. of[x] = g => Among(x, c) BY <1>2, <3>1
    <3> QED BY <1>3, <1>4, <3>1, <3>2
  <2> QED BY <2>2, <2>3
<1>8. ASSUME ~(j \/ of[e] # 0), NEW h \in DOMAIN t2
      PROVE  Distinct(t2[h].members) /\ \A x \in P!Eids : Among(x, t2[h].members) => of2[x] = h
  <2>1. \A i \in DOMAIN t : ~Among(e, t[i].members) BY <1>8 DEF GroupsOk
  <2>2. CASE h = g
    <3>1. Distinct(t[g].members) /\ ~Among(e, t[g].members)
      BY <1>8, <2>1 DEF GroupsOk
    <3>2. ASSUME NEW x \in P!Eids, Among(x, c) PROVE of2[x] = g
      BY <1>2, <3>2, <1>8, <1>5 DEF GroupsOk
    <3> QED BY <1>2, <1>4, <2>2, <3>1, <3>2
  <2>3. CASE h # g BY <1>3, <1>5, <1>8, <2>1, <2>3 DEF GroupsOk
  <2> QED BY <2>2, <2>3
<1>9. n \in Nat \ {0} BY DEF GroupsOk
<1> QED BY <1>5, <1>6, <1>7, <1>8, <1>9 DEF GroupsOk, t2, of2

LEMMA GroupsLeft ==
    ASSUME NEW t, NEW of, NEW n, NEW j \in BOOLEAN, GroupsOk(t, of, n, j), NEW e \in P!Eids,
           NEW g, g = of[e], g # 0, NEW rest, rest = P!RemoveFirst(t[g].members, e)
    PROVE  /\ P!Remaining(rest, e) \subseteq P!Eids
           /\ GroupsOk(IF Len(rest) < 2 THEN P!Without(t, g)
                       ELSE P!With(t, g, [leader |-> IF t[g].leader = e THEN rest[1] ELSE t[g].leader,
                                          members |-> rest]),
                       [x \in P!Eids |-> IF x \in P!Remaining(rest, e) THEN 0 ELSE of[x]], n, j)
<1> DEFINE lead == IF t[g].leader = e THEN rest[1] ELSE t[g].leader
           row == [leader |-> lead, members |-> rest]
           out == P!Remaining(rest, e)
           of2 == [x \in P!Eids |-> IF x \in out THEN 0 ELSE of[x]]
<1>1. g \in DOMAIN t /\ t[g].members \in Seq(P!Eids) /\ t[g].leader \in P!Eids
      /\ Among(t[g].leader, t[g].members) /\ Among(e, t[g].members) /\ n \in Nat \ {0} /\ of \in [P!Eids -> Nat]
  BY DEF GroupsOk, Roster
<1>2. /\ rest \in Seq(P!Eids)
      /\ \A x : Among(x, rest) => Among(x, t[g].members)
      /\ \A x : x # e /\ Among(x, t[g].members) => Among(x, rest)
      /\ Distinct(t[g].members) => Distinct(rest) /\ ~Among(e, rest)
  BY <1>1, RestOf
<1>3. Len(rest) \in Nat /\ \A i \in 1..Len(rest) : rest[i] \in P!Eids BY <1>2
<1>4. out \subseteq P!Eids /\ e \in out /\ (Len(rest) # 1 => out = {e})
      /\ (Len(rest) = 1 => out = {e, rest[1]})
  BY <1>3 DEF P!Remaining
<1>5. ASSUME NEW x, Among(x, rest), Len(rest) < 2 PROVE Len(rest) = 1 /\ x = rest[1]
  <2>1. PICK i \in 1..Len(rest) : rest[i] = x BY <1>5 DEF Among
  <2>2. PICK k \in Nat : k = Len(rest) BY <1>3
  <2>3. i \in 1..k /\ k < 2 BY <1>5, <2>2
  <2>4. i = 1 /\ k = 1 BY <2>3
  <2> QED BY <2>1, <2>2, <2>4
<1>6. Len(rest) >= 1 => Among(rest[1], rest) BY <1>3 DEF Among
<1>7. of2 \in [P!Eids -> Nat] /\ \A x \in P!Eids : of2[x] = IF x \in out THEN 0 ELSE of[x]
  BY <1>1
<1> HIDE DEF out, of2
<1>8. \A h \in DOMAIN t : h # 0 BY DEF GroupsOk
<1>9. CASE Len(rest) < 2
  <2> DEFINE t2 == P!Without(t, g)
  <2>1. DOMAIN t2 = DOMAIN t \ {g} /\ \A h \in DOMAIN t2 : t2[h] = t[h]
    BY DEF P!Without
  <2> HIDE DEF t2
  <2>2. \A h \in DOMAIN t2 : h \in 1..n - 1 /\ t2[h] \in Roster /\ Among(t2[h].leader, t2[h].members)
    BY <2>1 DEF GroupsOk
  <2>3. ASSUME NEW x \in P!Eids, of2[x] # 0
        PROVE  of2[x] \in DOMAIN t2 /\ Among(x, t2[of2[x]].members)
    <3>1. x \notin out /\ of2[x] = of[x] BY <1>7, <2>3
    <3>2. of[x] # g
      <4> SUFFICES ASSUME of[x] = g PROVE FALSE OBVIOUS
      <4>1. Among(x, t[g].members) /\ x # e BY <1>4, <2>3, <3>1 DEF GroupsOk
      <4>2. Len(rest) = 1 /\ x = rest[1] BY <1>2, <1>5, <1>9, <4>1
      <4> QED BY <1>4, <3>1, <4>2
    <3> QED BY <2>1, <2>3, <3>1, <3>2 DEF GroupsOk
  <2>4. ASSUME ~j, NEW h \in DOMAIN t2
        PROVE  Distinct(t2[h].members) /\ \A x \in P!Eids : Among(x, t2[h].members) => of2[x] = h
    <3>1. h \in DOMAIN t /\ h # g /\ t2[h] = t[h] BY <2>1
    <3>2. ASSUME NEW x \in P!Eids, Among(x, t[h].members) PROVE of2[x] = h
      <4>1. of[x] = h BY <2>4, <3>1, <3>2 DEF GroupsOk
      <4>2. x # e BY <3>1, <4>1
      <4>3. ~Among(x, rest) BY <1>1, <1>2, <2>4, <3>1, <3>2, <4>1 DEF GroupsOk
      <4>4. x \notin out BY <1>3, <1>4, <1>6, <4>2, <4>3
      <4> QED BY <1>7, <4>1, <4>4
    <3> QED BY <2>4, <3>1, <3>2 DEF GroupsOk
  <2>5. GroupsOk(t2, of2, n, j) BY <1>1, <1>7, <2>2, <2>3, <2>4 DEF GroupsOk
  <2> QED BY <1>4, <1>9, <2>5 DEF t2, of2, out
<1>10. CASE ~(Len(rest) < 2)
  <2> DEFINE t2 == P!With(t, g, row)
  <2>1. DOMAIN t2 = DOMAIN t /\ t2[g] = row /\ \A h \in DOMAIN t : h # g => t2[h] = t[h]
    BY <1>1 DEF P!With
  <2>2. row.leader = lead /\ row.members = rest OBVIOUS
  <2>3. lead \in P!Eids /\ Among(lead, rest) BY <1>3, <1>6, <1>10, <1>1, <1>2
  <2>4. row \in Roster BY <1>2, <2>3 DEF Roster
  <2> HIDE DEF t2, row, lead
  <2>5. \A h \in DOMAIN t2 : h \in 1..n - 1 /\ t2[h] \in Roster /\ Among(t2[h].leader, t2[h].members)
    BY <2>1, <2>2, <2>3, <2>4 DEF GroupsOk
  <2>6. out = {e} BY <1>3, <1>4, <1>10
  <2>7. ASSUME NEW x \in P!Eids, of2[x] # 0
        PROVE  of2[x] \in DOMAIN t2 /\ Among(x, t2[of2[x]].members)
    <3>1. x # e /\ of2[x] = of[x] /\ of[x] \in DOMAIN t /\ Among(x, t[of[x]].members)
      BY <1>7, <2>6, <2>7 DEF GroupsOk
    <3> QED BY <1>2, <2>1, <2>2, <3>1
  <2>8. ASSUME ~j, NEW h \in DOMAIN t2
        PROVE  Distinct(t2[h].members) /\ \A x \in P!Eids : Among(x, t2[h].members) => of2[x] = h
    <3>1. h \in DOMAIN t /\ Distinct(t[h].members) /\ \A x \in P!Eids : Among(x, t[h].members) => of[x] = h
      BY <2>1, <2>8 DEF GroupsOk
    <3>2. CASE h = g
      <4>1. Distinct(rest) /\ ~Among(e, rest) BY <1>2, <3>1, <3>2
      <4>2. ASSUME NEW x \in P!Eids, Among(x, rest) PROVE of2[x] = g
        BY <1>2, <3>1, <3>2, <4>1, <4>2, <1>7, <2>6
      <4> QED BY <2>1, <2>2, <3>2, <4>1, <4>2
    <3>3. CASE h # g
      <4>1. ASSUME NEW x \in P!Eids, Among(x, t[h].members) PROVE of2[x] = h
        BY <3>1, <3>3, <4>1, <1>7, <2>6
      <4> QED BY <2>1, <3>1, <3>3, <4>1
    <3> QED BY <3>2, <3>3
  <2>9. GroupsOk(t2, of2, n, j) BY <1>1, <1>7, <2>5, <2>7, <2>8 DEF GroupsOk
  <2> QED BY <1>4, <1>10, <2>9 DEF t2, of2, out, row, lead
<1> QED BY <1>9, <1>10

\* How often an entity is in a party.
LEMMA Often ==
    ASSUME NEW s \in Seq(P!Eids)
    PROVE  /\ P!HowOften(s) \in [P!Eids -> Nat]
           /\ \A e \in P!Eids : Among(e, s) => P!HowOften(s)[e] > 0
           /\ Distinct(s) => \A e \in P!Eids : P!HowOften(s)[e] <= 1
<1> DEFINE places(e) == {i \in 1..Len(s) : s[i] = e}
<1>1. \A Who : P!Cardinality(Who) = Cardinality(Who)
  BY DEF P!Cardinality, Cardinality
<1>2. P!HowOften(s) = [e \in P!Eids |-> Cardinality(places(e))]
  BY <1>1 DEF P!HowOften
<1>3. ASSUME NEW e
      PROVE  /\ Cardinality(places(e)) \in Nat
             /\ Among(e, s) => Cardinality(places(e)) > 0
             /\ Distinct(s) => Cardinality(places(e)) <= 1
  <2>1. PICK here : here = places(e) OBVIOUS
  <2>2. IsFiniteSet(1..Len(s)) /\ here \subseteq 1..Len(s) BY <2>1, FS_Interval
  <2>3. IsFiniteSet(here) BY <2>2, FS_Subset
  <2>4. Cardinality(here) \in Nat BY <2>3, FS_CardinalityType
  <2>5. here = {} <=> Cardinality(here) = 0 BY <2>3, FS_EmptySet
  <2>6. Among(e, s) => here # {} BY <2>1 DEF Among
  <2>7. ASSUME Distinct(s), here # {} PROVE Cardinality(here) = 1
    <3>1. PICK k \in here : TRUE BY <2>7
    <3>2. here = {k} BY <2>1, <2>7, <3>1 DEF Distinct
    <3> QED BY <3>2, FS_Singleton
  <2> HIDE DEF places
  <2> QED BY <2>1, <2>4, <2>5, <2>6, <2>7
<1> HIDE DEF places
<1> QED BY <1>2, <1>3

LEMMA RunsMade ==
    ASSUME NEW t, NEW of, NEW n, NEW j \in BOOLEAN, RunsOk(t, of, n, j), NEW s \in Seq(P!Eids),
           ~j => Distinct(s), NEW Who \in SUBSET P!Eids, \A e \in Who : Among(e, s),
           NEW tmpl \in Templates, NEW h \in Nat
    PROVE  RunsOk(P!With(t, n, [template |-> tmpl, members |-> P!HowOften(s), boss |-> TRUE, made |-> h]),
                  [e \in P!Eids |-> IF e \in Who THEN n ELSE of[e]], n + 1, j)
<1> DEFINE row == [template |-> tmpl, members |-> P!HowOften(s), boss |-> TRUE, made |-> h]
           t2 == P!With(t, n, row)
           of2 == [e \in P!Eids |-> IF e \in Who THEN n ELSE of[e]]
<1>1. row \in RunRow /\ row.members = P!HowOften(s) BY Often DEF RunRow
<1>2. DOMAIN t2 = DOMAIN t \cup {n} /\ t2[n] = row /\ n \notin DOMAIN t
      /\ \A r \in DOMAIN t : t2[r] = t[r] /\ r # n
  BY DEF P!With, RunsOk
<1>3. n \in Nat \ {0} /\ of \in [P!Eids -> Nat] BY DEF RunsOk
<1>4. of2 \in [P!Eids -> Nat] /\ \A e \in P!Eids : of2[e] = IF e \in Who THEN n ELSE of[e]
  BY <1>3
<1> HIDE DEF row, t2, of2
<1>5. n + 1 \in Nat \ {0} /\ n \in 1..(n + 1) - 1 /\ \A r \in 1..n - 1 : r \in 1..(n + 1) - 1
  BY <1>3
<1>6. \A r \in DOMAIN t2 : r \in 1..(n + 1) - 1 /\ t2[r] \in RunRow
  BY <1>1, <1>2, <1>5 DEF RunsOk
<1>7. ASSUME NEW e \in P!Eids
      PROVE  of2[e] < n + 1 /\ (of2[e] \in DOMAIN t2 => t2[of2[e]].members[e] > 0)
  BY <1>1, Often, <1>2, <1>3, <1>4 DEF RunsOk
<1>8. ASSUME ~j, NEW r \in DOMAIN t2, NEW e \in P!Eids PROVE t2[r].members[e] <= 1
  BY <1>1, <1>2, <1>8, Often DEF RunsOk
<1> QED BY <1>4, <1>5, <1>6, <1>7, <1>8 DEF RunsOk, t2, of2, row

\* A number that is taken for a run that does not come to be leads nowhere.
LEMMA RunsFailed ==
    ASSUME NEW t, NEW of, NEW n, NEW j \in BOOLEAN, RunsOk(t, of, n, j), NEW Who
    PROVE  RunsOk(t, [e \in P!Eids |-> IF e \in Who THEN n ELSE of[e]], n + 1, j)
<1> DEFINE of2 == [e \in P!Eids |-> IF e \in Who THEN n ELSE of[e]]
<1>1. n \in Nat \ {0} /\ of \in [P!Eids -> Nat] /\ n \notin DOMAIN t BY DEF RunsOk
<1>2. of2 \in [P!Eids -> Nat] /\ \A e \in P!Eids : of2[e] = IF e \in Who THEN n ELSE of[e]
  BY <1>1
<1> HIDE DEF of2
<1>3. n + 1 \in Nat \ {0} /\ n < n + 1 /\ (\A r \in 1..n - 1 : r \in 1..(n + 1) - 1)
      /\ \A i \in Nat : i < n => i < n + 1
  BY <1>1
<1>4. ASSUME NEW e \in P!Eids
      PROVE  of2[e] < n + 1 /\ (of2[e] \in DOMAIN t => t[of2[e]].members[e] > 0)
  BY <1>1, <1>2, <1>3 DEF RunsOk
<1> QED BY <1>2, <1>3, <1>4 DEF RunsOk, of2

\* Those in Who have left the runs of t, of which those in Stay remain.
LeftOf(t, of, t2, of2, Who, Stay) ==
    /\ Stay \subseteq DOMAIN t /\ DOMAIN t2 = Stay
    /\ \A r \in Stay : t2[r] = [t[r] EXCEPT !.members = P!Left(t[r].members, Gone(Who, of, r))]
    /\ of2 \in [P!Eids -> Nat]
    /\ \A e \in P!Eids : of2[e] = IF e \in Who THEN 0 ELSE of[e]

LEMMA RunsLeft ==
    ASSUME NEW t, NEW of, NEW n, NEW j \in BOOLEAN, RunsOk(t, of, n, j),
           NEW t2, NEW of2, NEW Who, NEW Stay, LeftOf(t, of, t2, of2, Who, Stay)
    PROVE  RunsOk(t2, of2, n, j)
<1> DEFINE gone(r) == Gone(Who, of, r)
<1>1. n \in Nat \ {0} /\ of \in [P!Eids -> Nat] BY DEF RunsOk
<1>2. of2 \in [P!Eids -> Nat] /\ \A e \in P!Eids : of2[e] = IF e \in Who THEN 0 ELSE of[e]
  BY DEF LeftOf
<1>3. ASSUME NEW r \in Stay
      PROVE  /\ t2[r] \in RunRow /\ r \in 1..n - 1
             /\ \A e \in P!Eids : e \notin gone(r) => t2[r].members[e] = t[r].members[e]
             /\ \A e \in P!Eids : t[r].members[e] <= 1 => t2[r].members[e] <= 1
  <2>1. t[r] \in RunRow /\ t[r].members \in [P!Eids -> Nat] /\ r \in 1..n - 1
    BY DEF RunsOk, RunRow, LeftOf
  <2>2. PICK m : m = P!Left(t[r].members, gone(r)) OBVIOUS
  <2>3. t2[r] = [t[r] EXCEPT !.members = m] BY <2>2 DEF LeftOf
  <2> HIDE DEF gone
  <2>4. /\ m \in [P!Eids -> Nat]
        /\ \A e \in P!Eids : e \notin gone(r) => m[e] = t[r].members[e]
        /\ \A e \in P!Eids : t[r].members[e] <= 1 => m[e] <= 1
    BY <2>1, <2>2 DEF P!Left
  <2>5. t2[r] \in RunRow /\ t2[r].members = m BY <2>1, <2>3, <2>4 DEF RunRow
  <2> QED BY <2>1, <2>4, <2>5
<1>4. DOMAIN t2 = Stay /\ Stay \subseteq DOMAIN t BY DEF LeftOf
<1>5. ASSUME NEW e \in P!Eids
      PROVE  of2[e] < n /\ (of2[e] \in DOMAIN t2 => t2[of2[e]].members[e] > 0)
  <2>1. CASE e \in Who BY <1>1, <1>2, <1>4, <2>1 DEF RunsOk
  <2>2. CASE e \notin Who
    <3>1. of2[e] = of[e] /\ of[e] < n /\ (of[e] \in DOMAIN t => t[of[e]].members[e] > 0)
      BY <1>2, <2>2 DEF RunsOk
    <3>2. e \notin gone(of[e]) BY <2>2 DEF Gone
    <3> HIDE DEF gone
    <3>3. CASE of[e] \in Stay BY <1>3, <3>2, <3>3, <1>4, <3>1
    <3>4. CASE of[e] \notin Stay BY <1>4, <3>1, <3>4
    <3> QED BY <3>3, <3>4
  <2> QED BY <2>1, <2>2
<1>6. ASSUME ~j, NEW r \in DOMAIN t2, NEW e \in P!Eids PROVE t2[r].members[e] <= 1
  BY <1>4, <1>6, <1>3 DEF RunsOk
<1> QED BY <1>1, <1>2, <1>3, <1>4, <1>5, <1>6 DEF RunsOk

LEMMA RunsRejoined ==
    ASSUME NEW t, NEW of, NEW n, NEW j \in BOOLEAN, RunsOk(t, of, n, j), NEW e \in P!Eids, NEW r \in DOMAIN t
    PROVE  RunsOk([t EXCEPT ![r].members = [x \in P!Eids |-> IF x = e /\ @[x] = 0 THEN 1 ELSE @[x]]],
                  [of EXCEPT ![e] = r], n, j)
<1> DEFINE t2 == [t EXCEPT ![r].members = [x \in P!Eids |-> IF x = e /\ @[x] = 0 THEN 1 ELSE @[x]]]
           of2 == [of EXCEPT ![e] = r]
<1>1. n \in Nat \ {0} /\ of \in [P!Eids -> Nat] BY DEF RunsOk
<1>2. t[r] \in RunRow /\ t[r].members \in [P!Eids -> Nat] /\ r \in 1..n - 1
  BY DEF RunsOk, RunRow
<1>3. PICK m : m = [x \in P!Eids |-> IF x = e /\ t[r].members[x] = 0 THEN 1 ELSE t[r].members[x]]
  OBVIOUS
<1>4. m \in [P!Eids -> Nat] /\ m[e] > 0 /\ (\A x \in P!Eids : x # e => m[x] = t[r].members[x])
      /\ (t[r].members[e] <= 1 => m[e] <= 1)
  BY <1>2, <1>3
<1>5. DOMAIN t2 = DOMAIN t /\ t2[r] = [t[r] EXCEPT !.members = m] /\ \A q \in DOMAIN t : q # r => t2[q] = t[q]
  BY <1>3
<1>6. t2[r] \in RunRow /\ t2[r].members = m BY <1>2, <1>4, <1>5 DEF RunRow
<1>7. of2 \in [P!Eids -> Nat] /\ of2[e] = r /\ r < n /\ \A x \in P!Eids : x # e => of2[x] = of[x]
  BY <1>1, <1>2
<1> HIDE DEF t2, of2
<1>8. \A q \in DOMAIN t2 : q \in 1..n - 1 /\ t2[q] \in RunRow
  BY <1>2, <1>5, <1>6 DEF RunsOk
<1>9. ASSUME NEW x \in P!Eids
      PROVE  of2[x] < n /\ (of2[x] \in DOMAIN t2 => t2[of2[x]].members[x] > 0)
  <2>1. CASE x = e BY <1>4, <1>5, <1>6, <1>7, <2>1
  <2>2. CASE x # e
    <3>1. of2[x] = of[x] /\ of[x] < n /\ (of[x] \in DOMAIN t => t[of[x]].members[x] > 0)
      BY <1>7, <2>2 DEF RunsOk
    <3> QED BY <1>4, <1>5, <1>6, <2>2, <3>1
  <2> QED BY <2>1, <2>2
<1>10. ASSUME ~j, NEW q \in DOMAIN t2, NEW x \in P!Eids PROVE t2[q].members[x] <= 1
  BY <1>5, <1>10, <1>4, <1>6 DEF RunsOk
<1> QED BY <1>1, <1>7, <1>8, <1>9, <1>10 DEF RunsOk, t2, of2

LEMMA RunsCleared ==
    ASSUME NEW t, NEW of, NEW n, NEW j \in BOOLEAN, RunsOk(t, of, n, j), NEW r \in DOMAIN t
    PROVE  RunsOk([t EXCEPT ![r].boss = FALSE], of, n, j)
<1> DEFINE t2 == [t EXCEPT ![r].boss = FALSE]
<1>1. DOMAIN t2 = DOMAIN t /\ \A q \in DOMAIN t : t2[q] \in RunRow /\ t2[q].members = t[q].members
  BY DEF RunsOk, RunRow
<1> HIDE DEF t2
<1>2. RunsOk(t2, of, n, j) BY <1>1 DEF RunsOk
<1> QED BY <1>2 DEF t2

\* What holds of tables holds of them when somebody joins a second group later.
LEMMA GroupsLater ==
    ASSUME NEW t, NEW of, NEW n, NEW i \in BOOLEAN, NEW j \in BOOLEAN, i => j, GroupsOk(t, of, n, i)
    PROVE  GroupsOk(t, of, n, j)
BY DEF GroupsOk

LEMMA RunsLater ==
    ASSUME NEW t, NEW of, NEW n, NEW i \in BOOLEAN, NEW j \in BOOLEAN, i => j, RunsOk(t, of, n, i)
    PROVE  RunsOk(t, of, n, j)
BY DEF RunsOk

LEMMA CreateLater ==
    ASSUME NEW c, NEW i \in BOOLEAN, NEW j \in BOOLEAN, i => j, CreateOk(c, i)
    PROVE  CreateOk(c, j)
BY DEF CreateOk

\* A step on the tables of one VM.
LEMMA GroupsStep ==
    ASSUME PartyInv, joinedTwice' \in BOOLEAN, joinedTwice => joinedTwice', NEW v \in PartyVms,
           \A u \in PartyVms \ {v} : groups'[u] = groups[u] /\ memberGroup'[u] = memberGroup[u]
                                     /\ nextGroup'[u] = nextGroup[u],
           GroupsOk(groups'[v], memberGroup'[v], nextGroup'[v], joinedTwice')
    PROVE  \A u \in PartyVms : GroupsAt(u)'
<1> SUFFICES ASSUME NEW u \in PartyVms
             PROVE  GroupsOk(groups'[u], memberGroup'[u], nextGroup'[u], joinedTwice')
  BY DEF GroupsAt
<1>1. CASE u = v BY <1>1
<1>2. CASE u # v BY GroupsLater, <1>2 DEF PartyInv, PartyTyped, VmOk, GroupsAt
<1> QED BY <1>1, <1>2

LEMMA GroupsKept ==
    ASSUME PartyInv, joinedTwice' \in BOOLEAN, joinedTwice => joinedTwice',
           UNCHANGED <<groups, memberGroup, nextGroup>>
    PROVE  \A u \in PartyVms : GroupsAt(u)'
<1> SUFFICES ASSUME NEW u \in PartyVms
             PROVE  GroupsOk(groups[u], memberGroup[u], nextGroup[u], joinedTwice')
  BY DEF GroupsAt
<1>1. GroupsOk(groups[u], memberGroup[u], nextGroup[u], joinedTwice) /\ joinedTwice \in BOOLEAN
  BY DEF PartyInv, PartyTyped, VmOk, GroupsAt
<1> QED BY <1>1, GroupsLater

LEMMA RunsStep ==
    ASSUME PartyInv, joinedTwice' = joinedTwice, NEW v \in PartyVms,
           \A u \in PartyVms \ {v} : instances'[u] = instances[u] /\ memberInstance'[u] = memberInstance[u]
                                     /\ nextInstance'[u] = nextInstance[u],
           RunsOk(instances'[v], memberInstance'[v], nextInstance'[v], joinedTwice)
    PROVE  \A u \in PartyVms : RunsAt(u)'
<1> SUFFICES ASSUME NEW u \in PartyVms
             PROVE  RunsOk(instances'[u], memberInstance'[u], nextInstance'[u], joinedTwice)
  BY DEF RunsAt
<1>1. CASE u = v BY <1>1
<1>2. CASE u # v BY <1>2 DEF PartyInv, VmOk, RunsAt
<1> QED BY <1>1, <1>2

LEMMA RunsKept ==
    ASSUME PartyInv, joinedTwice' \in BOOLEAN, joinedTwice => joinedTwice',
           UNCHANGED <<instances, memberInstance, nextInstance>>
    PROVE  \A u \in PartyVms : RunsAt(u)'
<1> SUFFICES ASSUME NEW u \in PartyVms
             PROVE  RunsOk(instances[u], memberInstance[u], nextInstance[u], joinedTwice')
  BY DEF RunsAt
<1>1. RunsOk(instances[u], memberInstance[u], nextInstance[u], joinedTwice) /\ joinedTwice \in BOOLEAN
  BY DEF PartyInv, PartyTyped, VmOk, RunsAt
<1> QED BY <1>1, RunsLater

LEMMA CreateStep ==
    ASSUME PartyInv, joinedTwice' = joinedTwice, NEW v \in PartyVms,
           \A u \in PartyVms \ {v} : creating'[u] = creating[u],
           CreateOk(creating'[v], joinedTwice)
    PROVE  \A u \in PartyVms : CreateAt(u)'
<1> SUFFICES ASSUME NEW u \in PartyVms
             PROVE  CreateOk(creating'[u], joinedTwice)
  BY DEF CreateAt
<1>1. CASE u = v BY <1>1
<1>2. CASE u # v BY <1>2 DEF PartyInv, VmOk, CreateAt
<1> QED BY <1>1, <1>2

LEMMA CreateKept ==
    ASSUME PartyInv, joinedTwice' \in BOOLEAN, joinedTwice => joinedTwice', UNCHANGED creating
    PROVE  \A u \in PartyVms : CreateAt(u)'
<1> SUFFICES ASSUME NEW u \in PartyVms
             PROVE  CreateOk(creating[u], joinedTwice')
  BY DEF CreateAt
<1>1. CreateOk(creating[u], joinedTwice) /\ joinedTwice \in BOOLEAN
  BY DEF PartyInv, PartyTyped, VmOk, CreateAt
<1> QED BY <1>1, CreateLater

\* Time passes, and nobody's cooldown begins.
LEMMA ChargeKept ==
    ASSUME PartyInv, hour' \in Nat, hour' >= hour, UNCHANGED <<reentry, entered, uncleared>>
    PROVE  ChargeOk'
<1> SUFFICES ASSUME ~uncleared, NEW p \in Players, NEW t \in Templates, reentry[p][t] > hour'
             PROVE  <<p, t>> \in entered
  BY DEF ChargeOk
<1>1. reentry[p][t] \in Nat /\ hour \in Nat BY DEF PartyInv, PartyTyped
<1>2. reentry[p][t] > hour BY <1>1
<1> QED BY <1>2 DEF PartyInv, ChargeOk

LEMMA LiveIs ==
    ASSUME PartyInv, NEW p \in Players
    PROVE  P!Live(p) \in P!Eids /\ P!Of(P!Live(p)) = p
BY DEF PartyInv, PartyTyped, P!Live, P!Eids, P!Of

-----------------------------------------------------------------------------

LEMMA PartyStutters ==
    ASSUME PartyInv, UNCHANGED party
    PROVE  PartyInv'
BY GroupsKept, RunsKept, CreateKept, ChargeKept DEF PartyInv, PartyTyped, party, VmOk

\* The World's steps leave the tables alone.
LEMMA PartyTime ==
    ASSUME PartyInv, (\E p \in Players : P!Logout(p) \/ P!Login(p)) \/ P!Tick
    PROVE  PartyInv'
<1>1. /\ UNCHANGED <<groups, memberGroup, nextGroup, instances, memberInstance, nextInstance, creating,
                     reentry, entered, uncleared, joinedTwice, scale>>
      /\ hour' \in Nat /\ hour' >= hour
  BY DEF PartyInv, PartyTyped, P!Logout, P!Login, P!Tick, P!tables, P!ghosts
<1>2. logins' \in [Players -> 1..MaxLogins]
  <2>1. logins \in [Players -> 1..MaxLogins] BY DEF PartyInv, PartyTyped
  <2>2. ASSUME NEW p \in Players, P!Login(p) PROVE logins' \in [Players -> 1..MaxLogins]
    BY <2>1, <2>2, PartyAssumption DEF P!Login
  <2> QED BY <2>1, <2>2 DEF P!Logout, P!Tick
<1>3. PartyTyped' /\ joinedTwice' \in BOOLEAN /\ (joinedTwice => joinedTwice')
  BY <1>1, <1>2 DEF PartyInv, PartyTyped
<1>4. \A u \in PartyVms : GroupsAt(u)' BY <1>1, <1>3, GroupsKept
<1>5. \A u \in PartyVms : RunsAt(u)' BY <1>1, <1>3, RunsKept
<1>6. \A u \in PartyVms : CreateAt(u)' BY <1>1, <1>3, CreateKept
<1>7. ChargeOk' BY <1>1, ChargeKept
<1> QED BY <1>3, <1>4, <1>5, <1>6, <1>7 DEF PartyInv, VmOk

LEMMA PartyReload ==
    ASSUME PartyInv, NEW v \in PartyVms, P!Reload(v)
    PROVE  PartyInv'
<1>1. /\ UNCHANGED <<scale, logins, hour, reentry, entered, uncleared, joinedTwice, creating>>
      /\ hour' \in Nat /\ hour' >= hour /\ joinedTwice' \in BOOLEAN
  BY DEF P!Reload, PartyInv, PartyTyped
<1>2. PartyTyped' BY <1>1 DEF P!Reload, PartyInv, PartyTyped
<1>3. /\ groups'[v] = P!Nothing /\ memberGroup'[v] = [e \in P!Eids |-> 0] /\ nextGroup'[v] = 1
      /\ instances'[v] = P!Nothing /\ memberInstance'[v] = [e \in P!Eids |-> 0] /\ nextInstance'[v] = 1
      /\ \A u \in PartyVms \ {v} : groups'[u] = groups[u] /\ memberGroup'[u] = memberGroup[u]
                                   /\ nextGroup'[u] = nextGroup[u]
      /\ \A u \in PartyVms \ {v} : instances'[u] = instances[u] /\ memberInstance'[u] = memberInstance[u]
                                   /\ nextInstance'[u] = nextInstance[u]
  BY DEF P!Reload, PartyInv, PartyTyped
<1>4. /\ GroupsOk(P!Nothing, [e \in P!Eids |-> 0], 1, joinedTwice)
      /\ RunsOk(P!Nothing, [e \in P!Eids |-> 0], 1, joinedTwice)
  BY DEF GroupsOk, RunsOk, P!Nothing
<1>5. \A u \in PartyVms : GroupsAt(u)' BY <1>1, <1>3, <1>4, GroupsStep
<1>6. \A u \in PartyVms : RunsAt(u)' BY <1>1, <1>3, <1>4, RunsStep
<1>7. \A u \in PartyVms : CreateAt(u)' BY <1>1, CreateKept
<1>8. ChargeOk' BY <1>1, ChargeKept
<1> QED BY <1>2, <1>5, <1>6, <1>7, <1>8 DEF PartyInv, VmOk

\* Those in Who leave the runs of v; the runs Stay stay.
LEMMA LeaveRunsKeeps ==
    ASSUME PartyInv, NEW v \in PartyVms, NEW Who, NEW Stay \in SUBSET DOMAIN instances[v],
           P!LeaveRuns(v, Who, Stay), UNCHANGED <<nextInstance, joinedTwice>>
    PROVE  /\ \A u \in PartyVms : RunsAt(u)'
           /\ DOMAIN instances' = PartyVms /\ DOMAIN memberInstance' = PartyVms
<1>1. /\ instances'[v] = [r \in Stay |-> [instances[v][r] EXCEPT !.members =
                                 P!Left(@, Gone(Who, memberInstance[v], r))]]
      /\ memberInstance'[v] = [e \in P!Eids |-> IF e \in Who THEN 0 ELSE memberInstance[v][e]]
      /\ DOMAIN instances' = PartyVms /\ DOMAIN memberInstance' = PartyVms
      /\ \A u \in PartyVms \ {v} : instances'[u] = instances[u] /\ memberInstance'[u] = memberInstance[u]
  BY DEF P!LeaveRuns, Gone, PartyInv, PartyTyped
<1>2. PICK t, of, n, j : t = instances[v] /\ of = memberInstance[v] /\ n = nextInstance[v] /\ j = joinedTwice
  OBVIOUS
<1>3. RunsOk(t, of, n, j) /\ j \in BOOLEAN /\ Stay \subseteq DOMAIN t
  BY <1>2 DEF PartyInv, PartyTyped, VmOk, RunsAt
<1>4. PICK t2, of2 : t2 = instances'[v] /\ of2 = memberInstance'[v] OBVIOUS
<1>5. /\ t2 = [r \in Stay |-> [t[r] EXCEPT !.members = P!Left(@, Gone(Who, of, r))]]
      /\ of2 = [e \in P!Eids |-> IF e \in Who THEN 0 ELSE of[e]]
  BY <1>1, <1>2, <1>4
<1>6. of2 \in [P!Eids -> Nat] /\ \A e \in P!Eids : of2[e] = IF e \in Who THEN 0 ELSE of[e]
  BY <1>3, <1>5 DEF RunsOk
<1>7. LeftOf(t, of, t2, of2, Who, Stay) BY <1>3, <1>5, <1>6 DEF LeftOf
<1>8. nextInstance'[v] = n /\ joinedTwice' = j BY <1>2
<1>9. RunsOk(t2, of2, n, j) BY <1>3, <1>7, RunsLeft
<1>10. RunsOk(instances'[v], memberInstance'[v], nextInstance'[v], joinedTwice')
  BY <1>4, <1>8, <1>9
<1> QED BY <1>1, <1>10, RunsStep

LEMMA PartyInstanceLeave ==
    ASSUME PartyInv, NEW v \in PartyVms, NEW e, P!InstanceLeave(v, e)
    PROVE  PartyInv'
BY LeaveRunsKeeps, GroupsKept, CreateKept, ChargeKept DEF P!InstanceLeave, P!ghosts, PartyInv,
   PartyTyped, VmOk

\* The first invite of a leader founds the group.
LEMMA PartyInvite ==
    ASSUME PartyInv, NEW v \in PartyVms, NEW e \in P!Eids, NEW target, P!Invite(v, e, target)
    PROVE  PartyInv'
<1>1. /\ UNCHANGED <<scale, logins, hour, reentry, entered, uncleared, joinedTwice, creating,
                     instances, memberInstance, nextInstance>>
      /\ hour' \in Nat /\ hour' >= hour /\ joinedTwice' \in BOOLEAN
  BY DEF P!Invite, P!ghosts, PartyInv, PartyTyped
<1>2. \A u \in PartyVms : RunsAt(u)' BY <1>1, RunsKept
<1>3. \A u \in PartyVms : CreateAt(u)' BY <1>1, CreateKept
<1>4. ChargeOk' BY <1>1, ChargeKept
<1>5. CASE memberGroup[v][e] # 0
  BY <1>5, <1>1, GroupsKept, <1>2, <1>3, <1>4 DEF P!Invite, PartyInv, PartyTyped, VmOk
<1>6. CASE memberGroup[v][e] = 0
  <2> DEFINE n == nextGroup[v]
  <2>1. /\ groups' = [groups EXCEPT ![v] = P!With(@, n, [leader |-> e, members |-> <<e>>])]
        /\ memberGroup' = [memberGroup EXCEPT ![v][e] = n]
        /\ nextGroup' = [nextGroup EXCEPT ![v] = @ + 1]
    BY <1>6 DEF P!Invite
  <2>2. /\ groups'[v] = P!With(groups[v], n, [leader |-> e, members |-> <<e>>])
        /\ memberGroup'[v] = [memberGroup[v] EXCEPT ![e] = n] /\ nextGroup'[v] = n + 1
        /\ \A u \in PartyVms \ {v} : groups'[u] = groups[u] /\ memberGroup'[u] = memberGroup[u]
                                     /\ nextGroup'[u] = nextGroup[u]
        /\ DOMAIN groups' = PartyVms /\ DOMAIN memberGroup' = PartyVms /\ DOMAIN nextGroup' = PartyVms
    BY <2>1 DEF PartyInv, PartyTyped
  <2>3. GroupsOk(groups[v], memberGroup[v], n, joinedTwice) /\ joinedTwice \in BOOLEAN
    BY DEF PartyInv, PartyTyped, VmOk, GroupsAt
  <2>4. GroupsOk(groups'[v], memberGroup'[v], nextGroup'[v], joinedTwice')
    BY <1>1, <1>6, <2>2, <2>3, GroupsFounded
  <2>5. \A u \in PartyVms : GroupsAt(u)' BY <1>1, <2>2, <2>4, GroupsStep
  <2>6. PartyTyped' BY <1>1, <2>2 DEF PartyInv, PartyTyped
  <2> QED BY <1>2, <1>3, <1>4, <2>5, <2>6 DEF PartyInv, VmOk
<1> QED BY <1>5, <1>6

LEMMA PartyAccept ==
    ASSUME PartyInv, NEW v \in PartyVms, NEW e \in P!Eids, P!Accept(v, e)
    PROVE  PartyInv'
<1> DEFINE g == invites[v][e]
<1>1. /\ UNCHANGED <<scale, logins, hour, reentry, entered, uncleared, creating,
                     instances, memberInstance, nextInstance, nextGroup>>
      /\ hour' \in Nat /\ hour' >= hour
  BY DEF P!Accept, PartyInv, PartyTyped
<1>2. joinedTwice \in BOOLEAN BY DEF PartyInv, PartyTyped
<1>3. CASE g \in DOMAIN groups[v] /\ Len(groups[v][g].members) < MaxMembers
  <2>1. /\ groups' = [groups EXCEPT ![v][g].members = Append(@, e)]
        /\ memberGroup' = [memberGroup EXCEPT ![v][e] = g]
        /\ joinedTwice' = (joinedTwice \/ memberGroup[v][e] # 0)
    BY <1>3 DEF P!Accept, P!Joins
  <2>2. joinedTwice' \in BOOLEAN /\ (joinedTwice => joinedTwice') BY <1>2, <2>1
  <2>3. /\ groups'[v] = [groups[v] EXCEPT ![g].members = Append(@, e)]
        /\ memberGroup'[v] = [memberGroup[v] EXCEPT ![e] = g]
        /\ \A u \in PartyVms \ {v} : groups'[u] = groups[u] /\ memberGroup'[u] = memberGroup[u]
                                     /\ nextGroup'[u] = nextGroup[u]
        /\ DOMAIN groups' = PartyVms /\ DOMAIN memberGroup' = PartyVms /\ nextGroup'[v] = nextGroup[v]
    BY <1>1, <2>1 DEF PartyInv, PartyTyped
  <2>4. GroupsOk(groups[v], memberGroup[v], nextGroup[v], joinedTwice)
    BY DEF PartyInv, VmOk, GroupsAt
  <2>5. GroupsOk([groups[v] EXCEPT ![g].members = Append(@, e)], [memberGroup[v] EXCEPT ![e] = g],
                 nextGroup[v], joinedTwice \/ memberGroup[v][e] # 0)
    BY <1>2, <1>3, <2>4, GroupsJoined
  <2>6. GroupsOk(groups'[v], memberGroup'[v], nextGroup'[v], joinedTwice')
    BY <2>1, <2>3, <2>5
  <2>7. \A u \in PartyVms : GroupsAt(u)' BY <2>2, <2>3, <2>6, GroupsStep
  <2>8. PartyTyped' BY <1>1, <2>2, <2>3 DEF PartyInv, PartyTyped
  <2>9. \A u \in PartyVms : RunsAt(u)' BY <1>1, <2>2, RunsKept
  <2>10. \A u \in PartyVms : CreateAt(u)' BY <1>1, <2>2, CreateKept
  <2>11. ChargeOk' BY <1>1, ChargeKept
  <2> QED BY <2>7, <2>8, <2>9, <2>10, <2>11 DEF PartyInv, VmOk
<1>4. CASE ~(g \in DOMAIN groups[v] /\ Len(groups[v][g].members) < MaxMembers)
  BY <1>4, <1>1, GroupsKept, RunsKept, CreateKept, ChargeKept DEF P!Accept, PartyInv, PartyTyped,
     VmOk
<1> QED BY <1>3, <1>4

LEMMA PartyGroupLeave ==
    ASSUME PartyInv, NEW v \in PartyVms, NEW e \in P!Eids, P!GroupLeave(v, e)
    PROVE  PartyInv'
<1>1. /\ UNCHANGED <<scale, logins, hour, reentry, entered, uncleared, joinedTwice, creating,
                     nextGroup, nextInstance>>
      /\ hour' \in Nat /\ hour' >= hour /\ joinedTwice' \in BOOLEAN
  BY DEF P!GroupLeave, P!ghosts, PartyInv, PartyTyped
<1>2. PICK g, rest, out : /\ g = memberGroup[v][e] /\ rest = P!RemoveFirst(groups[v][g].members, e)
                          /\ out = P!Remaining(rest, e)
  OBVIOUS
<1>3. /\ g # 0
      /\ groups' = [groups EXCEPT ![v] =
            IF Len(rest) < 2 THEN P!Without(@, g)
            ELSE P!With(@, g, [leader |-> IF @[g].leader = e THEN rest[1] ELSE @[g].leader,
                             members |-> rest])]
      /\ memberGroup' = [memberGroup EXCEPT ![v] = [x \in P!Eids |-> IF x \in out THEN 0 ELSE @[x]]]
      /\ P!LeaveRuns(v, out, DOMAIN instances[v])
  BY <1>2 DEF P!GroupLeave
<1>4. /\ groups'[v] = IF Len(rest) < 2 THEN P!Without(groups[v], g)
                      ELSE P!With(groups[v], g, [leader |-> IF groups[v][g].leader = e THEN rest[1]
                                                            ELSE groups[v][g].leader,
                                                 members |-> rest])
      /\ memberGroup'[v] = [x \in P!Eids |-> IF x \in out THEN 0 ELSE memberGroup[v][x]]
      /\ \A u \in PartyVms \ {v} : groups'[u] = groups[u] /\ memberGroup'[u] = memberGroup[u]
                                   /\ nextGroup'[u] = nextGroup[u]
      /\ DOMAIN groups' = PartyVms /\ DOMAIN memberGroup' = PartyVms /\ nextGroup'[v] = nextGroup[v]
  BY <1>1, <1>3 DEF PartyInv, PartyTyped
<1>5. GroupsOk(groups[v], memberGroup[v], nextGroup[v], joinedTwice)
  BY DEF PartyInv, VmOk, GroupsAt
<1>6. GroupsOk(groups'[v], memberGroup'[v], nextGroup'[v], joinedTwice')
  BY <1>1, <1>2, <1>3, <1>4, <1>5, GroupsLeft
<1>7. \A u \in PartyVms : GroupsAt(u)' BY <1>1, <1>4, <1>6, GroupsStep
<1>8. /\ \A u \in PartyVms : RunsAt(u)'
      /\ DOMAIN instances' = PartyVms /\ DOMAIN memberInstance' = PartyVms
  BY <1>1, <1>3, LeaveRunsKeeps
<1>9. PartyTyped' BY <1>1, <1>4, <1>8 DEF PartyInv, PartyTyped
<1>10. \A u \in PartyVms : CreateAt(u)' BY <1>1, CreateKept
<1>11. ChargeOk' BY <1>1, ChargeKept
<1> QED BY <1>7, <1>8, <1>9, <1>10, <1>11 DEF PartyInv, VmOk

LEMMA PartyRejoin ==
    ASSUME PartyInv, NEW v \in PartyVms, NEW e \in P!Eids, NEW t, P!Rejoin(v, e, t)
    PROVE  PartyInv'
<1> DEFINE r == charRun[v][P!Of(e)]
<1>1. /\ UNCHANGED <<scale, logins, hour, reentry, entered, uncleared, joinedTwice, creating,
                     groups, memberGroup, nextGroup, nextInstance>>
      /\ hour' \in Nat /\ hour' >= hour /\ joinedTwice' \in BOOLEAN
  BY DEF P!Rejoin, P!ghosts, PartyInv, PartyTyped
<1>2. /\ r \in DOMAIN instances[v]
      /\ instances' = [instances EXCEPT ![v][r].members =
                          [x \in P!Eids |-> IF x = e /\ @[x] = 0 THEN 1 ELSE @[x]]]
      /\ memberInstance' = [memberInstance EXCEPT ![v][e] = r]
  BY DEF P!Rejoin, P!InRun
<1> HIDE DEF r
<1>3. /\ instances'[v] = [instances[v] EXCEPT ![r].members =
                             [x \in P!Eids |-> IF x = e /\ @[x] = 0 THEN 1 ELSE @[x]]]
      /\ memberInstance'[v] = [memberInstance[v] EXCEPT ![e] = r]
      /\ DOMAIN instances' = PartyVms /\ DOMAIN memberInstance' = PartyVms
      /\ \A u \in PartyVms \ {v} : instances'[u] = instances[u] /\ memberInstance'[u] = memberInstance[u]
  BY <1>2 DEF PartyInv, PartyTyped
<1>4. RunsOk(instances[v], memberInstance[v], nextInstance[v], joinedTwice) /\ joinedTwice \in BOOLEAN
  BY DEF PartyInv, PartyTyped, VmOk, RunsAt
<1>5. RunsOk([instances[v] EXCEPT ![r].members = [x \in P!Eids |-> IF x = e /\ @[x] = 0 THEN 1 ELSE @[x]]],
             [memberInstance[v] EXCEPT ![e] = r], nextInstance[v], joinedTwice)
  BY <1>2, <1>4, RunsRejoined
<1>6. RunsOk(instances'[v], memberInstance'[v], nextInstance'[v], joinedTwice)
  BY <1>1, <1>3, <1>5
<1>7. \A u \in PartyVms : RunsAt(u)' BY <1>1, <1>3, <1>6, RunsStep
<1>8. PartyTyped' BY <1>1, <1>3 DEF PartyInv, PartyTyped
<1>9. \A u \in PartyVms : GroupsAt(u)' BY <1>1, GroupsKept
<1>10. \A u \in PartyVms : CreateAt(u)' BY <1>1, CreateKept
<1>11. ChargeOk' BY <1>1, ChargeKept
<1> QED BY <1>7, <1>8, <1>9, <1>10, <1>11 DEF PartyInv, VmOk

\* The party a create starts with is a group's or the one who asked.
LEMMA PartyCreateCheck ==
    ASSUME PartyInv, NEW v \in PartyVms, NEW e \in P!Eids, NEW t \in Templates, P!CreateCheck(v, e, t)
    PROVE  PartyInv'
<1>1. /\ UNCHANGED <<scale, logins, hour, reentry, entered, uncleared, joinedTwice,
                     groups, memberGroup, nextGroup, instances, memberInstance, nextInstance>>
      /\ hour' \in Nat /\ hour' >= hour /\ joinedTwice' \in BOOLEAN
  BY DEF P!CreateCheck, P!tables, P!ghosts, PartyInv, PartyTyped
<1>2. PICK s, Who : s = P!PartyOf(v, e) /\ creating' = [creating EXCEPT ![v] =
                                [by |-> e, template |-> t, party |-> s, skip |-> Who]]
  BY DEF P!CreateCheck
<1>3. /\ creating'[v].party = s /\ creating'[v].template = t
      /\ DOMAIN creating' = PartyVms /\ \A u \in PartyVms \ {v} : creating'[u] = creating[u]
  BY <1>2 DEF PartyInv, PartyTyped
<1>4. s \in Seq(P!Eids) /\ (~joinedTwice => Distinct(s))
  BY <1>2 DEF P!PartyOf, Distinct, PartyInv, VmOk, GroupsAt, GroupsOk, Roster
<1>5. CreateOk(creating'[v], joinedTwice) BY <1>3, <1>4 DEF CreateOk
<1>6. \A u \in PartyVms : CreateAt(u)' BY <1>1, <1>3, <1>5, CreateStep
<1>7. PartyTyped' BY <1>1, <1>3 DEF PartyInv, PartyTyped
<1>8. \A u \in PartyVms : GroupsAt(u)' BY <1>1, GroupsKept
<1>9. \A u \in PartyVms : RunsAt(u)' BY <1>1, RunsKept
<1>10. ChargeOk' BY <1>1, ChargeKept
<1> QED BY <1>6, <1>7, <1>8, <1>9, <1>10 DEF PartyInv, VmOk

\* No create is under way in v any more.
LEMMA CreateEnds ==
    ASSUME PartyInv, joinedTwice' = joinedTwice, NEW v \in PartyVms,
           creating' = [creating EXCEPT ![v] = P!NotCreating]
    PROVE  DOMAIN creating' = PartyVms /\ \A u \in PartyVms : CreateAt(u)'
BY CreateStep DEF PartyInv, PartyTyped, CreateOk

LEMMA PartyCreateCommit ==
    ASSUME PartyInv, NEW v \in PartyVms, P!CreateCommit(v)
    PROVE  PartyInv'
<1>1. /\ UNCHANGED <<scale, logins, hour, uncleared, joinedTwice, groups, memberGroup, nextGroup>>
      /\ hour' \in Nat /\ hour' >= hour /\ joinedTwice' \in BOOLEAN /\ hour \in Nat
  BY DEF P!CreateCommit, PartyInv, PartyTyped
<1>2. PICK c, s, t, row, n : /\ c = creating[v] /\ s = c.party /\ t = c.template /\ n = nextInstance[v]
           /\ row = [template |-> t, members |-> P!HowOften(s), boss |-> TRUE, made |-> hour]
  OBVIOUS
<1>3. /\ P!Registered(v, c, Len(s))
      /\ reentry' = P!SetRows(P!Charged(c, Len(s)), t, hour + Reentrance)
      /\ instances' = [instances EXCEPT ![v] = P!With(@, n, row)]
      /\ entered' = entered \cup {<<P!Of(m), t>> : m \in P!Range(s)}
      /\ nextInstance' = [nextInstance EXCEPT ![v] = @ + 1]
      /\ creating' = [creating EXCEPT ![v] = P!NotCreating] /\ c # P!NotCreating
  BY <1>2 DEF P!CreateCommit
<1>4. s \in Seq(P!Eids) /\ t \in Templates /\ (~joinedTwice => Distinct(s))
  BY <1>2, <1>3 DEF PartyInv, VmOk, CreateAt, CreateOk
<1>5. P!First(c, Len(s)) = P!Range(s) /\ P!Range(s) \subseteq P!Eids /\ \A e \in P!Range(s) : Among(e, s)
  BY <1>2, <1>4 DEF P!First, P!Range, Among
<1>6. /\ instances'[v] = P!With(instances[v], n, row) /\ nextInstance'[v] = n + 1
      /\ DOMAIN instances' = PartyVms /\ DOMAIN nextInstance' = PartyVms
      /\ \A u \in PartyVms \ {v} : instances'[u] = instances[u] /\ nextInstance'[u] = nextInstance[u]
  BY <1>2, <1>3 DEF PartyInv, PartyTyped
<1>7. /\ memberInstance'[v] = [e \in P!Eids |-> IF e \in P!Range(s) THEN n ELSE memberInstance[v][e]]
      /\ DOMAIN memberInstance' = PartyVms
      /\ \A u \in PartyVms \ {v} : memberInstance'[u] = memberInstance[u]
  BY <1>2, <1>3, <1>5 DEF P!Registered, PartyInv, PartyTyped
<1>8. RunsOk(instances[v], memberInstance[v], n, joinedTwice) /\ joinedTwice \in BOOLEAN
  BY <1>2 DEF PartyInv, PartyTyped, VmOk, RunsAt
<1>9. RunsOk(P!With(instances[v], n, [template |-> t, members |-> P!HowOften(s), boss |-> TRUE, made |-> hour]),
             [e \in P!Eids |-> IF e \in P!Range(s) THEN n ELSE memberInstance[v][e]], n + 1, joinedTwice)
  BY <1>1, <1>4, <1>5, <1>8, RunsMade
<1>10. RunsOk(instances'[v], memberInstance'[v], nextInstance'[v], joinedTwice)
  BY <1>2, <1>6, <1>7, <1>9
<1>11. \A u \in PartyVms : RunsAt(u)' BY <1>1, <1>6, <1>7, <1>10, RunsStep
<1>12. DOMAIN creating' = PartyVms /\ \A u \in PartyVms : CreateAt(u)'
  BY <1>1, <1>3, CreateEnds
<1>13. reentry \in [Players -> [Templates -> Nat]] /\ hour + Reentrance \in Nat
  BY PartyAssumption DEF PartyInv, PartyTyped
<1>14. /\ reentry' \in [Players -> [Templates -> Nat]]
       /\ \A p \in Players, u \in Templates : reentry'[p][u] # reentry[p][u] => p \in P!Charged(c, Len(s)) /\ u = t
  BY <1>3, <1>4, <1>13 DEF P!SetRows
<1>15. PartyTyped' BY <1>1, <1>6, <1>7, <1>12, <1>14 DEF PartyInv, PartyTyped
<1>16. \A u \in PartyVms : GroupsAt(u)' BY <1>1, GroupsKept
<1>17. ChargeOk'
  <2> SUFFICES ASSUME ~uncleared, NEW p \in Players, NEW u \in Templates, reentry'[p][u] > hour
               PROVE  <<p, u>> \in entered'
    BY <1>1 DEF ChargeOk
  <2>1. CASE reentry'[p][u] = reentry[p][u] BY <1>3, <2>1 DEF PartyInv, ChargeOk
  <2>2. CASE reentry'[p][u] # reentry[p][u]
    <3>1. PICK m \in P!First(c, Len(s)) : p = P!Of(m) BY <1>14, <2>2 DEF P!Charged
    <3> QED BY <1>3, <1>5, <1>14, <2>2, <3>1
  <2> QED BY <2>1, <2>2
<1> QED BY <1>11, <1>12, <1>15, <1>16, <1>17 DEF PartyInv, VmOk

\* Without a lost answer, a create that fails leaves rows of 0 or as they were.
LEMMA PartyCreateFails ==
    ASSUME PartyInv, NEW v \in PartyVms, NEW k, P!CreateFails(v, k)
    PROVE  PartyInv'
<1>1. /\ UNCHANGED <<scale, logins, hour, joinedTwice, groups, memberGroup, nextGroup, instances, entered>>
      /\ hour' \in Nat /\ hour' >= hour /\ joinedTwice' \in BOOLEAN /\ hour \in Nat
  BY DEF P!CreateFails, PartyInv, PartyTyped
<1>2. PICK c, t, n : c = creating[v] /\ t = c.template /\ n = nextInstance[v]
  OBVIOUS
<1>3. /\ P!Registered(v, c, k) /\ c # P!NotCreating
      /\ nextInstance' = [nextInstance EXCEPT ![v] = @ + 1]
      /\ creating' = [creating EXCEPT ![v] = P!NotCreating]
  BY <1>2 DEF P!CreateFails
<1>4. PICK kept :
            /\ reentry' = [p \in Players |->
                 IF p \in kept \cup (P!Charged(c, k) \ P!RolledBack(c, k))
                 THEN [reentry[p] EXCEPT ![t] = hour + Reentrance]
                 ELSE IF p \in P!Charged(c, k) THEN [reentry[p] EXCEPT ![t] = 0] ELSE reentry[p]]
            /\ uncleared' = (uncleared \/ kept # {})
  BY <1>2 DEF P!CreateFails
<1>5. t \in Templates BY <1>2, <1>3 DEF PartyInv, VmOk, CreateAt, CreateOk
<1>6. /\ nextInstance'[v] = n + 1 /\ DOMAIN nextInstance' = PartyVms
      /\ \A u \in PartyVms \ {v} : nextInstance'[u] = nextInstance[u] /\ instances'[u] = instances[u]
  BY <1>1, <1>2, <1>3 DEF PartyInv, PartyTyped
<1>7. /\ memberInstance'[v] = [e \in P!Eids |-> IF e \in P!First(c, k) THEN n ELSE memberInstance[v][e]]
      /\ DOMAIN memberInstance' = PartyVms
      /\ \A u \in PartyVms \ {v} : memberInstance'[u] = memberInstance[u]
  BY <1>2, <1>3 DEF P!Registered, PartyInv, PartyTyped
<1>8. RunsOk(instances[v], memberInstance[v], n, joinedTwice) /\ joinedTwice \in BOOLEAN
  BY <1>2 DEF PartyInv, PartyTyped, VmOk, RunsAt
<1>9. RunsOk(instances[v], [e \in P!Eids |-> IF e \in P!First(c, k) THEN n ELSE memberInstance[v][e]],
             n + 1, joinedTwice)
  BY <1>8, RunsFailed
<1>10. RunsOk(instances'[v], memberInstance'[v], nextInstance'[v], joinedTwice)
  BY <1>1, <1>6, <1>7, <1>9
<1>11. \A u \in PartyVms : RunsAt(u)' BY <1>1, <1>6, <1>7, <1>10, RunsStep
<1>12. DOMAIN creating' = PartyVms /\ \A u \in PartyVms : CreateAt(u)'
  BY <1>1, <1>3, CreateEnds
<1>13. reentry \in [Players -> [Templates -> Nat]] /\ hour + Reentrance \in Nat /\ 0 \in Nat
  BY <1>1, PartyAssumption DEF PartyInv, PartyTyped
<1>14. reentry' \in [Players -> [Templates -> Nat]] BY <1>4, <1>5, <1>13
<1>15. uncleared' \in BOOLEAN BY <1>4
<1>16. PartyTyped' BY <1>1, <1>6, <1>7, <1>12, <1>14, <1>15 DEF PartyInv, PartyTyped
<1>17. \A u \in PartyVms : GroupsAt(u)' BY <1>1, GroupsKept
<1>18. ChargeOk'
  <2> SUFFICES ASSUME ~uncleared', NEW p \in Players, NEW u \in Templates, reentry'[p][u] > hour
               PROVE  <<p, u>> \in entered
    BY <1>1 DEF ChargeOk
  <2>1. kept = {} /\ ~uncleared BY <1>4 DEF PartyInv, PartyTyped
  <2>2. reentry'[p] = IF p \in P!Charged(c, k) THEN [reentry[p] EXCEPT ![t] = 0] ELSE reentry[p]
    BY <1>4, <2>1 DEF P!RolledBack
  <2>3. reentry'[p][u] = reentry[p][u] \/ reentry'[p][u] = 0 BY <1>13, <2>2
  <2>4. reentry'[p][u] # 0 BY <1>1
  <2> QED BY <2>1, <2>3, <2>4 DEF PartyInv, ChargeOk
<1> QED BY <1>11, <1>12, <1>16, <1>17, <1>18 DEF PartyInv, VmOk

LEMMA PartyBossKilled ==
    ASSUME PartyInv, NEW v \in PartyVms, NEW w \in PartyVms, NEW r, P!BossKilled(v, w, r)
    PROVE  PartyInv'
<1>1. /\ UNCHANGED <<scale, logins, hour, reentry, entered, uncleared, joinedTwice, creating,
                     groups, memberGroup, nextGroup, memberInstance, nextInstance>>
      /\ hour' \in Nat /\ hour' >= hour /\ joinedTwice' \in BOOLEAN
  BY DEF P!BossKilled, PartyInv, PartyTyped
<1>2. r \in DOMAIN instances[w] /\ instances' = [instances EXCEPT ![w][r].boss = FALSE]
  BY DEF P!BossKilled
<1>3. /\ instances'[w] = [instances[w] EXCEPT ![r].boss = FALSE] /\ DOMAIN instances' = PartyVms
      /\ \A u \in PartyVms \ {w} : instances'[u] = instances[u]
  BY <1>2 DEF PartyInv, PartyTyped
<1>4. RunsOk(instances[w], memberInstance[w], nextInstance[w], joinedTwice) /\ joinedTwice \in BOOLEAN
  BY DEF PartyInv, PartyTyped, VmOk, RunsAt
<1>5. RunsOk([instances[w] EXCEPT ![r].boss = FALSE], memberInstance[w], nextInstance[w], joinedTwice)
  BY <1>2, <1>4, RunsCleared
<1>6. RunsOk(instances'[w], memberInstance'[w], nextInstance'[w], joinedTwice)
  BY <1>1, <1>3, <1>5
<1>7. \A u \in PartyVms : RunsAt(u)' BY <1>1, <1>3, <1>6, RunsStep
<1>8. PartyTyped' BY <1>1, <1>3 DEF PartyInv, PartyTyped
<1>9. \A u \in PartyVms : GroupsAt(u)' BY <1>1, GroupsKept
<1>10. \A u \in PartyVms : CreateAt(u)' BY <1>1, CreateKept
<1>11. ChargeOk' BY <1>1, ChargeKept
<1> QED BY <1>7, <1>8, <1>9, <1>10, <1>11 DEF PartyInv, VmOk

\* A reset ends the cooldown it forgets the entry of.
LEMMA PartyReset ==
    ASSUME PartyInv, NEW v, NEW e \in P!Eids, NEW t \in Templates, P!Reset(v, e, t)
    PROVE  PartyInv'
<1>1. /\ UNCHANGED <<scale, logins, hour, uncleared, joinedTwice, creating, groups, memberGroup, nextGroup,
                     instances, memberInstance, nextInstance>>
      /\ hour' \in Nat /\ hour' >= hour /\ joinedTwice' \in BOOLEAN /\ hour \in Nat
  BY DEF P!Reset, PartyInv, PartyTyped
<1>2. PICK q : q = P!Of(e) OBVIOUS
<1>3. q \in Players /\ reentry' = [reentry EXCEPT ![q][t] = 0] /\ entered' = entered \ {<<q, t>>}
  BY <1>2 DEF P!Reset, P!Of, P!Eids
<1>4. /\ reentry' \in [Players -> [Templates -> Nat]] /\ reentry'[q][t] = 0
      /\ \A p \in Players, u \in Templates : p # q \/ u # t => reentry'[p][u] = reentry[p][u]
  BY <1>3 DEF PartyInv, PartyTyped
<1>5. PartyTyped' BY <1>1, <1>4 DEF PartyInv, PartyTyped
<1>6. \A u \in PartyVms : GroupsAt(u)' BY <1>1, GroupsKept
<1>7. \A u \in PartyVms : RunsAt(u)' BY <1>1, RunsKept
<1>8. \A u \in PartyVms : CreateAt(u)' BY <1>1, CreateKept
<1>9. ChargeOk'
  <2> SUFFICES ASSUME ~uncleared, NEW p \in Players, NEW u \in Templates, reentry'[p][u] > hour
               PROVE  <<p, u>> \in entered'
    BY <1>1 DEF ChargeOk
  <2>1. p # q \/ u # t BY <1>1, <1>4
  <2>2. reentry[p][u] > hour BY <1>4, <2>1
  <2>3. <<p, u>> \in entered /\ <<p, u>> # <<q, t>>
    BY <2>1, <2>2 DEF PartyInv, ChargeOk
  <2> QED BY <1>3, <2>3
<1> QED BY <1>5, <1>6, <1>7, <1>8, <1>9 DEF PartyInv, VmOk

LEMMA PartyExpire ==
    ASSUME PartyInv, NEW v \in PartyVms, NEW x, P!Expire(v, x)
    PROVE  PartyInv'
<1>1. /\ UNCHANGED <<scale, logins, hour, reentry, entered, uncleared, joinedTwice, creating,
                     groups, memberGroup, nextGroup, nextInstance>>
      /\ hour' \in Nat /\ hour' >= hour /\ joinedTwice' \in BOOLEAN
  BY DEF P!Expire, P!ghosts, PartyInv, PartyTyped
<1>2. /\ \A u \in PartyVms : RunsAt(u)'
      /\ DOMAIN instances' = PartyVms /\ DOMAIN memberInstance' = PartyVms
  <2>1. CASE x.run \in DOMAIN instances[v] /\ instances[v][x.run].made = x.made
    <3>1. PICK Who, Stay : P!LeaveRuns(v, Who, Stay) /\ Stay = DOMAIN instances[v] \ {x.run}
      BY <2>1 DEF P!Expire
    <3>2. Stay \in SUBSET DOMAIN instances[v] BY <3>1
    <3> QED BY <1>1, <3>1, <3>2, LeaveRunsKeeps
  <2>2. CASE ~(x.run \in DOMAIN instances[v] /\ instances[v][x.run].made = x.made)
    BY <2>2, <1>1, RunsKept DEF P!Expire, PartyInv, PartyTyped
  <2> QED BY <2>1, <2>2
<1>3. PartyTyped' BY <1>1, <1>2 DEF PartyInv, PartyTyped
<1>4. \A u \in PartyVms : GroupsAt(u)' BY <1>1, GroupsKept
<1>5. \A u \in PartyVms : CreateAt(u)' BY <1>1, CreateKept
<1>6. ChargeOk' BY <1>1, ChargeKept
<1> QED BY <1>2, <1>3, <1>4, <1>5, <1>6 DEF PartyInv, VmOk

LEMMA PartyStep ==
    ASSUME PartyInv, P!Next
    PROVE  PartyInv'
<1>1. scale.vms \subseteq PartyVms /\ scale.templates \subseteq Templates
  BY DEF PartyInv, PartyTyped
<1>2. CASE (\E p \in Players : P!Logout(p) \/ P!Login(p)) \/ P!Tick
  BY <1>2, PartyTime
<1>3. ASSUME NEW v \in PartyVms,
             \/ P!Reload(v) \/ P!CreateCommit(v) \/ \E n \in 0..MaxMembers : P!CreateFails(v, n)
             \/ \E x \in expiries : P!Expire(v, x)
             \/ \E w \in PartyVms : \E r \in DOMAIN instances[w] : P!BossKilled(v, w, r)
      PROVE  PartyInv'
  BY <1>3, PartyReload, PartyCreateCommit, PartyCreateFails, PartyExpire, PartyBossKilled
<1>4. ASSUME NEW v \in PartyVms, NEW e \in P!Eids,
             \/ P!InstanceLeave(v, e) \/ P!Accept(v, e) \/ P!GroupLeave(v, e)
             \/ \E target : P!Invite(v, e, target)
             \/ \E t \in Templates : P!Rejoin(v, e, t) \/ P!CreateCheck(v, e, t) \/ P!Reset(v, e, t)
      PROVE  PartyInv'
  BY <1>4, PartyInstanceLeave, PartyAccept, PartyGroupLeave, PartyInvite, PartyRejoin, PartyCreateCheck,
     PartyReset
<1>5. ASSUME NEW v \in PartyVms, NEW p \in Players,
             \/ P!InstanceLeave(v, P!Live(p)) \/ P!Accept(v, P!Live(p)) \/ P!GroupLeave(v, P!Live(p))
             \/ \E q \in Players : P!Invite(v, P!Live(p), P!Live(q))
             \/ \E t \in scale.templates :
                 P!Rejoin(v, P!Live(p), t) \/ P!CreateCheck(v, P!Live(p), t) \/ P!Reset(v, P!Live(p), t)
      PROVE  PartyInv'
  BY LiveIs, <1>1, <1>4, <1>5
<1> QED BY <1>1, <1>2, <1>3, <1>5 DEF P!Next

LEMMA PartyStart ==
    ASSUME P!Init
    PROVE  PartyInv
<1>1. PartyTyped
  <2>1. scale.vms \subseteq PartyVms /\ scale.templates = Templates
    BY PartyAssumption DEF P!Init, ScaleOf
  <2>2. logins \in [Players -> 1..MaxLogins] BY PartyAssumption DEF P!Init
  <2>3. reentry \in [Players -> [Templates -> Nat]] BY DEF P!Init
  <2> QED BY <2>1, <2>2, <2>3 DEF P!Init, PartyTyped
<1>2. ASSUME NEW v \in PartyVms PROVE VmOk(v)
  BY DEF P!Init, VmOk, GroupsAt, RunsAt, CreateAt, GroupsOk, RunsOk, CreateOk, P!Nothing
<1>3. ChargeOk BY DEF P!Init, ChargeOk
<1> QED BY <1>1, <1>2, <1>3 DEF PartyInv

LEMMA PartyAlways == Spec => [](part = "party" => PartyInv)
<1>1. Init => (part = "party" => PartyInv) BY PartyStart DEF Init
<1>2. (part = "party" => PartyInv) /\ [Next]_all => (part = "party" => PartyInv)'
  BY PartOfStep, PartyStep, PartyStutters
<1> QED BY <1>1, <1>2, PTL DEF Spec

\* A pointer of a player leads to a roster that has it, a leader is in its
\* group, and nobody is in two rosters or twice in one unless an invite was
\* accepted out of another group: however the handlers of the VMs, creates
\* under way, logouts, reloads and expiries interleave (group.lua, instance.lua).
THEOREM PartyRostersSound == Spec => []RostersSound
<1>1. (part = "party" => PartyInv) => RostersSound
  <2> SUFFICES ASSUME PartyInv PROVE P!PointersSound /\ P!RostersApart
    BY DEF RostersSound
  <2>1. \A s \in Seq(P!Eids) : \A e : e \in P!Range(s) <=> Among(e, s)
    BY DEF P!Range, Among
  <2>2. \A s \in Seq(P!Eids) : P!Twice(s) <=> ~Distinct(s) BY DEF P!Twice, Distinct
  <2>3. ASSUME NEW v \in PartyVms, NEW g \in DOMAIN groups[v]
        PROVE  /\ groups[v][g].members \in Seq(P!Eids)
               /\ groups[v][g].leader \in P!Range(groups[v][g].members)
    BY <2>1 DEF PartyInv, VmOk, GroupsAt, GroupsOk, Roster
  <2>4. P!PointersSound
    <3>1. ASSUME NEW v \in PartyVms, NEW e \in P!Eids, memberGroup[v][e] # 0
          PROVE  memberGroup[v][e] \in DOMAIN groups[v]
                 /\ e \in P!Range(groups[v][memberGroup[v][e]].members)
      BY <3>1, <2>1, <2>3 DEF PartyInv, VmOk, GroupsAt, GroupsOk
    <3>2. ASSUME NEW v \in PartyVms, NEW e \in P!Eids, memberInstance[v][e] \in DOMAIN instances[v]
          PROVE  instances[v][memberInstance[v][e]].members[e] > 0
      BY <3>2 DEF PartyInv, VmOk, RunsAt, RunsOk
    <3> QED BY <2>3, <3>1, <3>2 DEF P!PointersSound
  <2>5. P!RostersApart
    <3> SUFFICES ASSUME ~joinedTwice, NEW v \in PartyVms
                 PROVE  /\ \A g \in DOMAIN groups[v] : ~P!Twice(groups[v][g].members)
                        /\ \A g, h \in DOMAIN groups[v] : g # h =>
                              P!Range(groups[v][g].members) \cap P!Range(groups[v][h].members) = {}
                        /\ \A r \in DOMAIN instances[v] : \A e \in P!Eids : instances[v][r].members[e] <= 1
      BY DEF P!RostersApart
    <3>1. ASSUME NEW g \in DOMAIN groups[v]
          PROVE  /\ Distinct(groups[v][g].members)
                 /\ \A e \in P!Eids : Among(e, groups[v][g].members) => memberGroup[v][e] = g
      BY DEF PartyInv, VmOk, GroupsAt, GroupsOk
    <3>2. ASSUME NEW g \in DOMAIN groups[v], NEW h \in DOMAIN groups[v], NEW e,
                 e \in P!Range(groups[v][g].members), e \in P!Range(groups[v][h].members)
          PROVE  g = h
      <4>1. Among(e, groups[v][g].members) /\ Among(e, groups[v][h].members)
        BY <2>1, <2>3, <3>2
      <4>2. e \in P!Eids BY <2>3, <4>1 DEF Among
      <4> QED BY <3>1, <4>1, <4>2
    <3>3. \A r \in DOMAIN instances[v] : \A e \in P!Eids : instances[v][r].members[e] <= 1
      BY DEF PartyInv, VmOk, RunsAt, RunsOk
    <3>4. \A g \in DOMAIN groups[v] : ~P!Twice(groups[v][g].members)
      BY <2>2, <2>3, <3>1
    <3> QED BY <3>2, <3>3, <3>4
  <2> QED BY <2>4, <2>5
<1> QED BY <1>1, PartyAlways, PTL

\* Who is on cooldown for an instance was in a run of it, unless an answer or a
\* compensating call was lost: a create that fails half way takes back the rows
\* it wrote (instance.lua).
THEOREM PartyChargedForEntry == Spec => []ChargedForEntry
<1>1. (part = "party" => PartyInv) => ChargedForEntry
  BY DEF PartyInv, ChargeOk, ChargedForEntry, P!ChargedForEntry, P!OnCooldown
<1> QED BY <1>1, PartyAlways, PTL

-----------------------------------------------------------------------------
(* LogPipeline: the handler.                                               *)

LogStates == {"new", "checked", "chan", "worker", "out", "lost", "dropped", "panic"}

DroppedIn(l) == {r \in Record : l[r] = "dropped"}

HandlerTyped ==
    /\ log \in [Record -> LogStates]
    /\ ch \in Seq(Record) /\ Len(ch) <= BufferSize
    /\ close \in {"open", "flagged", "closed", "done", "timeout"}
    /\ publishing \in [Publishers -> Record \cup {NoRecord}]
    /\ dropped = Cardinality(DroppedIn(log))

\* The records in the channel c, each there once, are those the log has there.
InChannel(c, l) ==
    /\ \A i \in 1..Len(c) : l[c[i]] = "chan"
    /\ \A i, k \in 1..Len(c) : c[i] = c[k] => i = k
    /\ \A r \in Record : l[r] = "chan" => \E i \in 1..Len(c) : c[i] = r

\* So are those in the workers' hands.
InHands(p, l) ==
    /\ \A w \in Publishers : p[w] # NoRecord => l[p[w]] = "worker"
    /\ \A w, x \in Publishers : p[w] = p[x] /\ p[w] # NoRecord => w = x
    /\ \A r \in Record : l[r] = "worker" => \E w \in Publishers : p[w] = r

\* Nothing is left when Close is done.
NothingLeft == close = "done" => ch = <<>> /\ \A w \in Publishers : publishing[w] = NoRecord

HandlerInv == HandlerTyped /\ InChannel(ch, log) /\ InHands(publishing, log) /\ NothingLeft

\* How far one record comes.
LEMMA LogMoves ==
    ASSUME HandlerTyped, NEW r \in Record, NEW v \in LogStates, log' = [log EXCEPT ![r] = v]
    PROVE  /\ log' \in [Record -> LogStates] /\ log'[r] = v
           /\ \A q \in Record : q # r => log'[q] = log[q]
           /\ log[r] # "dropped" /\ v # "dropped" => Cardinality(DroppedIn(log)') = Cardinality(DroppedIn(log))
           /\ log[r] # "dropped" /\ v = "dropped" => Cardinality(DroppedIn(log)') = Cardinality(DroppedIn(log)) + 1
<1>1. /\ log' \in [Record -> LogStates] /\ log'[r] = v
      /\ \A q \in Record : q # r => log'[q] = log[q]
  BY DEF HandlerTyped
<1>2. PICK before, after : before = DroppedIn(log) /\ after = DroppedIn(log)'
  OBVIOUS
<1>3. IsFiniteSet(before) BY <1>2, LogAssumption, FS_Subset DEF DroppedIn
<1>4. log[r] # "dropped" /\ v # "dropped" => after = before
  BY <1>1, <1>2 DEF DroppedIn
<1>5. log[r] # "dropped" /\ v = "dropped" => r \notin before /\ after = before \cup {r}
  BY <1>1, <1>2 DEF DroppedIn
<1>6. log[r] # "dropped" /\ v = "dropped" => Cardinality(after) = Cardinality(before) + 1
  BY <1>3, <1>5, FS_AddElement
<1> QED BY <1>1, <1>2, <1>4, <1>6

\* A record that is dropped, or is not taken.
LEMMA LogRefused ==
    ASSUME HandlerInv, NEW r \in Record, log[r] \in {"new", "checked"}, UNCHANGED <<ch, close, publishing>>,
           \/ G!Drop(r)
           \/ UNCHANGED dropped /\ \E v \in {"checked", "panic"} : log' = [log EXCEPT ![r] = v]
    PROVE  HandlerInv'
<1>1. PICK v \in {"checked", "panic", "dropped"} :
        log' = [log EXCEPT ![r] = v] /\ dropped' = IF v = "dropped" THEN dropped + 1 ELSE dropped
  BY DEF G!Drop
<1>2. v \in LogStates /\ HandlerTyped /\ log[r] # "dropped"
  BY DEF LogStates, HandlerInv
<1>3. /\ log' \in [Record -> LogStates] /\ log'[r] = v
      /\ \A q \in Record : q # r => log'[q] = log[q]
      /\ v # "dropped" => Cardinality(DroppedIn(log)') = Cardinality(DroppedIn(log))
      /\ v = "dropped" => Cardinality(DroppedIn(log)') = Cardinality(DroppedIn(log)) + 1
  BY <1>1, <1>2, LogMoves
<1>4. HandlerTyped' BY <1>1, <1>3 DEF HandlerInv, HandlerTyped
<1>5. \A q \in Record : (log'[q] = "chan" <=> log[q] = "chan") /\ (log'[q] = "worker" <=> log[q] = "worker")
  BY <1>1, <1>3
<1>6. InChannel(ch, log') BY <1>5 DEF HandlerInv, HandlerTyped, InChannel
<1>7. InHands(publishing, log') BY <1>5 DEF HandlerInv, HandlerTyped, InHands
<1> QED BY <1>4, <1>6, <1>7 DEF HandlerInv, NothingLeft

\* The channel takes a record.
LEMMA LogTaken ==
    ASSUME HandlerInv, NEW r \in Record, log[r] = "checked", close \in {"open", "flagged"},
           Len(ch) < BufferSize, ch' = Append(ch, r), log' = [log EXCEPT ![r] = "chan"],
           UNCHANGED <<dropped, close, publishing>>
    PROVE  HandlerInv'
<1>1. HandlerTyped /\ "chan" \in LogStates BY DEF LogStates, HandlerInv
<1>2. /\ log' \in [Record -> LogStates] /\ log'[r] = "chan"
      /\ \A q \in Record : q # r => log'[q] = log[q]
      /\ Cardinality(DroppedIn(log)') = Cardinality(DroppedIn(log))
  BY <1>1, LogMoves
<1>3. PICK n \in Nat : n = Len(ch) /\ n < BufferSize /\ \A i \in 1..n : ch[i] \in Record
  BY <1>1 DEF HandlerTyped
<1>4. /\ ch' \in Seq(Record) /\ Len(ch') = n + 1 /\ ch'[n + 1] = r
      /\ \A i \in 1..n : ch'[i] = ch[i]
  BY <1>1, <1>3 DEF HandlerTyped
<1>5. HandlerTyped' BY <1>3, LogAssumption, <1>1, <1>2, <1>4 DEF HandlerTyped
<1>6. InChannel(ch', log')
  <2>1. ASSUME NEW i \in 1..n PROVE ch[i] # r /\ log'[ch[i]] = "chan"
    BY <1>2, <1>3 DEF HandlerInv, InChannel
  <2>2. \A i \in 1..n + 1 : i \in 1..n \/ i = n + 1 BY <1>3
  <2>3. \A i \in 1..n + 1 : log'[ch'[i]] = "chan" BY <1>2, <1>4, <2>1, <2>2
  <2>4. ASSUME NEW i \in 1..n + 1, NEW k \in 1..n + 1, ch'[i] = ch'[k] PROVE i = k
    BY <1>3, <1>4, <2>4, <2>1, <2>2 DEF HandlerInv, InChannel
  <2>5. ASSUME NEW q \in Record, log'[q] = "chan" PROVE \E i \in 1..n + 1 : ch'[i] = q
    <3>1. CASE q = r BY <1>3, <1>4, <3>1
    <3>2. CASE q # r
      <4>1. PICK i \in 1..n : ch[i] = q
        BY <1>2, <1>3, <2>5, <3>2 DEF HandlerInv, InChannel
      <4>2. i \in 1..n + 1 BY <1>3
      <4> QED BY <1>4, <4>1, <4>2
    <3> QED BY <3>1, <3>2
  <2> QED BY <1>4, <2>3, <2>4, <2>5 DEF InChannel
<1>7. InHands(publishing', log') BY <1>2 DEF HandlerInv, HandlerTyped, InHands
<1>8. NothingLeft' BY DEF NothingLeft
<1> QED BY <1>5, <1>6, <1>7, <1>8 DEF HandlerInv

\* A worker takes the oldest record of the channel.
LEMMA LogWorkerTakes ==
    ASSUME HandlerInv, NEW w \in Publishers, G!WorkerTake(w)
    PROVE  HandlerInv'
<1>1. HandlerTyped /\ ch \in Seq(Record) /\ ch # <<>> /\ publishing[w] = NoRecord
  BY DEF HandlerInv, HandlerTyped, G!WorkerTake
<1>2. PICK r \in Record : r = Head(ch) BY <1>1
<1>3. /\ publishing' = [publishing EXCEPT ![w] = r] /\ log' = [log EXCEPT ![r] = "worker"] /\ ch' = Tail(ch)
      /\ UNCHANGED <<close, dropped>>
  BY <1>2 DEF G!WorkerTake
<1>4. PICK n \in Nat : n = Len(ch') BY <1>1, <1>3
<1>5. /\ Len(ch) = n + 1 /\ ch' \in Seq(Record) /\ ch[1] = r /\ \A i \in 1..n : ch'[i] = ch[i + 1]
  BY <1>1, <1>2, <1>3, <1>4
<1>6. log[r] = "chan" BY <1>5 DEF HandlerInv, InChannel
<1>7. /\ log' \in [Record -> LogStates] /\ log'[r] = "worker"
      /\ \A q \in Record : q # r => log'[q] = log[q]
      /\ Cardinality(DroppedIn(log)') = Cardinality(DroppedIn(log))
  BY <1>1, <1>3, <1>6, LogMoves DEF LogStates
<1>8. /\ publishing' \in [Publishers -> Record \cup {NoRecord}] /\ publishing'[w] = r
      /\ \A x \in Publishers : x # w => publishing'[x] = publishing[x]
  BY <1>1, <1>3 DEF HandlerTyped
<1>9. HandlerTyped'
  BY <1>1, <1>5, LogAssumption, <1>3, <1>4, <1>7, <1>8 DEF HandlerTyped
<1>10. InChannel(ch', log')
  <2>1. ASSUME NEW i \in 1..n PROVE i + 1 \in 1..n + 1 /\ i + 1 # 1 /\ 1 \in 1..n + 1
    BY <1>4
  <2>2. ASSUME NEW i \in 1..n PROVE ch'[i] # r /\ log[ch'[i]] = "chan" /\ ch'[i] \in Record
    BY <1>1, <1>5, <2>1 DEF HandlerInv, InChannel
  <2>3. ASSUME NEW i \in 1..n, NEW k \in 1..n, ch'[i] = ch'[k] PROVE i = k
    BY <1>5, <2>1, <2>3, <1>4 DEF HandlerInv, InChannel
  <2>4. ASSUME NEW q \in Record, log'[q] = "chan" PROVE \E i \in 1..n : ch'[i] = q
    <3>1. q # r /\ log[q] = "chan" BY <1>7, <2>4
    <3>2. PICK k \in 1..n + 1 : ch[k] = q BY <1>5, <3>1 DEF HandlerInv, InChannel
    <3>3. k # 1 /\ k - 1 \in 1..n /\ (k - 1) + 1 = k BY <1>4, <1>5, <3>1, <3>2
    <3> QED BY <1>5, <3>2, <3>3
  <2> QED BY <1>4, <1>7, <2>2, <2>3, <2>4 DEF InChannel
<1>11. InHands(publishing', log')
  <2>1. ASSUME NEW x \in Publishers, x # w, publishing[x] # NoRecord
        PROVE  publishing[x] \in Record /\ log[publishing[x]] = "worker" /\ publishing[x] # r
    BY <1>1, <1>6, <2>1 DEF HandlerInv, InHands, HandlerTyped
  <2>2. ASSUME NEW x \in Publishers, publishing'[x] # NoRecord PROVE log'[publishing'[x]] = "worker"
    BY <1>7, <1>8, <2>1, <2>2
  <2>3. ASSUME NEW x \in Publishers, NEW y \in Publishers, publishing'[x] = publishing'[y], publishing'[x] # NoRecord
        PROVE  x = y
    BY <1>8, <2>1, <2>3 DEF HandlerInv, InHands
  <2>4. ASSUME NEW q \in Record, log'[q] = "worker" PROVE \E x \in Publishers : publishing'[x] = q
    <3>1. CASE q = r BY <1>8, <3>1
    <3>2. CASE q # r
      <4>1. PICK x \in Publishers : publishing[x] = q
        BY <1>7, <2>4, <3>2 DEF HandlerInv, InHands
      <4>2. x # w BY <1>1, <4>1, LogAssumption
      <4> QED BY <1>8, <4>1, <4>2
    <3> QED BY <3>1, <3>2
  <2> QED BY <2>2, <2>3, <2>4 DEF InHands
<1>12. NothingLeft' BY <1>1, <1>3 DEF HandlerInv, NothingLeft
<1> QED BY <1>9, <1>10, <1>11, <1>12 DEF HandlerInv

\* A worker publishes its record or loses it.
LEMMA LogWorkerPublishes ==
    ASSUME HandlerInv, NEW w \in Publishers, G!WorkerPublish(w)
    PROVE  HandlerInv' /\ publishing[w] \in Record /\ log[publishing[w]] = "worker"
<1>1. HandlerTyped /\ publishing[w] # NoRecord BY DEF HandlerInv, G!WorkerPublish
<1>2. PICK r \in Record : r = publishing[w] BY <1>1 DEF HandlerTyped
<1>3. log[r] = "worker" BY <1>1, <1>2 DEF HandlerInv, InHands
<1>4. PICK v \in {"out", "lost"} : log' = [log EXCEPT ![r] = v]
  BY <1>2 DEF G!WorkerPublish
<1>5. publishing' = [publishing EXCEPT ![w] = NoRecord] /\ UNCHANGED <<ch, close, dropped>>
  BY DEF G!WorkerPublish
<1>6. /\ log' \in [Record -> LogStates] /\ log'[r] = v
      /\ \A q \in Record : q # r => log'[q] = log[q]
      /\ Cardinality(DroppedIn(log)') = Cardinality(DroppedIn(log))
  BY <1>1, <1>3, <1>4, LogMoves DEF LogStates
<1>7. /\ publishing' \in [Publishers -> Record \cup {NoRecord}] /\ publishing'[w] = NoRecord
      /\ \A x \in Publishers : x # w => publishing'[x] = publishing[x]
  BY <1>1, <1>5 DEF HandlerTyped
<1>8. HandlerTyped' BY <1>1, <1>5, <1>6, <1>7 DEF HandlerTyped
<1>9. InChannel(ch, log')
  BY <1>1, <1>3, <1>6 DEF HandlerTyped, HandlerInv, InChannel
<1>10. InHands(publishing', log')
  <2>1. ASSUME NEW x \in Publishers, publishing'[x] # NoRecord
        PROVE  x # w /\ publishing'[x] = publishing[x] /\ publishing[x] \in Record /\ publishing[x] # r
    BY <1>1, <1>2, <1>7, <2>1 DEF HandlerInv, InHands, HandlerTyped
  <2>2. ASSUME NEW x \in Publishers, publishing'[x] # NoRecord PROVE log'[publishing'[x]] = "worker"
    BY <1>6, <2>1, <2>2 DEF HandlerInv, InHands
  <2>3. ASSUME NEW x \in Publishers, NEW y \in Publishers, publishing'[x] = publishing'[y], publishing'[x] # NoRecord
        PROVE  x = y
    BY <2>1, <2>3 DEF HandlerInv, InHands
  <2>4. ASSUME NEW q \in Record, log'[q] = "worker" PROVE \E x \in Publishers : publishing'[x] = q
    <3>1. q # r /\ log[q] = "worker" BY <1>6, <2>4
    <3>2. PICK x \in Publishers : publishing[x] = q BY <3>1 DEF HandlerInv, InHands
    <3> QED BY <1>2, <1>7, <3>1, <3>2
  <2> QED BY <2>2, <2>3, <2>4 DEF InHands
<1>11. NothingLeft' BY <1>5, <1>7 DEF HandlerInv, NothingLeft
<1> QED BY <1>2, <1>3, <1>5, <1>8, <1>9, <1>10, <1>11 DEF HandlerInv

\* Close, step by step.
LEMMA LogCloses ==
    ASSUME HandlerInv, G!Close
    PROVE  HandlerInv'
BY DEF G!Close, G!CloseFlag, G!CloseChannel, G!CloseWait, NothingLeft, HandlerInv, HandlerTyped

-----------------------------------------------------------------------------
(* LogPipeline: logd.                                                      *)

RowCounts == [Record -> Nat]

DaemonTyped ==
    /\ stage \in {"down", "writer", "nats", "stream", "consumer", "run"}
    /\ durable \in BOOLEAN /\ sealed \in BOOLEAN /\ conn \in BOOLEAN
    /\ ready \subseteq Record /\ acked \subseteq Record
    /\ cb \in {G!Idle} \cup [pc : {"add", "flush", "reset", "ack"}, rec : Record]
    /\ tick \in {"idle", "flush", "reset"}
    /\ stop \in {"no", "flush", "reset", "close", "exit"}
    /\ batch \in RowCounts /\ table \in RowCounts /\ buffered \in Nat
    /\ harm \in [G!Fault -> Nat]

\* What an ending run leaves behind: nothing, unless a Send has failed.
ShutDown ==
    /\ stop # "no" => stage = "run" /\ harm["signal"] > 0
    /\ sealed => harm["send"] > 0
    /\ harm["send"] = 0 /\ stop = "exit" => ~conn /\ \A r \in Record : batch[r] = 0

RowsOf(r) == batch[r] + table[r]

\* A record in the callback has its row from Append on.
RecsKept ==
    harm["crash"] = 0 /\ harm["send"] = 0 =>
        /\ \A r \in acked : RowsOf(r) > 0
        /\ cb.pc \in {"flush", "reset", "ack"} => RowsOf(cb.rec) > 0

\* A record to be delivered, or not yet with the stream, has no row.
RowOnce ==
    (\A f \in {"send", "ack", "crash", "cut"} : harm[f] = 0) =>
        /\ \A r \in Record : RowsOf(r) <= 1
        /\ \A r \in ready : RowsOf(r) = 0 /\ log[r] = "out"
        /\ \A r \in Record : log[r] # "out" => RowsOf(r) = 0
        /\ cb # G!Idle => log[cb.rec] = "out" /\ cb.rec \notin ready
        /\ cb.pc = "add" => RowsOf(cb.rec) = 0

\* The rows the count does not know were added while somebody flushed: fewer
\* than make a batch full, and none once a flush is not yet counted.
Filled ==
    harm["send"] = 0 /\ harm["signal"] = 0 =>
        /\ buffered <= BatchRows
        /\ cb.pc \notin {"flush", "reset"} => buffered < BatchRows
        /\ cb.pc # "flush" => Total(batch, Record) < buffered + BatchRows
        /\ cb.pc = "reset" => Total(batch, Record) = 0
        /\ tick = "reset" => Total(batch, Record) <= buffered
        /\ Total(batch, Record) < 2 * BatchRows

DaemonInv == DaemonTyped /\ ShutDown /\ RecsKept /\ RowOnce /\ Filled

\* A fault that is counted stays counted.
HarmGrows ==
    harm' \in [G!Fault -> Nat] /\ \A f \in G!Fault : harm'[f] = 0 => harm[f] = 0

LEMMA LogGoes ==
    ASSUME harm \in [G!Fault -> Nat], NEW f \in G!Fault, G!Goes(f)
    PROVE  HarmGrows /\ harm'[f] > 0
BY DEF G!Goes, HarmGrows

LEMMA LogStays ==
    ASSUME harm \in [G!Fault -> Nat], harm' = harm
    PROVE  HarmGrows
BY DEF HarmGrows

\* The sum over rows is G's.
LEMMA LogTotal ==
    ASSUME NEW b \in RowCounts
    PROVE  /\ Total(b, Record) \in Nat
           /\ (\A r \in Record : b[r] = 0) => Total(b, Record) = 0
<1>1. IsFiniteSet(Record) /\ \A r \in Record : b[r] \in Nat
  BY LogAssumption DEF RowCounts
<1>2. Total(b, Record) \in Nat BY <1>1, CoinsFinite
<1>3. ASSUME \A r \in Record : b[r] = 0 PROVE Total(b, Record) = 0
  <2>1. Total(b, Record) = 0 * Cardinality(Record) BY <1>1, <1>3, TotalOfSame
  <2>2. Cardinality(Record) \in Nat BY <1>1, FS_CardinalityType
  <2> QED BY <2>1, <2>2
<1> QED BY <1>2, <1>3

\* One row more.
LEMMA LogRowAdded ==
    ASSUME DaemonTyped, NEW r \in Record, batch' = [batch EXCEPT ![r] = @ + 1]
    PROVE  /\ batch' \in RowCounts /\ batch'[r] = batch[r] + 1
           /\ \A q \in Record : q # r => batch'[q] = batch[q]
           /\ Total(batch', Record) = Total(batch, Record) + 1
<1>1. /\ batch' \in RowCounts /\ batch'[r] = batch[r] + 1
      /\ \A q \in Record : q # r => batch'[q] = batch[q]
  BY DEF DaemonTyped, RowCounts
<1>2. PICK b, c \in RowCounts : b = batch /\ c = batch' BY <1>1 DEF DaemonTyped
<1>3. /\ Total(c, Record) + b[r] = Total(b, Record) + c[r]
      /\ Total(b, Record) \in Nat /\ Total(c, Record) \in Nat
  <2>1. \A q \in Record : b[q] \in Nat /\ c[q] \in Nat BY DEF RowCounts
  <2>2. \A q \in Record \ {r} : c[q] = b[q] BY <1>1, <1>2
  <2> QED BY <2>1, <2>2, LogAssumption, TotalChanges
<1>4. b[r] \in Nat /\ c[r] = b[r] + 1 BY <1>1, <1>2 DEF RowCounts
<1>5. Total(c, Record) = Total(b, Record) + 1 BY <1>3, <1>4
<1> QED BY <1>1, <1>2, <1>5

\* A batch that is sent is in the table.
LEMMA LogSends ==
    ASSUME DaemonTyped, G!Send(TRUE)
    PROVE  /\ batch' \in RowCounts /\ table' \in RowCounts
           /\ \A r \in Record : batch'[r] = 0 /\ table'[r] = batch[r] + table[r]
           /\ Total(batch', Record) = 0
           /\ UNCHANGED <<sealed, harm>>
<1>1. /\ batch' \in RowCounts /\ table' \in RowCounts
      /\ \A r \in Record : batch'[r] = 0 /\ table'[r] = table[r] + batch[r]
      /\ UNCHANGED <<sealed, harm>>
  BY DEF DaemonTyped, G!Send, G!NoRows, RowCounts
<1>2. PICK b \in RowCounts : b = batch' BY <1>1
<1>3. Total(b, Record) = 0 BY <1>1, <1>2, LogTotal
<1>4. \A r \in Record : table[r] + batch[r] = batch[r] + table[r]
  BY DEF DaemonTyped, RowCounts
<1> QED BY <1>1, <1>2, <1>3, <1>4

\* One that is not stays, and the fault is known.
LEMMA LogSendFails ==
    ASSUME DaemonTyped, ShutDown, G!Send(FALSE)
    PROVE  UNCHANGED <<batch, table>> /\ sealed' \in BOOLEAN /\ HarmGrows /\ harm'["send"] > 0
BY LogStays, LogGoes DEF G!Fault, G!Send, DaemonTyped, ShutDown

\* The callback is idle or has a record.
LEMMA LogCallback ==
    ASSUME DaemonTyped
    PROVE  \/ cb = G!Idle /\ cb.pc = "idle" /\ cb.rec = NoRecord /\ NoRecord \notin Record
           \/ cb # G!Idle /\ cb.pc \in {"add", "flush", "reset", "ack"} /\ cb.rec \in Record
BY LogAssumption DEF DaemonTyped, G!Idle

\* Its next step, of the same record.
LEMMA LogCallbackGoes ==
    ASSUME DaemonTyped, cb # G!Idle, NEW v \in {"flush", "reset", "ack"}, cb' = [cb EXCEPT !.pc = v]
    PROVE  /\ cb' \in [pc : {"add", "flush", "reset", "ack"}, rec : Record]
           /\ cb'.pc = v /\ cb'.rec = cb.rec /\ cb' # G!Idle
BY LogAssumption DEF DaemonTyped, G!Idle

\* The handler and the start of a run leave the rows and the callback alone;
\* a record that was published stays so.
LEMMA LogOthers ==
    ASSUME DaemonInv, UNCHANGED <<cb, tick, stop, batch, sealed, buffered, table, acked>>, HarmGrows,
           stage' \in {"down", "writer", "nats", "stream", "consumer", "run"},
           durable' \in BOOLEAN, conn' \in BOOLEAN, ready' \subseteq Record,
           stop # "no" => stage' = "run" /\ conn' = conn,
           \A r \in Record : log[r] = "out" => log'[r] = "out",
           \A r \in ready' : r \in ready \/ (log[r] # "out" /\ log'[r] = "out")
    PROVE  DaemonInv'
<1>1. DaemonTyped /\ ShutDown /\ RecsKept /\ RowOnce /\ Filled BY DEF DaemonInv
<1>2. {"send", "ack", "crash", "cut", "signal"} \subseteq G!Fault BY DEF G!Fault
<1>3. DaemonTyped' BY <1>1 DEF DaemonTyped, HarmGrows
<1>4. ShutDown' BY <1>1, <1>2 DEF ShutDown, HarmGrows, DaemonTyped
<1>5. RecsKept' BY <1>1, <1>2 DEF RecsKept, RowsOf, HarmGrows
<1>6. RowOnce'
  <2> SUFFICES ASSUME \A f \in {"send", "ack", "crash", "cut"} : harm'[f] = 0 PROVE RowOnce'
    BY DEF RowOnce
  <2>1. /\ \A r \in Record : RowsOf(r) <= 1
        /\ \A r \in ready : RowsOf(r) = 0 /\ log[r] = "out"
        /\ \A r \in Record : log[r] # "out" => RowsOf(r) = 0
        /\ cb # G!Idle => log[cb.rec] = "out" /\ cb.rec \notin ready
        /\ cb.pc = "add" => RowsOf(cb.rec) = 0
    BY <1>1, <1>2 DEF RowOnce, HarmGrows
  <2>2. cb # G!Idle => cb.rec \in Record BY <1>1, LogCallback
  <2>3. \A r \in Record : RowsOf(r)' = RowsOf(r) BY DEF RowsOf
  <2>4. cb.pc = "add" => RowsOf(cb.rec)' = RowsOf(cb.rec) BY DEF RowsOf
  <2>5. \A r \in ready' : r \in Record /\ RowsOf(r)' = 0 /\ log'[r] = "out"
    BY <1>1, <2>1, <2>3 DEF DaemonTyped
  <2>6. \A r \in Record : RowsOf(r)' <= 1 /\ (log'[r] # "out" => RowsOf(r)' = 0)
    BY <2>1, <2>3
  <2>7. cb # G!Idle => log'[cb.rec] = "out" /\ cb.rec \notin ready' BY <2>1, <2>2
  <2>8. cb.pc = "add" => RowsOf(cb.rec)' = 0 BY <2>1, <2>4
  <2> QED BY <2>5, <2>6, <2>7, <2>8 DEF RowOnce, RowsOf
<1>7. Filled' BY <1>1, <1>2 DEF Filled, HarmGrows
<1> QED BY <1>3, <1>4, <1>5, <1>6, <1>7 DEF DaemonInv

\* The run ends: what it held is gone, without a fault there was nothing.
LEMMA LogEnds ==
    ASSUME DaemonInv, G!Ends, UNCHANGED log, HarmGrows,
           \/ harm'["crash"] > 0
           \/ stop = "exit" /\ (harm'["cut"] = 0 => cb = G!Idle)
    PROVE  DaemonInv'
<1>1. DaemonTyped /\ ShutDown /\ RecsKept /\ RowOnce /\ Filled BY DEF DaemonInv
<1>2. {"send", "ack", "crash", "cut", "signal"} \subseteq G!Fault BY DEF G!Fault
<1>3. /\ stage' = "down" /\ cb' = G!Idle /\ tick' = "idle" /\ stop' = "no"
      /\ sealed' = FALSE /\ conn' = FALSE /\ buffered' = 0 /\ UNCHANGED <<durable, table, acked>>
      /\ batch' \in RowCounts /\ \A r \in Record : batch'[r] = 0
  BY DEF G!Ends, G!NoRows, RowCounts
<1>4. ready' \subseteq Record /\ (cb = G!Idle => ready' = ready)
  BY <1>1, LogCallback DEF G!Ends, DaemonTyped
<1>5. Total(batch', Record) = 0
  <2>1. PICK b \in RowCounts : b = batch' BY <1>3
  <2> QED BY <1>3, <2>1, LogTotal
<1>6. DaemonTyped' BY <1>1, <1>3, <1>4 DEF DaemonTyped, HarmGrows
<1>7. ShutDown' BY <1>3 DEF ShutDown
<1>8. \A r \in Record : /\ RowsOf(r)' = table[r] /\ table[r] \in Nat /\ batch[r] \in Nat
                        /\ (batch[r] = 0 => RowsOf(r) = table[r])
                        /\ table[r] <= RowsOf(r)
  BY <1>1, <1>3 DEF RowsOf, DaemonTyped, RowCounts
<1>9. harm' \in [G!Fault -> Nat] /\ harm \in [G!Fault -> Nat]
  BY <1>1 DEF DaemonTyped, HarmGrows
<1>10. RecsKept'
  <2> SUFFICES ASSUME harm'["crash"] = 0, harm'["send"] = 0 PROVE RecsKept'
    BY DEF RecsKept
  <2>1. harm["crash"] = 0 /\ harm["send"] = 0 /\ stop = "exit"
    BY <1>2, <1>9 DEF HarmGrows
  <2>2. \A r \in Record : batch[r] = 0 BY <1>1, <2>1 DEF ShutDown
  <2>3. \A r \in acked : RowsOf(r)' > 0
    BY <1>1, <1>8, <2>1, <2>2 DEF RecsKept, DaemonTyped
  <2>4. cb'.pc = "idle" BY <1>3 DEF G!Idle
  <2> QED BY <1>3, <2>3, <2>4 DEF RecsKept
<1>11. RowOnce'
  <2> SUFFICES ASSUME \A f \in {"send", "ack", "crash", "cut"} : harm'[f] = 0 PROVE RowOnce'
    BY DEF RowOnce
  <2>1. /\ \A r \in Record : RowsOf(r) <= 1
        /\ \A r \in ready : RowsOf(r) = 0 /\ log[r] = "out"
        /\ \A r \in Record : log[r] # "out" => RowsOf(r) = 0
    BY <1>1, <1>2 DEF RowOnce, HarmGrows
  <2>2. ready' = ready BY <1>2, <1>4, <1>9
  <2>3. /\ \A r \in Record : RowsOf(r)' <= 1
        /\ \A r \in ready' : RowsOf(r)' = 0 /\ log'[r] = "out"
        /\ \A r \in Record : log'[r] # "out" => RowsOf(r)' = 0
    BY <1>1, <1>8, <1>4, <2>1, <2>2 DEF RowsOf, DaemonTyped, RowCounts
  <2>4. cb'.pc # "add" /\ cb' = G!Idle BY <1>3 DEF G!Idle
  <2> QED BY <2>3, <2>4 DEF RowOnce
<1>12. Filled' BY <1>3, <1>5, LogAssumption DEF G!Idle, Filled
<1> QED BY <1>6, <1>7, <1>10, <1>11, <1>12 DEF DaemonInv

\* The callback gives its message back: it had no row, or a write failed.
LEMMA LogNak ==
    ASSUME DaemonInv, cb # G!Idle, G!Nak, HarmGrows, UNCHANGED <<log, batch, table>>,
           cb.pc = "add" \/ harm'["send"] > 0
    PROVE  /\ cb' = G!Idle /\ cb'.pc = "idle" /\ ready' \subseteq Record
           /\ acked' = acked => RecsKept'
           /\ RowOnce'
<1>1. DaemonTyped /\ ShutDown /\ RecsKept /\ RowOnce BY DEF DaemonInv
<1>2. {"send", "ack", "crash", "cut", "signal"} \subseteq G!Fault BY DEF G!Fault
<1>3. cb' = G!Idle /\ cb'.pc = "idle" /\ ready' = ready \cup {cb.rec} /\ cb.rec \in Record
  BY <1>1, LogCallback DEF G!Nak, G!Idle
<1>4. ready' \subseteq Record BY <1>1, <1>3 DEF DaemonTyped
<1>5. acked' = acked => RecsKept'
  BY <1>1, <1>2, <1>3 DEF RecsKept, RowsOf, HarmGrows
<1>6. RowOnce'
  <2> SUFFICES ASSUME \A f \in {"send", "ack", "crash", "cut"} : harm'[f] = 0 PROVE RowOnce'
    BY DEF RowOnce
  <2>1. /\ \A r \in Record : RowsOf(r) <= 1
        /\ \A r \in ready : RowsOf(r) = 0 /\ log[r] = "out"
        /\ \A r \in Record : log[r] # "out" => RowsOf(r) = 0
        /\ log[cb.rec] = "out"
        /\ cb.pc = "add" => RowsOf(cb.rec) = 0
    BY <1>1, <1>2 DEF RowOnce, HarmGrows
  <2>2. cb.pc = "add" BY <1>2
  <2>3. \A r \in Record : RowsOf(r)' = RowsOf(r) BY DEF RowsOf
  <2>4. \A r \in ready' : r \in Record /\ RowsOf(r) = 0 /\ log[r] = "out"
    BY <1>3, <1>4, <2>1, <2>2
  <2> QED BY <1>3, <2>1, <2>3, <2>4 DEF RowOnce
<1> QED BY <1>3, <1>4, <1>5, <1>6

\* A message is delivered.
LEMMA LogDelivers ==
    ASSUME DaemonInv, NEW r \in Record, G!Deliver(r)
    PROVE  DaemonInv'
<1>1. DaemonTyped /\ ShutDown /\ RecsKept /\ RowOnce /\ Filled BY DEF DaemonInv
<1>2. {"send", "ack", "crash", "cut", "signal", "garbled"} \subseteq G!Fault
  BY DEF G!Fault
<1>3. /\ cb = G!Idle /\ cb.pc = "idle" /\ r \in ready /\ ready' = ready \ {r}
      /\ UNCHANGED <<log, stage, durable, tick, stop, batch, sealed, conn, buffered, table, acked>>
  BY DEF G!Deliver, G!handler, G!rows, G!Idle
<1>4. HarmGrows BY <1>1, <1>2, LogGoes, LogStays DEF G!Deliver, DaemonTyped
<1>5. \/ cb' = [pc |-> "add", rec |-> r] /\ cb'.pc = "add" /\ cb'.rec = r
      \/ cb' = cb
  BY DEF G!Deliver
<1>6. DaemonTyped' BY <1>1, <1>3, <1>4, <1>5 DEF DaemonTyped, HarmGrows
<1>7. ShutDown' BY <1>1, <1>2, <1>3, <1>4 DEF ShutDown, HarmGrows, DaemonTyped
<1>8. RecsKept' BY <1>1, <1>2, <1>3, <1>4, <1>5 DEF RecsKept, RowsOf, HarmGrows
<1>9. RowOnce'
  <2> SUFFICES ASSUME \A f \in {"send", "ack", "crash", "cut"} : harm'[f] = 0 PROVE RowOnce'
    BY DEF RowOnce
  <2>1. /\ \A q \in Record : RowsOf(q) <= 1
        /\ \A q \in ready : RowsOf(q) = 0 /\ log[q] = "out"
        /\ \A q \in Record : log[q] # "out" => RowsOf(q) = 0
    BY <1>1, <1>2, <1>4 DEF RowOnce, HarmGrows
  <2>2. \A q \in Record : RowsOf(q)' = RowsOf(q) BY <1>3 DEF RowsOf
  <2>3. \A q \in ready' : q \in Record /\ RowsOf(q) = 0 /\ log[q] = "out"
    BY <1>1, <1>3, <2>1 DEF DaemonTyped
  <2>4. cb' # G!Idle => cb'.rec = r /\ r \notin ready' BY <1>3, <1>5
  <2>5. cb'.pc = "add" => cb'.rec = r BY <1>3, <1>5
  <2>6. RowsOf(r) = 0 /\ log[r] = "out" BY <1>3, <2>1
  <2>7. cb'.pc = "add" => batch'[cb'.rec] + table'[cb'.rec] = 0
    BY <1>3, <2>5, <2>6 DEF RowsOf
  <2> QED BY <1>3, <2>1, <2>2, <2>3, <2>4, <2>6, <2>7 DEF RowOnce, RowsOf
<1>10. Filled' BY <1>1, <1>2, <1>3, <1>4, <1>5 DEF Filled, HarmGrows
<1> QED BY <1>6, <1>7, <1>8, <1>9, <1>10 DEF DaemonInv

\* add: the row is appended, or the message given back.
LEMMA LogAdds ==
    ASSUME DaemonInv, G!Add
    PROVE  DaemonInv'
<1>1. DaemonTyped /\ ShutDown /\ RecsKept /\ RowOnce /\ Filled BY DEF DaemonInv
<1>2. {"send", "ack", "crash", "cut", "signal", "append"} \subseteq G!Fault
  BY DEF G!Fault
<1>3. /\ cb.pc = "add" /\ cb # G!Idle /\ cb.rec \in Record
      /\ UNCHANGED <<log, stage, durable, tick, stop, sealed, conn, table, acked>>
  BY <1>1, LogCallback DEF G!Add, G!handler
<1>4. CASE G!AppendRow(FALSE) /\ G!Nak /\ UNCHANGED buffered
  <2>1. HarmGrows /\ batch' = batch
    BY <1>1, <1>2, <1>4, LogGoes, LogStays DEF G!AppendRow, DaemonTyped
  <2>2. /\ cb' = G!Idle /\ cb'.pc = "idle" /\ ready' \subseteq Record /\ RecsKept' /\ RowOnce'
    BY <1>3, <1>4, <2>1, LogNak
  <2>3. DaemonTyped' BY <1>1, <1>3, <1>4, <2>1, <2>2 DEF DaemonTyped, HarmGrows
  <2>4. ShutDown' BY <1>1, <1>2, <1>3, <2>1 DEF ShutDown, HarmGrows, DaemonTyped
  <2>5. Filled' BY <1>1, <1>2, <1>3, <1>4, <2>1, <2>2 DEF Filled, HarmGrows
  <2> QED BY <2>2, <2>3, <2>4, <2>5 DEF DaemonInv
<1>5. CASE /\ G!AppendRow(TRUE) /\ buffered' = buffered + 1 /\ UNCHANGED ready
           /\ cb' = [cb EXCEPT !.pc = IF buffered' >= BatchRows THEN "flush" ELSE "ack"]
  <2>1. /\ conn /\ ~sealed /\ batch' = [batch EXCEPT ![cb.rec] = @ + 1] /\ harm' = harm
    BY <1>5 DEF G!AppendRow, G!BatchUsable
  <2>2. /\ batch' \in RowCounts /\ batch'[cb.rec] = batch[cb.rec] + 1
        /\ \A q \in Record : q # cb.rec => batch'[q] = batch[q]
        /\ Total(batch', Record) = Total(batch, Record) + 1
    BY <1>1, <1>3, <2>1, LogRowAdded
  <2>3. PICK v \in {"flush", "ack"} : /\ cb' = [cb EXCEPT !.pc = v]
                                      /\ v = IF buffered' >= BatchRows THEN "flush" ELSE "ack"
    BY <1>5
  <2>4. /\ cb' \in [pc : {"add", "flush", "reset", "ack"}, rec : Record]
        /\ cb'.pc = v /\ cb'.rec = cb.rec /\ cb' # G!Idle
    BY <1>1, <1>3, <2>3, LogCallbackGoes
  <2>5. DaemonTyped' BY <1>1, <1>3, <1>5, <2>1, <2>2, <2>4 DEF DaemonTyped
  <2>6. ShutDown' BY <1>1, <1>3, <2>1 DEF ShutDown
  <2>7. \A q \in Record : /\ RowsOf(q) \in Nat /\ RowsOf(q) <= RowsOf(q)'
                          /\ (q # cb.rec => RowsOf(q)' = RowsOf(q))
    BY <1>1, <1>3, <2>2 DEF RowsOf, DaemonTyped, RowCounts
  <2>8. batch'[cb.rec] + table'[cb.rec] = RowsOf(cb.rec) + 1
    BY <1>1, <1>3, <2>2 DEF RowsOf, DaemonTyped, RowCounts
  <2>9. RecsKept'
    <3> SUFFICES ASSUME harm["crash"] = 0, harm["send"] = 0 PROVE RecsKept'
      BY <2>1 DEF RecsKept
    <3>1. \A q \in acked : q \in Record /\ RowsOf(q) > 0
      BY <1>1 DEF RecsKept, DaemonTyped
    <3>2. \A q \in Record : RowsOf(q)' \in Nat
      BY <2>5 DEF RowsOf, DaemonTyped, RowCounts
    <3>3. \A q \in acked : RowsOf(q)' > 0 BY <2>7, <3>1, <3>2
    <3>4. batch'[cb'.rec] + table'[cb'.rec] > 0 BY <1>3, <2>4, <2>7, <2>8
    <3> QED BY <1>3, <3>3, <3>4 DEF RecsKept, RowsOf
  <2>10. RowOnce'
    <3> SUFFICES ASSUME \A f \in {"send", "ack", "crash", "cut"} : harm[f] = 0 PROVE RowOnce'
      BY <2>1 DEF RowOnce
    <3>1. /\ \A q \in Record : RowsOf(q) <= 1
          /\ \A q \in ready : RowsOf(q) = 0 /\ log[q] = "out"
          /\ \A q \in Record : log[q] # "out" => RowsOf(q) = 0
          /\ log[cb.rec] = "out" /\ cb.rec \notin ready /\ RowsOf(cb.rec) = 0
      BY <1>1, <1>3 DEF RowOnce
    <3>2. \A q \in Record : RowsOf(q)' <= 1
      <4>1. ASSUME NEW q \in Record, q = cb.rec PROVE RowsOf(q)' <= 1
        BY <2>8, <3>1, <4>1 DEF RowsOf
      <4> QED BY <2>7, <3>1, <4>1
    <3>3. \A q \in ready : q \in Record /\ q # cb.rec /\ RowsOf(q)' = 0
      BY <1>1, <2>7, <3>1 DEF DaemonTyped
    <3>4. \A q \in Record : log[q] # "out" => q # cb.rec /\ RowsOf(q)' = 0
      BY <2>7, <3>1
    <3> QED BY <1>3, <1>5, <2>3, <2>4, <3>1, <3>2, <3>3, <3>4 DEF RowOnce
  <2>11. Filled'
    <3> SUFFICES ASSUME harm["send"] = 0, harm["signal"] = 0 PROVE Filled'
      BY <2>1 DEF Filled
    <3>1. PICK n, c, m \in Nat : n = buffered /\ c = Total(batch, Record) /\ m = BatchRows /\ m > 0
      BY <1>1, LogTotal, LogAssumption DEF DaemonTyped
    <3>2. n < m /\ c < n + m /\ c < 2 * m /\ (tick = "reset" => c <= n)
      BY <1>1, <1>3, <3>1 DEF Filled
    <3>3. buffered' = n + 1 /\ Total(batch', Record) = c + 1 BY <1>5, <2>2, <3>1
    <3>4. v # "flush" => n + 1 < m BY <1>5, <2>3, <3>1
    <3>5. cb'.pc \in {"flush", "ack"} /\ (cb'.pc # "flush" => v # "flush") /\ tick' = tick
      BY <1>3, <2>3, <2>4
    <3> QED BY <3>1, <3>2, <3>3, <3>4, <3>5 DEF Filled
  <2> QED BY <2>5, <2>6, <2>9, <2>10, <2>11 DEF DaemonInv
<1> QED BY <1>4, <1>5 DEF G!Add

\* A flush of the callback.
LEMMA LogFlushes ==
    ASSUME DaemonInv, G!CallbackFlush
    PROVE  DaemonInv'
<1>1. DaemonTyped /\ ShutDown /\ RecsKept /\ RowOnce /\ Filled BY DEF DaemonInv
<1>2. {"send", "ack", "crash", "cut", "signal"} \subseteq G!Fault BY DEF G!Fault
<1>3. /\ cb.pc = "flush" /\ cb # G!Idle /\ cb.rec \in Record
      /\ UNCHANGED <<log, stage, durable, tick, stop, conn, buffered, acked>>
  BY <1>1, LogCallback DEF G!CallbackFlush, G!handler
<1>4. CASE G!Send(FALSE) /\ G!Nak
  BY <1>1, <1>4, LogSendFails, <1>2, <1>3, LogNak DEF HarmGrows, DaemonTyped, ShutDown, Filled,
     DaemonInv
<1>5. CASE G!Send(TRUE) /\ cb' = [cb EXCEPT !.pc = "reset"] /\ UNCHANGED ready
  <2>1. /\ batch' \in RowCounts /\ table' \in RowCounts
        /\ \A r \in Record : batch'[r] = 0 /\ table'[r] = batch[r] + table[r]
        /\ Total(batch', Record) = 0
        /\ UNCHANGED <<sealed, harm>>
    BY <1>1, <1>5, LogSends
  <2>2. /\ cb' \in [pc : {"add", "flush", "reset", "ack"}, rec : Record]
        /\ cb'.pc = "reset" /\ cb'.rec = cb.rec /\ cb' # G!Idle
    BY <1>1, <1>3, <1>5, LogCallbackGoes
  <2>3. \A r \in Record : RowsOf(r)' = RowsOf(r)
    BY <1>1, <2>1 DEF RowsOf, DaemonTyped, RowCounts
  <2>4. DaemonTyped' BY <1>1, <1>3, <1>5, <2>1, <2>2 DEF DaemonTyped
  <2>5. ShutDown' BY <1>1, <1>3, <2>1 DEF ShutDown
  <2>6. batch'[cb'.rec] + table'[cb'.rec] = RowsOf(cb.rec)
    BY <1>3, <2>2, <2>3 DEF RowsOf
  <2>7. RecsKept' BY <1>1, <1>3, <2>1, <2>3, <2>6 DEF RecsKept, RowsOf, DaemonTyped
  <2>8. RowOnce'
    <3> SUFFICES ASSUME \A f \in {"send", "ack", "crash", "cut"} : harm[f] = 0 PROVE RowOnce'
      BY <2>1 DEF RowOnce
    <3>1. /\ \A q \in Record : RowsOf(q) <= 1
          /\ \A q \in ready : q \in Record /\ RowsOf(q) = 0 /\ log[q] = "out"
          /\ \A q \in Record : log[q] # "out" => RowsOf(q) = 0
          /\ log[cb.rec] = "out" /\ cb.rec \notin ready
      BY <1>1, <1>3 DEF RowOnce, DaemonTyped
    <3> QED BY <1>3, <1>5, <2>2, <2>3, <3>1 DEF RowOnce
  <2>9. Filled'
    <3> SUFFICES ASSUME harm["send"] = 0, harm["signal"] = 0 PROVE Filled'
      BY <2>1 DEF Filled
    <3>1. buffered \in Nat /\ buffered <= BatchRows /\ BatchRows \in Nat \ {0}
      BY <1>1, LogAssumption DEF Filled, DaemonTyped
    <3> QED BY <1>3, <2>1, <2>2, <3>1 DEF Filled
  <2> QED BY <2>4, <2>5, <2>7, <2>8, <2>9 DEF DaemonInv
<1> QED BY <1>4, <1>5 DEF G!CallbackFlush

\* It is counted.
LEMMA LogResets ==
    ASSUME DaemonInv, G!CallbackReset
    PROVE  DaemonInv'
<1>1. DaemonTyped /\ ShutDown /\ RecsKept /\ RowOnce /\ Filled BY DEF DaemonInv
<1>3. /\ cb.pc = "reset" /\ cb # G!Idle /\ cb.rec \in Record /\ buffered' = 0 /\ cb' = [cb EXCEPT !.pc = "ack"]
      /\ UNCHANGED <<log, stage, durable, tick, stop, ready, batch, sealed, conn, table, acked, harm>>
  BY <1>1, LogCallback DEF G!CallbackReset, G!handler
<1>4. /\ cb' \in [pc : {"add", "flush", "reset", "ack"}, rec : Record]
      /\ cb'.pc = "ack" /\ cb'.rec = cb.rec /\ cb' # G!Idle
  BY <1>1, <1>3, LogCallbackGoes
<1>5. DaemonTyped' BY <1>1, <1>3, <1>4 DEF DaemonTyped
<1>6. ShutDown' BY <1>1, <1>3 DEF ShutDown
<1>7. \A r \in Record : RowsOf(r)' = RowsOf(r) BY <1>3 DEF RowsOf
<1>8. batch'[cb'.rec] + table'[cb'.rec] = RowsOf(cb.rec) BY <1>3, <1>4 DEF RowsOf
<1>9. RecsKept' BY <1>1, <1>3, <1>7, <1>8 DEF RecsKept, RowsOf, DaemonTyped
<1>10. RowOnce'
  <2> SUFFICES ASSUME \A f \in {"send", "ack", "crash", "cut"} : harm[f] = 0 PROVE RowOnce'
    BY <1>3 DEF RowOnce
  <2>1. /\ \A q \in Record : RowsOf(q) <= 1
        /\ \A q \in ready : q \in Record /\ RowsOf(q) = 0 /\ log[q] = "out"
        /\ \A q \in Record : log[q] # "out" => RowsOf(q) = 0
        /\ log[cb.rec] = "out" /\ cb.rec \notin ready
    BY <1>1, <1>3 DEF RowOnce, DaemonTyped
  <2> QED BY <1>3, <1>4, <1>7, <2>1 DEF RowOnce
<1>11. Filled' BY <1>1, <1>3, <1>4, LogAssumption DEF Filled
<1> QED BY <1>5, <1>6, <1>9, <1>10, <1>11 DEF DaemonInv

\* The message is acknowledged, or delivered again.
LEMMA LogAcks ==
    ASSUME DaemonInv, G!Ack
    PROVE  DaemonInv'
<1>1. DaemonTyped /\ ShutDown /\ RecsKept /\ RowOnce /\ Filled BY DEF DaemonInv
<1>2. {"send", "ack", "crash", "cut", "signal"} \subseteq G!Fault BY DEF G!Fault
<1>3. /\ cb.pc = "ack" /\ cb # G!Idle /\ cb.rec \in Record /\ cb' = G!Idle /\ cb'.pc = "idle"
      /\ UNCHANGED <<log, stage, durable, tick, stop, batch, sealed, conn, buffered, table>>
  BY <1>1, LogCallback DEF G!Ack, G!handler, G!rows, G!Idle
<1>4. \/ acked' = acked \cup {cb.rec} /\ UNCHANGED <<ready, harm>> /\ HarmGrows
      \/ HarmGrows /\ harm'["ack"] # 0 /\ ready' = ready \cup {cb.rec} /\ UNCHANGED acked
  <2>1. ASSUME G!Goes("ack") PROVE HarmGrows /\ harm'["ack"] # 0
    BY <1>1, <1>2, <2>1, LogGoes DEF DaemonTyped, HarmGrows
  <2>2. harm' = harm => HarmGrows BY <1>1, LogStays DEF DaemonTyped
  <2> QED BY <2>1, <2>2 DEF G!Ack
<1>5. DaemonTyped' BY <1>1, <1>3, <1>4 DEF DaemonTyped, HarmGrows
<1>6. ShutDown' BY <1>1, <1>2, <1>3, <1>4 DEF ShutDown, HarmGrows, DaemonTyped
<1>7. \A r \in Record : RowsOf(r)' = RowsOf(r) BY <1>3 DEF RowsOf
<1>8. RecsKept'
  <2> SUFFICES ASSUME harm'["crash"] = 0, harm'["send"] = 0 PROVE RecsKept'
    BY DEF RecsKept
  <2>1. (\A r \in acked : RowsOf(r) > 0) /\ RowsOf(cb.rec) > 0
    BY <1>1, <1>2, <1>3, <1>4 DEF RecsKept, HarmGrows
  <2>2. \A r \in acked' : r \in Record /\ RowsOf(r) > 0
    BY <1>1, <1>3, <1>4, <2>1 DEF DaemonTyped
  <2> QED BY <1>3, <1>7, <2>2 DEF RecsKept
<1>9. RowOnce'
  <2> SUFFICES ASSUME \A f \in {"send", "ack", "crash", "cut"} : harm'[f] = 0 PROVE RowOnce'
    BY DEF RowOnce
  <2>1. /\ \A q \in Record : RowsOf(q) <= 1
        /\ \A q \in ready : q \in Record /\ RowsOf(q) = 0 /\ log[q] = "out"
        /\ \A q \in Record : log[q] # "out" => RowsOf(q) = 0
    BY <1>1, <1>2, <1>4 DEF RowOnce, HarmGrows, DaemonTyped
  <2>2. ready' = ready BY <1>4
  <2> QED BY <1>3, <1>7, <2>1, <2>2 DEF RowOnce
<1>10. Filled' BY <1>1, <1>2, <1>3, <1>4 DEF Filled, HarmGrows
<1> QED BY <1>5, <1>6, <1>8, <1>9, <1>10 DEF DaemonInv

\* A step that leaves every record the rows it has, and the callback.
LEMMA LogRowsStay ==
    ASSUME DaemonInv, \A r \in Record : RowsOf(r)' = RowsOf(r), UNCHANGED <<log, cb, ready, acked>>, HarmGrows
    PROVE  RecsKept' /\ RowOnce'
<1>1. DaemonTyped /\ RecsKept /\ RowOnce BY DEF DaemonInv
<1>2. {"send", "ack", "crash", "cut", "signal"} \subseteq G!Fault BY DEF G!Fault
<1>3. cb.pc \in {"add", "flush", "reset", "ack"} => cb.rec \in Record /\ cb # G!Idle
  BY <1>1, LogCallback
<1>4. cb.rec \in Record => batch'[cb'.rec] + table'[cb'.rec] = RowsOf(cb.rec)
  BY DEF RowsOf
<1>5. RecsKept'
  <2> SUFFICES ASSUME harm'["crash"] = 0, harm'["send"] = 0 PROVE RecsKept'
    BY DEF RecsKept
  <2>1. /\ \A r \in acked : r \in Record /\ RowsOf(r) > 0
        /\ cb.pc \in {"flush", "reset", "ack"} => RowsOf(cb.rec) > 0
    BY <1>1, <1>2 DEF RecsKept, HarmGrows, DaemonTyped
  <2>2. \A r \in acked' : RowsOf(r)' > 0 BY <2>1
  <2>3. cb'.pc \in {"flush", "reset", "ack"} => batch'[cb'.rec] + table'[cb'.rec] > 0
    BY <1>3, <1>4, <2>1
  <2> QED BY <2>2, <2>3 DEF RecsKept, RowsOf
<1>6. RowOnce'
  <2> SUFFICES ASSUME \A f \in {"send", "ack", "crash", "cut"} : harm'[f] = 0 PROVE RowOnce'
    BY DEF RowOnce
  <2>1. /\ \A r \in Record : RowsOf(r) <= 1
        /\ \A r \in ready : r \in Record /\ RowsOf(r) = 0 /\ log[r] = "out"
        /\ \A r \in Record : log[r] # "out" => RowsOf(r) = 0
        /\ cb # G!Idle => log[cb.rec] = "out" /\ cb.rec \notin ready
        /\ cb.pc = "add" => RowsOf(cb.rec) = 0
    BY <1>1, <1>2 DEF RowOnce, HarmGrows, DaemonTyped
  <2>2. /\ \A r \in Record : RowsOf(r)' <= 1
        /\ \A r \in ready' : RowsOf(r)' = 0 /\ log'[r] = "out"
        /\ \A r \in Record : log'[r] # "out" => RowsOf(r)' = 0
    BY <2>1
  <2>3. cb' # G!Idle => log'[cb'.rec] = "out" /\ cb'.rec \notin ready' BY <2>1
  <2>4. cb'.pc = "add" => batch'[cb'.rec] + table'[cb'.rec] = 0 BY <1>3, <1>4, <2>1
  <2> QED BY <2>2, <2>3, <2>4 DEF RowOnce, RowsOf
<1> QED BY <1>5, <1>6

\* The ticker.
LEMMA LogTicks ==
    ASSUME DaemonInv, G!Tick
    PROVE  DaemonInv'
<1>1. DaemonTyped /\ ShutDown /\ RecsKept /\ RowOnce /\ Filled BY DEF DaemonInv
<1>2. {"send", "ack", "crash", "cut", "signal"} \subseteq G!Fault BY DEF G!Fault
<1>3. UNCHANGED <<log, stage, durable, cb, stop, ready, conn, acked>>
  BY DEF G!Tick, G!handler
<1>4. CASE tick' = "flush" /\ UNCHANGED <<batch, sealed, table, buffered, harm>>
  BY <1>1, <1>4, LogStays, <1>3, LogRowsStay DEF RowsOf, DaemonTyped, ShutDown, Filled, DaemonInv
<1>5. CASE G!Send(TRUE) /\ tick' = "reset" /\ UNCHANGED buffered
  <2>1. /\ batch' \in RowCounts /\ table' \in RowCounts
        /\ \A r \in Record : batch'[r] = 0 /\ table'[r] = batch[r] + table[r]
        /\ Total(batch', Record) = 0
        /\ UNCHANGED <<sealed, harm>>
    BY <1>1, <1>5, LogSends
  <2>2. HarmGrows /\ \A r \in Record : RowsOf(r)' = RowsOf(r)
    BY <1>1, <2>1, LogStays DEF RowsOf, DaemonTyped, RowCounts
  <2>3. RecsKept' /\ RowOnce' BY <1>3, <2>2, LogRowsStay
  <2>4. DaemonTyped' /\ ShutDown'
    BY <1>1, <1>3, <1>5, <2>1 DEF DaemonTyped, ShutDown
  <2>5. Filled' BY <1>1, LogAssumption, <1>3, <1>5, <2>1 DEF DaemonTyped, Filled
  <2> QED BY <2>3, <2>4, <2>5 DEF DaemonInv
<1>6. CASE G!Send(FALSE) /\ tick' = "idle" /\ UNCHANGED buffered
  BY <1>1, <1>6, LogSendFails, <1>2, <1>3, LogRowsStay DEF HarmGrows, RowsOf, DaemonTyped,
     ShutDown, DaemonInv, Filled
<1>7. CASE tick = "reset" /\ buffered' = 0 /\ tick' = "idle" /\ UNCHANGED <<batch, sealed, table, harm>>
  <2>1. HarmGrows /\ \A r \in Record : RowsOf(r)' = RowsOf(r)
    BY <1>1, <1>7, LogStays DEF RowsOf, DaemonTyped
  <2>2. RecsKept' /\ RowOnce' BY <1>3, <2>1, LogRowsStay
  <2>3. DaemonTyped' /\ ShutDown' BY <1>1, <1>3, <1>7 DEF DaemonTyped, ShutDown
  <2>4. Filled'
    <3> SUFFICES ASSUME harm["send"] = 0, harm["signal"] = 0 PROVE Filled'
      BY <1>7 DEF Filled
    <3>1. PICK n, c, m \in Nat : n = buffered /\ c = Total(batch, Record) /\ m = BatchRows /\ m > 0
      BY <1>1, LogTotal, LogAssumption DEF DaemonTyped
    <3>2. /\ c <= n /\ c < 2 * m
          /\ cb.pc \notin {"flush", "reset"} => n < m
          /\ cb.pc = "reset" => c = 0
      BY <1>1, <1>7, <3>1 DEF Filled
    <3>3. buffered' = 0 /\ Total(batch', Record) = c /\ cb' = cb /\ tick' = "idle"
      BY <1>3, <1>7, <3>1
    <3> QED BY <3>1, <3>2, <3>3 DEF Filled
  <2> QED BY <2>2, <2>3, <2>4 DEF DaemonInv
<1> QED BY <1>4, <1>5, <1>6, <1>7 DEF G!Tick

\* The shutdown, up to the writer.
LEMMA LogStops ==
    ASSUME DaemonInv, G!StopStep
    PROVE  DaemonInv'
<1>1. DaemonTyped /\ ShutDown /\ RecsKept /\ RowOnce /\ Filled BY DEF DaemonInv
<1>2. {"send", "ack", "crash", "cut", "signal"} \subseteq G!Fault BY DEF G!Fault
<1>3. UNCHANGED <<log, stage, durable, cb, tick, ready, conn, acked>> /\ stage = "run"
  BY DEF G!StopStep, G!handler
<1>4. CASE G!Goes("signal") /\ stop' \in {"flush", "close"} /\ UNCHANGED <<batch, sealed, buffered, table>>
  BY <1>1, <1>2, <1>4, LogGoes, <1>3, LogRowsStay DEF DaemonTyped, HarmGrows, RowsOf, ShutDown,
     DaemonInv, Filled
<1>5. CASE stop = "flush" /\ G!Send(TRUE) /\ stop' = "reset" /\ UNCHANGED buffered
  <2>1. /\ batch' \in RowCounts /\ table' \in RowCounts
        /\ \A r \in Record : batch'[r] = 0 /\ table'[r] = batch[r] + table[r]
        /\ UNCHANGED <<sealed, harm>>
    BY <1>1, <1>5, LogSends
  <2>2. HarmGrows /\ \A r \in Record : RowsOf(r)' = RowsOf(r)
    BY <1>1, <2>1, LogStays DEF RowsOf, DaemonTyped, RowCounts
  <2>3. RecsKept' /\ RowOnce' BY <1>3, <2>2, LogRowsStay
  <2>4. DaemonTyped' /\ ShutDown'
    BY <1>1, <1>3, <1>5, <2>1 DEF DaemonTyped, ShutDown
  <2>5. harm'["signal"] # 0 BY <1>1, <1>2, <1>5, <2>1 DEF ShutDown, DaemonTyped
  <2> QED BY <2>3, <2>4, <2>5 DEF DaemonInv, Filled
<1>6. CASE stop = "flush" /\ G!Send(FALSE) /\ stop' = "exit" /\ UNCHANGED buffered
  BY <1>1, <1>6, LogSendFails, <1>2, <1>3, LogRowsStay DEF HarmGrows, RowsOf, DaemonTyped,
     ShutDown, DaemonInv, Filled
<1>7. CASE stop = "reset" /\ buffered' = 0 /\ stop' = "close" /\ UNCHANGED <<batch, sealed, table, harm>>
  BY <1>1, <1>7, LogStays, <1>3, LogRowsStay, <1>2 DEF RowsOf, DaemonTyped, ShutDown, DaemonInv,
     Filled
<1> QED BY <1>4, <1>5, <1>6, <1>7 DEF G!StopStep

\* The writer sends what there is and closes the connection.
LEMMA LogWriterCloses ==
    ASSUME DaemonInv, G!WriterClose
    PROVE  DaemonInv'
<1>1. DaemonTyped /\ ShutDown /\ RecsKept /\ RowOnce /\ Filled BY DEF DaemonInv
<1>2. {"send", "ack", "crash", "cut", "signal"} \subseteq G!Fault BY DEF G!Fault
<1>3. /\ stop = "close" /\ stop' = "exit" /\ conn' = FALSE
      /\ UNCHANGED <<log, stage, durable, cb, tick, ready, buffered, acked>>
  BY DEF G!WriterClose, G!handler
<1>4. stage = "run" /\ harm["signal"] # 0
  BY <1>1, <1>2, <1>3 DEF ShutDown, DaemonTyped
<1>5. CASE G!Send(TRUE)
  <2>1. /\ batch' \in RowCounts /\ table' \in RowCounts
        /\ \A r \in Record : batch'[r] = 0 /\ table'[r] = batch[r] + table[r]
        /\ UNCHANGED <<sealed, harm>>
    BY <1>1, <1>5, LogSends
  <2>2. HarmGrows /\ \A r \in Record : RowsOf(r)' = RowsOf(r)
    BY <1>1, <2>1, LogStays DEF RowsOf, DaemonTyped, RowCounts
  <2>3. RecsKept' /\ RowOnce' BY <1>3, <2>2, LogRowsStay
  <2>4. DaemonTyped' /\ ShutDown' BY <1>1, <1>3, <2>1 DEF DaemonTyped, ShutDown
  <2> QED BY <1>4, <2>1, <2>3, <2>4 DEF DaemonInv, Filled
<1>6. CASE /\ IF sealed THEN UNCHANGED harm ELSE G!Goes("send")
           /\ batch' = G!NoRows /\ sealed' = FALSE /\ UNCHANGED table
  <2>1. HarmGrows /\ harm'["send"] > 0
    BY <1>1, <1>2, <1>6, LogGoes, LogStays DEF ShutDown, DaemonTyped
  <2>2. harm'["send"] # 0 /\ harm'["signal"] # 0 /\ harm'["signal"] \in Nat
    BY <1>2, <1>4, <2>1 DEF HarmGrows
  <2>3. batch' \in RowCounts BY <1>6 DEF G!NoRows, RowCounts
  <2>4. DaemonTyped' BY <1>1, <1>3, <1>6, <2>1, <2>3 DEF DaemonTyped, HarmGrows
  <2>5. ShutDown' BY <1>3, <1>4, <1>6, <2>2 DEF ShutDown
  <2> QED BY <2>2, <2>4, <2>5 DEF DaemonInv, RecsKept, RowOnce, Filled
<1> QED BY <1>5, <1>6 DEF G!WriterClose

-----------------------------------------------------------------------------
(* LogPipeline: handler and logd together.                                 *)

LogInv == HandlerInv /\ DaemonInv

LEMMA LogHandlerStays ==
    ASSUME HandlerInv, UNCHANGED G!handler
    PROVE  HandlerInv'
BY DEF G!handler, HandlerInv, HandlerTyped, InChannel, InHands, NothingLeft, DroppedIn

\* A step of the handler.
LEMMA LogHandles ==
    ASSUME LogInv,
           \/ \E r \in Record : G!HandleCheck(r) \/ G!HandleSend(r)
           \/ \E w \in Publishers : G!WorkerTake(w) \/ G!WorkerPublish(w)
           \/ G!Close
    PROVE  LogInv'
<1>1. HandlerInv /\ DaemonInv /\ HandlerTyped /\ DaemonTyped
  BY DEF LogInv, HandlerInv, DaemonInv
<1>2. stop # "no" => stage = "run" BY <1>1 DEF DaemonInv, ShutDown
<1>3. ASSUME UNCHANGED <<ready, harm>>, UNCHANGED <<G!logd, G!rows, acked>>,
             \A r \in Record : log[r] = "out" => log'[r] = "out"
      PROVE  DaemonInv'
  BY <1>3, <1>1, LogStays, <1>2, LogOthers DEF G!logd, G!rows, DaemonTyped
<1>4. ASSUME NEW r \in Record, G!HandleCheck(r) PROVE LogInv'
  BY <1>4, <1>1, LogRefused, <1>3 DEF G!HandleCheck, G!logd, G!rows, G!Drop, HandlerTyped, LogInv
<1>5. ASSUME NEW r \in Record, G!HandleSend(r) PROVE LogInv'
  BY <1>5, <1>1, LogTaken, <1>3, LogRefused DEF G!HandleSend, G!logd, G!rows, HandlerTyped,
     LogInv, G!Drop
<1>6. ASSUME NEW w \in Publishers, G!WorkerTake(w) PROVE LogInv'
  <2>1. HandlerInv' BY <1>1, <1>6, LogWorkerTakes
  <2>2. UNCHANGED <<ready, harm>> /\ UNCHANGED <<G!logd, G!rows, acked>>
    BY <1>6 DEF G!WorkerTake, G!logd, G!rows
  <2>3. PICK r \in Record : r = Head(ch) /\ log' = [log EXCEPT ![r] = "worker"] /\ r = ch[1] /\ 1 \in 1..Len(ch)
    <3>1. ch \in Seq(Record) /\ ch # <<>>
      BY <1>1, <1>6 DEF G!WorkerTake, HandlerTyped
    <3>2. Head(ch) \in Record /\ Head(ch) = ch[1] /\ 1 \in 1..Len(ch) BY <3>1
    <3>3. log' = [log EXCEPT ![Head(ch)] = "worker"] BY <1>6 DEF G!WorkerTake
    <3> QED BY <3>2, <3>3
  <2>4. log[r] = "chan" BY <1>1, <2>3 DEF HandlerInv, InChannel
  <2>5. \A q \in Record : log[q] = "out" => log'[q] = "out"
    BY <1>1, <2>3, <2>4 DEF HandlerTyped
  <2> QED BY <1>3, <2>1, <2>2, <2>5 DEF LogInv
<1>7. ASSUME NEW w \in Publishers, G!WorkerPublish(w) PROVE LogInv'
  <2>1. HandlerInv' /\ publishing[w] \in Record /\ log[publishing[w]] = "worker"
    BY <1>1, <1>7, LogWorkerPublishes
  <2>2. PICK r \in Record : r = publishing[w] BY <2>1
  <2>3. /\ UNCHANGED <<cb, tick, stop, batch, sealed, buffered, table, acked>>
        /\ UNCHANGED <<stage, durable, conn>>
    BY <1>7 DEF G!WorkerPublish, G!logd, G!rows
  <2>4. "publish" \in G!Fault BY DEF G!Fault
  <2>5. HarmGrows
    BY <1>1, <1>7, <2>4, LogGoes, LogStays DEF G!WorkerPublish, DaemonTyped
  <2>6. \/ log' = [log EXCEPT ![r] = "out"] /\ ready' \in {ready, ready \cup {r}}
        \/ log' = [log EXCEPT ![r] = "lost"] /\ ready' = ready
    BY <1>7, <2>2 DEF G!WorkerPublish
  <2>7. \A q \in Record : log[q] = "out" => log'[q] = "out"
    BY <1>1, <2>1, <2>2, <2>6 DEF HandlerTyped
  <2>8. \A q \in ready' : q \in ready \/ (log[q] # "out" /\ log'[q] = "out")
    BY <1>1, <2>1, <2>2, <2>6 DEF HandlerTyped
  <2>9. ready' \subseteq Record BY <1>1, <2>6 DEF DaemonTyped
  <2>10. DaemonInv'
    BY <1>1, <1>2, <2>3, <2>5, <2>7, <2>8, <2>9, LogOthers DEF DaemonTyped
  <2> QED BY <2>1, <2>10 DEF LogInv
<1>8. CASE G!Close
  BY <1>1, <1>8, LogCloses, <1>3 DEF G!Close, G!logd, G!rows, LogInv
<1> QED BY <1>4, <1>5, <1>6, <1>7, <1>8

\* A step of logd's start.
LEMMA LogStarts ==
    ASSUME LogInv, G!ConnectClickHouse \/ G!ConnectNATS \/ G!EnsureStream \/ G!CreateConsumer \/ G!Consume
    PROVE  LogInv'
<1>1. HandlerInv /\ DaemonInv /\ DaemonTyped BY DEF LogInv, DaemonInv
<1>2. stop # "no" => stage = "run" BY <1>1 DEF DaemonInv, ShutDown
<1>3. CASE G!ConnectClickHouse \/ G!ConnectNATS \/ G!EnsureStream \/ G!CreateConsumer
  <2>1. PICK from \in {"down", "writer", "nats", "stream"}, to \in {"writer", "nats", "stream", "consumer"} :
          G!StartStep(from, to)
    BY <1>3 DEF G!ConnectClickHouse, G!ConnectNATS, G!EnsureStream, G!CreateConsumer
  <2>2. /\ stage = from /\ UNCHANGED G!handler
        /\ UNCHANGED <<cb, tick, stop, ready, batch, sealed, buffered, table, acked>>
        /\ stage' \in {to, "down"} /\ conn' \in BOOLEAN
    BY <2>1 DEF G!StartStep
  <2>3. durable' \in BOOLEAN
    BY <1>1, <1>3 DEF G!ConnectClickHouse, G!ConnectNATS, G!EnsureStream, G!CreateConsumer, DaemonTyped
  <2>4. "start" \in G!Fault BY DEF G!Fault
  <2>5. HarmGrows
    BY <1>1, <2>1, <2>4, LogGoes, LogStays DEF G!StartStep, DaemonTyped
  <2>6. stop = "no" BY <1>2, <2>2
  <2>7. log' = log BY <2>2 DEF G!handler
  <2>8. DaemonInv' BY <1>1, <2>2, <2>3, <2>5, <2>6, <2>7, LogOthers DEF DaemonTyped
  <2> QED BY <1>1, <2>2, <2>8, LogHandlerStays DEF LogInv
<1>4. CASE G!Consume
  BY <1>4, <1>1, <1>2, LogStays, LogOthers, LogHandlerStays DEF G!Consume, G!handler, G!rows,
     DaemonTyped, LogInv
<1> QED BY <1>3, <1>4

\* The end of a run.
LEMMA LogRunEnds ==
    ASSUME LogInv, G!Crash \/ G!Exit
    PROVE  LogInv'
<1>1. HandlerInv /\ DaemonInv /\ DaemonTyped BY DEF LogInv, DaemonInv
<1>2. "crash" \in G!Fault /\ "cut" \in G!Fault BY DEF G!Fault
<1>3. G!Ends /\ UNCHANGED G!handler /\ log' = log
  BY DEF G!Crash, G!Exit, G!Ends, G!handler
<1>4. CASE G!Crash
  BY <1>1, <1>2, <1>4, LogGoes, <1>3, LogEnds, LogHandlerStays DEF G!Crash, DaemonTyped, LogInv
<1>5. CASE G!Exit
  BY <1>5, <1>1, <1>2, <1>3, LogEnds, LogHandlerStays DEF G!Exit, HarmGrows, DaemonTyped, LogInv
<1> QED BY <1>4, <1>5

LEMMA LogStep ==
    ASSUME LogInv, G!Next \/ UNCHANGED logging
    PROVE  LogInv'
<1>1. HandlerInv /\ DaemonInv BY DEF LogInv
<1>2. CASE \/ G!Callback \/ G!Tick \/ G!StopStep \/ G!WriterClose
           \/ \E r \in Record : G!Deliver(r)
  <2>1. UNCHANGED G!handler
    BY <1>2 DEF G!Callback, G!Tick, G!StopStep, G!WriterClose, G!Deliver,
                G!CallbackFlush, G!CallbackReset, G!Add, G!Ack
  <2>2. DaemonInv'
    BY <1>1, <1>2, LogFlushes, LogResets, LogAdds, LogAcks, LogTicks, LogStops, LogWriterCloses, LogDelivers
    DEF G!Callback
  <2> QED BY <1>1, <2>1, <2>2, LogHandlerStays DEF LogInv
<1>3. CASE UNCHANGED logging
  <2>1. /\ UNCHANGED G!handler /\ UNCHANGED log
        /\ UNCHANGED <<stage, durable, sealed, conn, ready, acked, cb, tick, stop, batch, table, buffered, harm>>
    BY <1>3 DEF logging, G!handler
  <2>2. DaemonInv'
    BY <1>1, <2>1 DEF DaemonInv, DaemonTyped, ShutDown, RecsKept, RowOnce, Filled, RowsOf
  <2> QED BY <1>1, <2>1, <2>2, LogHandlerStays DEF LogInv
<1>4. ASSUME NEW r \in Record, G!HandleCheck(r) \/ G!HandleSend(r) PROVE LogInv'
  BY <1>4, LogHandles
<1>5. ASSUME NEW w \in Publishers, G!WorkerTake(w) \/ G!WorkerPublish(w) PROVE LogInv'
  BY <1>5, LogHandles
<1>6. CASE G!Close BY <1>6, LogHandles
<1>7. CASE G!ConnectClickHouse \/ G!ConnectNATS \/ G!EnsureStream \/ G!CreateConsumer \/ G!Consume
  BY <1>7, LogStarts
<1>8. CASE G!Crash \/ G!Exit BY <1>8, LogRunEnds
<1> QED BY <1>2, <1>3, <1>4, <1>5, <1>6, <1>7, <1>8 DEF G!Next

\* At the start nothing is anywhere but what waits for the durable consumer.
LEMMA LogInit ==
    ASSUME G!Init
    PROVE  LogInv
<1>1. /\ log = [r \in Record |-> IF r \in Backlog THEN "out" ELSE "new"]
      /\ ch = <<>> /\ close = "open" /\ dropped = 0
      /\ publishing = [w \in Publishers |-> NoRecord]
      /\ stage = "down" /\ durable \in BOOLEAN
      /\ cb = G!Idle /\ tick = "idle" /\ stop = "no"
      /\ batch = G!NoRows /\ sealed = FALSE /\ conn = FALSE /\ buffered = 0
      /\ table = G!NoRows /\ acked = {} /\ harm = [f \in G!Fault |-> 0]
  BY DEF G!Init
<1>2. ready \subseteq Backlog /\ Backlog \subseteq Record
  BY LogAssumption DEF G!Init
<1>3. cb.pc = "idle" BY <1>1 DEF G!Idle
<1>4. \A r \in Record : log[r] \in {"out", "new"} /\ (r \in Backlog => log[r] = "out")
  BY <1>1
<1>5. HandlerInv
  <2>1. DroppedIn(log) = {} BY <1>4 DEF DroppedIn
  <2>2. HandlerTyped
    <3>1. dropped = Cardinality(DroppedIn(log)) BY <1>1, <2>1, FS_EmptySet
    <3>2. log \in [Record -> LogStates] /\ publishing \in [Publishers -> Record \cup {NoRecord}]
      BY <1>1 DEF LogStates
    <3>3. ch \in Seq(Record) /\ Len(ch) <= BufferSize BY <1>1, LogAssumption
    <3> QED BY <1>1, <3>1, <3>2, <3>3 DEF HandlerTyped
  <2>3. InChannel(ch, log) BY <1>1, <1>4 DEF InChannel
  <2>4. InHands(publishing, log) BY <1>1, <1>4 DEF InHands
  <2> QED BY <1>1, <2>2, <2>3, <2>4 DEF HandlerInv, NothingLeft
<1>6. batch \in RowCounts /\ table \in RowCounts /\ \A r \in Record : batch[r] = 0 /\ table[r] = 0
  BY <1>1 DEF G!NoRows, RowCounts
<1>7. DaemonTyped BY <1>1, <1>2, <1>6 DEF DaemonTyped
<1>8. ShutDown BY <1>1 DEF ShutDown
<1>9. RecsKept BY <1>1, <1>3 DEF RecsKept
<1>10. RowOnce BY <1>6, <1>2, <1>4, <1>1, <1>3 DEF RowsOf, RowOnce
<1>11. Filled
  <2>1. PICK b \in RowCounts : b = batch BY <1>6
  <2>2. Total(b, Record) = 0 BY <1>6, <2>1, LogTotal
  <2> QED BY <1>1, <1>3, <2>1, <2>2, LogAssumption DEF Filled
<1> QED BY <1>5, <1>7, <1>8, <1>9, <1>10, <1>11 DEF LogInv, DaemonInv

LEMMA LogInvariant == Spec => [](part = "log" => LogInv)
<1>1. Init => (part = "log" => LogInv) BY LogInit DEF Init
<1>2. (part = "log" => LogInv) /\ [Next]_all => (part = "log" => LogInv)'
  BY PartOfStep, LogStep
<1> QED BY <1>1, <1>2, PTL DEF Spec

\* When Close returns without an error, no record is left in the channel or
\* in a worker's hands.
THEOREM LogCloseFlushes == Spec => []CloseFlushes
<1>1. (part = "log" => LogInv) => CloseFlushes
  <2> SUFFICES ASSUME LogInv, close = "done", NEW r \in Record
               PROVE  log[r] \notin {"chan", "worker"}
    BY DEF CloseFlushes, G!CloseFlushes
  <2>1. ch = <<>> /\ (\A w \in Publishers : publishing[w] = NoRecord) /\ InChannel(ch, log) /\ InHands(publishing, log)
    BY DEF LogInv, HandlerInv, NothingLeft
  <2>2. log[r] # "chan" BY <2>1 DEF InChannel
  <2>3. log[r] # "worker" BY LogAssumption, <2>1 DEF InHands
  <2> QED BY <2>2, <2>3
<1> QED BY <1>1, LogInvariant, PTL

\* The table gets every acknowledged row unless logd crashed or a write
\* failed, gets it once unless a write, an acknowledgement or the process was
\* cut off, and the rows between two flushes stay under twice a full batch.
THEOREM LogRowsKept == Spec => []RowsKept
<1>1. (part = "log" => LogInv) => RowsKept
  <2> SUFFICES ASSUME LogInv PROVE G!RowsKept BY DEF RowsKept
  <2>1. HandlerTyped /\ DaemonTyped /\ RecsKept /\ RowOnce /\ Filled
    BY DEF LogInv, HandlerInv, DaemonInv
  <2>2. dropped \in 0..Cardinality(Record)
    <3>1. PICK gone : gone = DroppedIn(log) OBVIOUS
    <3>2. gone \subseteq Record /\ IsFiniteSet(Record)
      BY <3>1, LogAssumption DEF DroppedIn
    <3>3. Cardinality(gone) <= Cardinality(Record) /\ IsFiniteSet(gone)
      BY <3>2, FS_Subset
    <3>4. Cardinality(gone) \in Nat /\ Cardinality(Record) \in Nat
      BY <3>2, <3>3, FS_CardinalityType
    <3> QED BY <2>1, <3>1, <3>3, <3>4 DEF HandlerTyped
  <2>3. G!TypeOK
    BY <2>1, <2>2 DEF G!Cardinality, Cardinality, DaemonTyped, G!Idle, G!TypeOK, HandlerTyped,
       LogStates, RowCounts
  <2>4. {"send", "ack", "crash", "cut", "signal"} \subseteq G!Fault BY DEF G!Fault
  <2>5. G!NoAckedLoss BY <2>1 DEF G!NoAckedLoss, G!Never, RecsKept, RowsOf
  <2>6. G!NoDuplicates BY <2>1 DEF G!NoDuplicates, G!Never, RowOnce, RowsOf
  <2>7. G!BatchBounded
    <3>1. G!RowCount(batch) = Total(batch, Record)
      BY DEF G!RowCount, G!Total, G!Coins, G!Cardinality, Total, Coins, Cardinality
    <3>2. PICK c \in Nat : c = Total(batch, Record)
      BY <2>1, LogTotal DEF DaemonTyped
    <3>3. harm["send"] = 0 /\ harm["signal"] = 0 => c < 2 * BatchRows
      BY <2>1, <3>2 DEF Filled
    <3> QED BY <3>1, <3>2, <3>3, LogAssumption DEF G!BatchBounded, G!Never
  <2> QED BY <2>3, <2>5, <2>6, <2>7 DEF G!RowsKept
<1> QED BY <1>1, LogInvariant, PTL
=============================================================================
