------------------------------- MODULE VMPool -------------------------------
(***************************************************************************)
(* The pool of Lua virtual machines of the world server                    *)
(* (internal/luahost/vm.go, invoker.go).                                   *)
(*                                                                         *)
(* Borrowers are the goroutines that run Lua: the NATS callbacks that      *)
(* dispatch client packets, the tick loop and the job workers.  A borrower *)
(* checks a VM out, runs one script call on it and gives it back.  Beside  *)
(* them the fsnotify watch loop debounces script edits and each expiry of  *)
(* its timer starts a reload goroutine of its own, so reloads can overlap. *)
(*                                                                         *)
(* A VM is an identity; what its scripts say is reduced to the version of  *)
(* the script directory it was built from.  Version NoScripts is the bare  *)
(* VM that Acquire hands out when building one fails.                      *)
(***************************************************************************)
EXTENDS Naturals, Sequences, FiniteSets

CONSTANTS VM,          \* identities a VM can have (reused once it is closed)
          NoVM,        \* the value of "holds no VM"
          Borrower,    \* goroutines that run Lua
          Reloader,    \* bound: reload goroutines that may run at one time
          Capacity,    \* VMPool.capacity
          MaxVersion   \* bound: versions the script directory goes through

ASSUME VMPoolAssumption ==
         /\ NoVM \notin VM
         /\ Capacity \in Nat \ {0}
         /\ MaxVersion \in Nat \ {0}

VARIABLES version,   \* version of the scripts on disk
          broken,    \* the scripts on disk do not load
          event,     \* a Write or Create event waits in watcher.Events
          timer,     \* the debounce timer is armed
          watching,  \* the watch loop runs
          closing,   \* progress of Close
          pool,      \* VMPool.pool, a LIFO
          live,      \* VMs that were created and not closed
          ver,       \* version each VM was built from
          held,      \* VM each borrower has checked out
          rpc,       \* progress of each reload goroutine
          built,     \* newStates of each reload goroutine
          drain      \* old of each reload goroutine: VMs it still has to close

disk    == <<version, broken>>
watch   == <<event, timer, watching>>
vms     == <<live, ver>>
reloads == <<rpc, built, drain>>
vars    == <<disk, watch, closing, pool, vms, held, reloads>>

NoScripts == 0
Version   == 1 .. MaxVersion

Elements(s) == {s[i] : i \in 1 .. Len(s)}
Distinct(s) == \A i, j \in 1 .. Len(s) : s[i] = s[j] => i = j

\* The VMs a reload goroutine has built or has taken out of the pool.
Owned(r)    == Elements(built[r]) \cup drain[r]

TypeOK ==
  /\ version \in Version
  /\ broken \in BOOLEAN
  /\ event \in BOOLEAN
  /\ timer \in BOOLEAN
  /\ watching \in BOOLEAN
  /\ closing \in {"open", "begun", "done"}
  /\ pool \in Seq(VM)
  /\ live \in SUBSET VM
  /\ ver \in [VM -> Version \cup {NoScripts}]
  /\ held \in [Borrower -> VM \cup {NoVM}]
  /\ rpc \in [Reloader -> {"idle", "build", "drain"}]
  /\ built \in [Reloader -> Seq(VM)]
  /\ drain \in [Reloader -> SUBSET VM]

\* NewVMPool has pre-warmed Capacity VMs and main has started the watch loop.
Init ==
  /\ version = 1
  /\ broken = FALSE
  /\ event = FALSE
  /\ timer = FALSE
  /\ watching = TRUE
  /\ closing = "open"
  /\ pool \in [1 .. Capacity -> VM]
  /\ \A i, j \in 1 .. Capacity : pool[i] = pool[j] => i = j
  /\ live = Elements(pool)
  /\ ver = [v \in VM |-> IF v \in live THEN 1 ELSE NoScripts]
  /\ held = [b \in Borrower |-> NoVM]
  /\ rpc = [r \in Reloader |-> "idle"]
  /\ built = [r \in Reloader |-> <<>>]
  /\ drain = [r \in Reloader |-> {}]

-----------------------------------------------------------------------------
(* Borrowers *)

\* newState succeeded with the scripts now on disk.
NewState(v, scripts) ==
  /\ v \in VM \ live
  /\ live' = live \cup {v}
  /\ ver' = [ver EXCEPT ![v] = scripts]

\* L.Close() on each VM of a set.
CloseVMs(closed) ==
  /\ live' = live \ closed
  /\ ver' = [v \in VM |-> IF v \in closed THEN NoScripts ELSE ver[v]]

AcquirePooled(b) ==
  /\ held[b] = NoVM
  /\ pool # <<>>
  /\ held' = [held EXCEPT ![b] = pool[Len(pool)]]
  /\ pool' = SubSeq(pool, 1, Len(pool) - 1)
  /\ UNCHANGED <<disk, watch, closing, vms, reloads>>

\* Pool exhausted: a temporary VM is built under the lock, a bare one when the
\* scripts on disk do not load.
AcquireTemporary(b) ==
  /\ held[b] = NoVM
  /\ pool = <<>>
  /\ \E v \in VM :
       /\ NewState(v, IF broken THEN NoScripts ELSE version)
       /\ held' = [held EXCEPT ![b] = v]
  /\ UNCHANGED <<disk, watch, closing, pool, reloads>>

\* Release, which every caller defers: the VM returns to the pool while there
\* is room, whatever it was built from, and is closed otherwise.
Release(b) ==
  /\ held[b] # NoVM
  /\ \/ /\ Len(pool) < Capacity
        /\ pool' = Append(pool, held[b])
        /\ UNCHANGED vms
     \/ /\ Len(pool) >= Capacity
        /\ CloseVMs({held[b]})
        /\ UNCHANGED pool
  /\ held' = [held EXCEPT ![b] = NoVM]
  /\ UNCHANGED <<disk, watch, closing, reloads>>

-----------------------------------------------------------------------------
(* Hot reload *)

\* Somebody saves a .lua file.  After Close the watcher reports nothing.
Edit ==
  /\ version < MaxVersion
  /\ version' = version + 1
  /\ broken' \in BOOLEAN
  /\ event' = (closing = "open")
  /\ UNCHANGED <<timer, watching, closing, pool, vms, held, reloads>>

\* Mutant of WatchEvent: an event is ignored while a reload builds.
WatchEventUnlessBusy ==
  /\ watching
  /\ event
  /\ event' = FALSE
  /\ timer' = (timer \/ \A r \in Reloader : rpc[r] # "build")
  /\ UNCHANGED <<disk, watching, closing, pool, vms, held, reloads>>

\* watchLoop takes an event: stop the running timer, arm a new one.
WatchEvent ==
  /\ watching
  /\ event
  /\ event' = FALSE
  /\ timer' = TRUE
  /\ UNCHANGED <<disk, watching, closing, pool, vms, held, reloads>>

\* watchLoop ends.  Close closes done and the watcher's channels; when select
\* sees the closed Events or Errors channel first, the timer is not stopped.
WatchStop ==
  /\ watching
  /\ closing # "open"
  /\ watching' = FALSE
  /\ event' = FALSE
  /\ timer' \in {FALSE, timer}
  /\ UNCHANGED <<disk, closing, pool, vms, held, reloads>>

\* The debounce timer expires and runs reload in a goroutine of its own.
TimerFires(r) ==
  /\ timer
  /\ rpc[r] = "idle"
  /\ timer' = FALSE
  /\ rpc' = [rpc EXCEPT ![r] = "build"]
  /\ built' = [built EXCEPT ![r] = <<>>]
  /\ UNCHANGED <<disk, event, watching, closing, pool, vms, held, drain>>

\* reload builds its next VM, outside the lock, from the scripts it finds now.
ReloadBuild(r) ==
  /\ rpc[r] = "build"
  /\ Len(built[r]) < Capacity
  /\ ~broken
  /\ \E v \in VM :
       /\ NewState(v, version)
       /\ built' = [built EXCEPT ![r] = Append(@, v)]
  /\ UNCHANGED <<disk, watch, closing, pool, held, rpc, drain>>

\* Mutant of ReloadFail: the VMs built so far are not closed.
ReloadFailLeaks(r) ==
  /\ rpc[r] = "build"
  /\ Len(built[r]) < Capacity
  /\ broken
  /\ built' = [built EXCEPT ![r] = <<>>]
  /\ rpc' = [rpc EXCEPT ![r] = "idle"]
  /\ UNCHANGED <<disk, watch, closing, pool, vms, held, drain>>

\* The scripts do not load: close what was built and keep the old pool.
ReloadFail(r) ==
  /\ rpc[r] = "build"
  /\ Len(built[r]) < Capacity
  /\ broken
  /\ CloseVMs(Elements(built[r]))
  /\ built' = [built EXCEPT ![r] = <<>>]
  /\ rpc' = [rpc EXCEPT ![r] = "idle"]
  /\ UNCHANGED <<disk, watch, closing, pool, held, drain>>

\* All are built: swap the pool under the lock.
ReloadSwap(r) ==
  /\ rpc[r] = "build"
  /\ Len(built[r]) = Capacity
  /\ pool' = built[r]
  /\ drain' = [drain EXCEPT ![r] = Elements(pool)]
  /\ built' = [built EXCEPT ![r] = <<>>]
  /\ rpc' = [rpc EXCEPT ![r] = "drain"]
  /\ UNCHANGED <<disk, watch, closing, vms, held>>

\* Mutant of ReloadDrain: it closes every VM that is not in the new pool.
ReloadDrainAll(r) ==
  /\ rpc[r] = "drain"
  /\ CloseVMs(live \ Elements(pool))
  /\ drain' = [drain EXCEPT ![r] = {}]
  /\ rpc' = [rpc EXCEPT ![r] = "idle"]
  /\ UNCHANGED <<disk, watch, closing, pool, held, built>>

\* Close the VMs of the old pool, after the lock was given up.
ReloadDrain(r) ==
  /\ rpc[r] = "drain"
  /\ CloseVMs(drain[r])
  /\ drain' = [drain EXCEPT ![r] = {}]
  /\ rpc' = [rpc EXCEPT ![r] = "idle"]
  /\ UNCHANGED <<disk, watch, closing, pool, held, built>>

-----------------------------------------------------------------------------
(* Shutdown *)

\* Close, before the lock: done is closed and the watcher is closed.
CloseBegin ==
  /\ closing = "open"
  /\ closing' = "begun"
  /\ UNCHANGED <<disk, watch, pool, vms, held, reloads>>

\* Close, under the lock: the pooled VMs are closed and the pool emptied.
CloseDrain ==
  /\ closing = "begun"
  /\ closing' = "done"
  /\ CloseVMs(Elements(pool))
  /\ pool' = <<>>
  /\ UNCHANGED <<disk, watch, held, reloads>>

-----------------------------------------------------------------------------

BorrowerStep(b) == AcquirePooled(b) \/ AcquireTemporary(b) \/ Release(b)
ReloaderStep(r) == ReloadBuild(r) \/ ReloadFail(r) \/ ReloadSwap(r) \/ ReloadDrain(r)
WatchStep       == WatchEvent \/ WatchStop \/ \E r \in Reloader : TimerFires(r)

Next ==
  \/ \E b \in Borrower : BorrowerStep(b)
  \/ Edit
  \/ WatchStep
  \/ \E r \in Reloader : ReloaderStep(r)
  \/ CloseBegin
  \/ CloseDrain

\* The Go runtime runs every runnable goroutine and every expired timer.  Nobody
\* has to edit a script, call Lua, return from a script or shut down.
Fairness ==
  /\ WF_vars(WatchStep)
  /\ \A r \in Reloader : WF_vars(ReloaderStep(r))

Spec     == Init /\ [][Next]_vars
FairSpec == Spec /\ Fairness

-----------------------------------------------------------------------------
(* Properties *)

\* gopher-lua states are not safe for concurrent use (vm.go:4): a VM is in one
\* place only: one slot of the pool, one borrower, or one reload goroutine that
\* is building it or still has to close it.
ExclusiveVM ==
  /\ Distinct(pool)
  /\ \A b, c \in Borrower : held[b] = held[c] /\ held[b] # NoVM => b = c
  /\ \A b \in Borrower : held[b] \notin Elements(pool)
  /\ \A r \in Reloader :
       /\ Distinct(built[r])
       /\ Elements(built[r]) \cap drain[r] = {}
       /\ Owned(r) \cap Elements(pool) = {}
       /\ \A b \in Borrower : held[b] \notin Owned(r)
  /\ \A r, s \in Reloader : r # s => Owned(r) \cap Owned(s) = {}

\* No use after Close and no leak: the VMs that are open are exactly those
\* somebody can still use or will close, through every reload, failed reload
\* and shutdown.
LiveIsReachable ==
  \A v \in VM :
    v \in live <=> \/ v \in Elements(pool)
                   \/ \E b \in Borrower : held[b] = v
                   \/ \E r \in Reloader : v \in Owned(r)

\* The pool never keeps more than Capacity idle VMs (vm.go:113).
PoolBounded == Len(pool) <= Capacity

\* What the pool's lock is there for, through reloads that overlap, fail or meet
\* a shutdown (vm.go:167): no VM in two hands, none leaked or used closed, and
\* temporary VMs do not let the pool grow.
PoolSound == TypeOK /\ ExclusiveVM /\ LiveIsReachable /\ PoolBounded

\* A reload or a shutdown never closes or rebuilds a VM a handler is running on.
BorrowedUntouched ==
  [][\A b \in Borrower :
       held[b] # NoVM /\ held'[b] = held[b] => held[b] \in live' /\ ver'[held[b]] = ver[held[b]]]_vars

\* Hot reload takes effect: when an edit that loads is the last one, then, once
\* its event is noticed, some reload fills the whole pool with its scripts,
\* unless the pool is closed first.
ReloadTakesEffect ==
  \A n \in Version :
    (version = n /\ ~broken /\ event)
      ~> \/ version # n
         \/ closing # "open"
         \/ pool # <<>> /\ \A v \in Elements(pool) : ver[v] = n

\* The package comment: a change "atomically refreshes the pool by draining old
\* states and preloading fresh ones" (vm.go:6).  Once nothing of a reload is
\* pending, no idle VM runs older scripts than those on disk.
Settled == ~event /\ ~timer /\ ~broken /\ closing = "open"
             /\ \A r \in Reloader : rpc[r] = "idle"

SettledPoolIsFresh ==
  Settled => \A v \in Elements(pool) : ver[v] \in {version, NoScripts}

\* "Each state has all API tables registered and all scripts loaded" (vm.go:30):
\* an idle VM never lacks the scripts.
PooledHaveScripts == closing = "open" => \A v \in Elements(pool) : ver[v] # NoScripts
=============================================================================
