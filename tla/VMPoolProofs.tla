---------------------------- MODULE VMPoolProofs ----------------------------
(***************************************************************************)
(* Safety of the Lua VM pool for any number of VMs, borrowers and          *)
(* overlapping reloads and for any capacity.                               *)
(*                                                                         *)
(* ExclusiveVM and LiveIsReachable need each other: a reload may close the *)
(* VMs it took out of the pool only because nobody else has them, and a    *)
(* new VM is in no place yet only because every place holds open VMs.      *)
(* ReloadShape adds what a reload goroutine owns at each point of its run. *)
(***************************************************************************)
EXTENDS VMPool, SequenceTheorems, TLAPS

\* A reload goroutine owns new VMs while it builds, old ones while it drains.
ReloadShape ==
  \A r \in Reloader :
    /\ rpc[r] # "build" => built[r] = <<>>
    /\ rpc[r] # "drain" => drain[r] = {}
    /\ Len(built[r]) <= Capacity

IInv == TypeOK /\ ExclusiveVM /\ LiveIsReachable /\ PoolBounded /\ ReloadShape

-----------------------------------------------------------------------------
(* Sequences of VMs *)

\* An empty pool has no elements.
LEMMA ElementsEmpty == Elements(<<>>) = {} /\ Distinct(<<>>)
  BY DEF Elements, Distinct

\* Appending a VM adds it to the elements; a new VM keeps them distinct.
LEMMA ElementsAppend ==
  ASSUME NEW s \in Seq(VM), NEW v \in VM
  PROVE  /\ Append(s, v) \in Seq(VM)
         /\ Len(Append(s, v)) = Len(s) + 1
         /\ Elements(Append(s, v)) = Elements(s) \cup {v}
         /\ Distinct(s) /\ v \notin Elements(s) => Distinct(Append(s, v))
  <1>1. /\ Append(s, v) \in Seq(VM)
        /\ Len(Append(s, v)) = Len(s) + 1
        /\ Append(s, v)[Len(s) + 1] = v
        /\ \A i \in 1 .. Len(s) : Append(s, v)[i] = s[i]
    OBVIOUS
  <1>2. Len(s) \in Nat
    OBVIOUS
  <1>3. 1 .. Len(Append(s, v)) = (1 .. Len(s)) \cup {Len(s) + 1}
    BY <1>1, <1>2
  <1>4. Elements(Append(s, v)) = Elements(s) \cup {v}
    BY <1>1, <1>3 DEF Elements
  <1>5. Distinct(s) /\ v \notin Elements(s) => Distinct(Append(s, v))
    BY <1>1, <1>2, <1>3 DEF Distinct, Elements
  <1> QED BY <1>1, <1>4, <1>5

\* Popping the last VM of a pool without repetitions removes exactly that VM.
LEMMA ElementsPop ==
  ASSUME NEW s \in Seq(VM), s # <<>>, Distinct(s)
  PROVE  /\ s[Len(s)] \in VM
         /\ SubSeq(s, 1, Len(s) - 1) \in Seq(VM)
         /\ Len(SubSeq(s, 1, Len(s) - 1)) = Len(s) - 1
         /\ Elements(SubSeq(s, 1, Len(s) - 1)) = Elements(s) \ {s[Len(s)]}
         /\ s[Len(s)] \in Elements(s)
         /\ Distinct(SubSeq(s, 1, Len(s) - 1))
  <1> DEFINE t == SubSeq(s, 1, Len(s) - 1)
  <1>1. Len(s) \in Nat /\ Len(s) > 0
    OBVIOUS
  <1>2. /\ t \in Seq(VM)
        /\ Len(t) = Len(s) - 1
        /\ \A i \in 1 .. Len(s) - 1 : t[i] = s[i]
    <2>1. Len(s) - 1 \in 0 .. Len(s) /\ 1 \in 1 .. Len(s) + 1 /\ (Len(s) - 1) - 1 + 1 = Len(s) - 1
      BY <1>1
    <2>2. /\ t \in Seq(VM)
          /\ Len(t) = IF 1 <= Len(s) - 1 THEN (Len(s) - 1) - 1 + 1 ELSE 0
          /\ \A i \in 1 .. (Len(s) - 1) - 1 + 1 : t[i] = s[1 + i - 1]
      BY <1>1, <2>1, SubSeqProperties
    <2> QED BY <1>1, <2>1, <2>2
  <1>3. s[Len(s)] \in VM /\ s[Len(s)] \in Elements(s)
    BY <1>1 DEF Elements
  <1>4. Elements(t) = Elements(s) \ {s[Len(s)]}
    BY <1>1, <1>2 DEF Elements, Distinct
  <1>5. Distinct(t)
    BY <1>1, <1>2 DEF Distinct
  <1> QED BY <1>2, <1>3, <1>4, <1>5

-----------------------------------------------------------------------------

LEMMA InitIInv == Init => IInv
  <1> SUFFICES ASSUME Init PROVE IInv
    OBVIOUS
  <1> USE VMPoolAssumption
  <1>1. pool \in Seq(VM) /\ Len(pool) = Capacity
    BY DEF Init
  <1>2. Elements(pool) \subseteq VM
    BY <1>1 DEF Elements
  <1>3. TypeOK
    <2>1. <<>> \in Seq(VM) /\ 1 \in Version
      BY DEF Version
    <2>2. ver \in [VM -> Version \cup {NoScripts}]
      BY <2>1 DEF Init
    <2>3. built \in [Reloader -> Seq(VM)]
      BY <2>1 DEF Init
    <2> QED BY <1>1, <1>2, <2>1, <2>2, <2>3 DEF Init, TypeOK
  <1>4. \A r \in Reloader : Owned(r) = {}
    BY ElementsEmpty DEF Init, Owned
  <1>5. ExclusiveVM
    BY <1>1, <1>2, <1>4, ElementsEmpty DEF Init, ExclusiveVM, Distinct
  <1>6. LiveIsReachable
    BY <1>1, <1>4 DEF Init, LiveIsReachable
  <1>7. PoolBounded /\ ReloadShape
    BY <1>1 DEF Init, PoolBounded, ReloadShape
  <1> QED BY <1>3, <1>5, <1>6, <1>7 DEF IInv

LEMMA AcquirePooledIInv ==
  ASSUME IInv, NEW b \in Borrower, AcquirePooled(b)
  PROVE  IInv'
  <1> USE VMPoolAssumption
  <1> DEFINE v == pool[Len(pool)]
  <1>1. TypeOK /\ Distinct(pool)
    BY DEF IInv, ExclusiveVM
  <1>2. /\ v \in VM
        /\ pool' \in Seq(VM)
        /\ Len(pool') <= Len(pool)
        /\ Elements(pool') = Elements(pool) \ {v}
        /\ v \in Elements(pool)
        /\ Distinct(pool')
    BY <1>1, ElementsPop DEF AcquirePooled, TypeOK
  <1>3. /\ held' = [held EXCEPT ![b] = v]
        /\ held[b] = NoVM
        /\ UNCHANGED <<disk, watch, closing, vms, reloads>>
    BY DEF AcquirePooled
  <1>4. TypeOK'
    BY <1>1, <1>2, <1>3 DEF TypeOK, disk, watch, vms, reloads
  <1>5. \A r \in Reloader : Owned(r)' = Owned(r)
    BY <1>3 DEF Owned, reloads, Elements
  <1>6. ExclusiveVM'
    BY <1>1, <1>2, <1>3, <1>5 DEF IInv, ExclusiveVM, TypeOK, reloads
  <1>7. LiveIsReachable'
    BY <1>1, <1>2, <1>3, <1>5 DEF IInv, LiveIsReachable, TypeOK, vms
  <1>8. PoolBounded' /\ ReloadShape'
    BY <1>1, <1>2, <1>3 DEF IInv, PoolBounded, ReloadShape, TypeOK, reloads
  <1> QED BY <1>4, <1>6, <1>7, <1>8 DEF IInv

LEMMA AcquireTemporaryIInv ==
  ASSUME IInv, NEW b \in Borrower, AcquireTemporary(b)
  PROVE  IInv'
  <1> USE VMPoolAssumption
  <1>1. PICK v \in VM : /\ NewState(v, IF broken THEN NoScripts ELSE version)
                        /\ held' = [held EXCEPT ![b] = v]
    BY DEF AcquireTemporary
  <1>2. /\ held[b] = NoVM /\ v \notin live /\ live' = live \cup {v}
        /\ UNCHANGED <<disk, watch, closing, pool, reloads>>
    BY <1>1 DEF AcquireTemporary, NewState
  <1>3. TypeOK'
    BY <1>1, <1>2 DEF IInv, TypeOK, disk, watch, reloads, NewState
  <1>4. Elements(pool)' = Elements(pool) /\ \A r \in Reloader : Owned(r)' = Owned(r)
    BY <1>2 DEF Owned, reloads, Elements
  <1>5. v \notin Elements(pool) /\ (\A r \in Reloader : v \notin Owned(r))
          /\ \A c \in Borrower : held[c] # v
    BY <1>2 DEF IInv, LiveIsReachable
  <1>6. ExclusiveVM'
    BY <1>1, <1>2, <1>4, <1>5 DEF IInv, ExclusiveVM, TypeOK, reloads
  <1>7. LiveIsReachable'
    <2>1. \A w \in VM : (\E c \in Borrower : held'[c] = w) <=> (w = v \/ \E c \in Borrower : held[c] = w)
      BY <1>1, <1>2 DEF IInv, TypeOK
    <2>2. \A w \in VM : w \in live' <=> (w = v \/ w \in live)
      BY <1>2
    <2>3. SUFFICES ASSUME NEW w \in VM
                   PROVE  w \in live' <=> \/ w \in Elements(pool)'
                                          \/ \E c \in Borrower : held'[c] = w
                                          \/ \E r \in Reloader : w \in Owned(r)'
      BY DEF LiveIsReachable
    <2>4. w \in live <=> \/ w \in Elements(pool)
                         \/ \E c \in Borrower : held[c] = w
                         \/ \E r \in Reloader : w \in Owned(r)
      BY DEF IInv, LiveIsReachable
    <2> QED BY <1>4, <2>1, <2>2, <2>4
  <1>8. PoolBounded' /\ ReloadShape'
    BY <1>2 DEF IInv, PoolBounded, ReloadShape, reloads
  <1> QED BY <1>3, <1>6, <1>7, <1>8 DEF IInv

LEMMA ReleaseIInv ==
  ASSUME IInv, NEW b \in Borrower, Release(b)
  PROVE  IInv'
  <1> USE VMPoolAssumption
  <1>1. /\ held[b] \in VM /\ held[b] # NoVM
        /\ held' = [held EXCEPT ![b] = NoVM]
        /\ UNCHANGED <<disk, watch, closing, reloads>>
        /\ TypeOK
    BY DEF IInv, TypeOK, Release
  <1>2. \A r \in Reloader : Owned(r)' = Owned(r)
    BY <1>1 DEF Owned, reloads, Elements
  <1>3. /\ held[b] \notin Elements(pool)
        /\ \A c \in Borrower : c # b => held[c] # held[b]
        /\ \A r \in Reloader : held[b] \notin Owned(r)
    BY <1>1 DEF IInv, ExclusiveVM
  <1>4. NoVM \notin Elements(pool) /\ \A r \in Reloader : NoVM \notin Owned(r)
    BY <1>1 DEF TypeOK, Elements, Owned
  <1>5. CASE Len(pool) < Capacity /\ pool' = Append(pool, held[b]) /\ UNCHANGED vms
    <2>1. /\ pool' \in Seq(VM) /\ Len(pool') = Len(pool) + 1
          /\ Elements(pool') = Elements(pool) \cup {held[b]} /\ Distinct(pool')
      BY <1>1, <1>3, <1>5, ElementsAppend DEF IInv, TypeOK, ExclusiveVM
    <2>2. TypeOK'
      BY <1>1, <1>5, <2>1 DEF TypeOK, disk, watch, reloads, vms
    <2>3. ExclusiveVM'
      BY <1>1, <1>2, <1>3, <1>4, <2>1 DEF IInv, ExclusiveVM, TypeOK, reloads
    <2>4. LiveIsReachable'
      BY <1>1, <1>2, <1>5, <2>1 DEF IInv, LiveIsReachable, TypeOK, vms
    <2>5. PoolBounded' /\ ReloadShape'
      BY <1>1, <1>5, <2>1 DEF IInv, PoolBounded, ReloadShape, TypeOK, reloads
    <2> QED BY <2>2, <2>3, <2>4, <2>5 DEF IInv
  <1>6. CASE CloseVMs({held[b]}) /\ UNCHANGED pool
    <2>1. Elements(pool)' = Elements(pool)
      BY <1>6
    <2>2. TypeOK'
      BY <1>1, <1>6 DEF TypeOK, disk, watch, reloads, CloseVMs
    <2>3. ExclusiveVM'
      BY <1>1, <1>2, <1>4, <1>6, <2>1 DEF IInv, ExclusiveVM, TypeOK, reloads
    <2>4. LiveIsReachable'
      BY <1>1, <1>2, <1>3, <1>6, <2>1 DEF IInv, LiveIsReachable, TypeOK, CloseVMs
    <2>5. PoolBounded' /\ ReloadShape'
      BY <1>1, <1>6 DEF IInv, PoolBounded, ReloadShape, reloads
    <2> QED BY <2>2, <2>3, <2>4, <2>5 DEF IInv
  <1> QED BY <1>5, <1>6 DEF Release

\* Steps that move no VM preserve the invariant.
LEMMA StillIInv ==
  ASSUME IInv, TypeOK', UNCHANGED <<pool, vms, held, built, drain>>, ReloadShape'
  PROVE  IInv'
  <1>1. Elements(pool)' = Elements(pool) /\ \A r \in Reloader : Owned(r)' = Owned(r)
    BY DEF Owned, Elements
  <1>2. ExclusiveVM' /\ LiveIsReachable' /\ PoolBounded'
    BY <1>1 DEF IInv, ExclusiveVM, LiveIsReachable, PoolBounded, vms
  <1> QED BY <1>2 DEF IInv

LEMMA WatchIInv ==
  ASSUME IInv, Edit \/ WatchEvent \/ WatchStop \/ CloseBegin
  PROVE  IInv'
  <1>1. UNCHANGED <<pool, vms, held, built, drain, rpc>>
    BY DEF Edit, WatchEvent, WatchStop, CloseBegin, reloads
  <1>2. TypeOK'
    <2>1. CASE Edit
      BY <1>1, <2>1, VMPoolAssumption DEF IInv, TypeOK, Edit, vms, Version
    <2>2. CASE WatchEvent
      BY <1>1, <2>2 DEF IInv, TypeOK, WatchEvent, vms, disk
    <2>3. CASE WatchStop
      BY <1>1, <2>3 DEF IInv, TypeOK, WatchStop, vms, disk
    <2>4. CASE CloseBegin
      BY <1>1, <2>4 DEF IInv, TypeOK, CloseBegin, vms, disk, watch
    <2> QED BY <2>1, <2>2, <2>3, <2>4
  <1>3. ReloadShape'
    BY <1>1 DEF IInv, ReloadShape
  <1> QED BY <1>1, <1>2, <1>3, StillIInv

LEMMA TimerFiresIInv ==
  ASSUME IInv, NEW r \in Reloader, TimerFires(r)
  PROVE  IInv'
  <1>1. /\ built[r] = <<>> /\ built' = [built EXCEPT ![r] = <<>>]
        /\ built \in [Reloader -> Seq(VM)]
        /\ rpc[r] = "idle" /\ rpc' = [rpc EXCEPT ![r] = "build"]
        /\ UNCHANGED <<disk, event, watching, closing, pool, vms, held, drain>>
        /\ timer' = FALSE
    BY DEF TimerFires, IInv, ReloadShape, TypeOK
  <1>2. UNCHANGED built
    BY <1>1
  <1>3. TypeOK'
    BY <1>1, <1>2 DEF IInv, TypeOK, disk, vms
  <1>4. ReloadShape'
    BY <1>1, <1>2 DEF IInv, ReloadShape, TypeOK
  <1> QED BY <1>1, <1>2, <1>3, <1>4, StillIInv

LEMMA ReloadBuildIInv ==
  ASSUME IInv, NEW r \in Reloader, ReloadBuild(r)
  PROVE  IInv'
  <1> USE VMPoolAssumption
  <1>1. PICK v \in VM : /\ NewState(v, version)
                        /\ built' = [built EXCEPT ![r] = Append(@, v)]
    BY DEF ReloadBuild
  <1>2. /\ rpc[r] = "build" /\ Len(built[r]) < Capacity
        /\ v \notin live /\ live' = live \cup {v}
        /\ UNCHANGED <<disk, watch, closing, pool, held, rpc, drain>>
        /\ TypeOK /\ built[r] \in Seq(VM) /\ v \in VM
    BY <1>1 DEF ReloadBuild, NewState, IInv, TypeOK
  <1>3. v \notin Elements(pool) /\ (\A q \in Reloader : v \notin Owned(q))
          /\ \A c \in Borrower : held[c] # v
    BY <1>2 DEF IInv, LiveIsReachable
  <1>4. /\ built'[r] \in Seq(VM) /\ Len(built'[r]) = Len(built[r]) + 1
        /\ Elements(built'[r]) = Elements(built[r]) \cup {v} /\ Distinct(built'[r])
        /\ \A q \in Reloader : q # r => built'[q] = built[q]
    <2>1. built'[r] = Append(built[r], v) /\ \A q \in Reloader : q # r => built'[q] = built[q]
      BY <1>1, <1>2 DEF TypeOK
    <2>2. Distinct(built[r]) /\ v \notin Elements(built[r])
      BY <1>3 DEF IInv, ExclusiveVM, Owned
    <2> QED BY <1>2, <2>1, <2>2, ElementsAppend
  <1>5. TypeOK'
    BY <1>1, <1>2, <1>4 DEF TypeOK, disk, watch, NewState
  <1>6. /\ Elements(pool)' = Elements(pool)
        /\ Owned(r)' = Owned(r) \cup {v}
        /\ \A q \in Reloader : q # r => Owned(q)' = Owned(q)
    BY <1>2, <1>4 DEF Owned, Elements
  <1>7. ExclusiveVM'
    <2>1. \A q \in Reloader :
            /\ Distinct(built'[q])
            /\ Elements(built'[q]) \cap drain'[q] = {}
      BY <1>2, <1>3, <1>4 DEF IInv, ExclusiveVM, Owned
    <2> QED BY <1>2, <1>3, <1>6, <2>1 DEF IInv, ExclusiveVM
  <1>8. LiveIsReachable'
    BY <1>2, <1>6 DEF IInv, LiveIsReachable
  <1>9. PoolBounded' /\ ReloadShape'
    BY <1>2, <1>4 DEF IInv, PoolBounded, ReloadShape, TypeOK
  <1> QED BY <1>5, <1>7, <1>8, <1>9 DEF IInv

LEMMA ReloadFailIInv ==
  ASSUME IInv, NEW r \in Reloader, ReloadFail(r)
  PROVE  IInv'
  <1>1. /\ rpc[r] = "build" /\ rpc' = [rpc EXCEPT ![r] = "idle"]
        /\ built' = [built EXCEPT ![r] = <<>>]
        /\ CloseVMs(Elements(built[r]))
        /\ UNCHANGED <<disk, watch, closing, pool, held, drain>>
        /\ TypeOK /\ drain[r] = {}
    BY DEF ReloadFail, IInv, ReloadShape
  <1>2. TypeOK'
    BY <1>1 DEF TypeOK, disk, watch, CloseVMs
  <1>3. /\ built'[r] = <<>> /\ \A q \in Reloader : q # r => built'[q] = built[q]
        /\ Elements(pool)' = Elements(pool)
        /\ Owned(r)' = {} /\ Owned(r) = Elements(built[r])
        /\ \A q \in Reloader : q # r => Owned(q)' = Owned(q)
    BY <1>1, ElementsEmpty DEF TypeOK, Owned, Elements
  <1>4. ExclusiveVM'
    <2>1. \A q \in Reloader :
            /\ Distinct(built'[q])
            /\ Elements(built'[q]) \cap drain'[q] = {}
      BY <1>1, <1>3, ElementsEmpty DEF IInv, ExclusiveVM
    <2> QED BY <1>1, <1>3, <2>1 DEF IInv, ExclusiveVM
  <1>5. LiveIsReachable'
    <2>1. /\ Elements(built[r]) \cap Elements(pool) = {}
          /\ \A c \in Borrower : held[c] \notin Elements(built[r])
          /\ \A q \in Reloader : q # r => Owned(q) \cap Elements(built[r]) = {}
      BY <1>3 DEF IInv, ExclusiveVM
    <2> QED BY <1>1, <1>3, <2>1 DEF IInv, LiveIsReachable, CloseVMs
  <1>6. PoolBounded' /\ ReloadShape'
    BY <1>1, <1>3, VMPoolAssumption DEF IInv, PoolBounded, ReloadShape, TypeOK
  <1> QED BY <1>2, <1>4, <1>5, <1>6 DEF IInv

LEMMA ReloadSwapIInv ==
  ASSUME IInv, NEW r \in Reloader, ReloadSwap(r)
  PROVE  IInv'
  <1>1. /\ rpc[r] = "build" /\ rpc' = [rpc EXCEPT ![r] = "drain"]
        /\ Len(built[r]) = Capacity
        /\ pool' = built[r]
        /\ built' = [built EXCEPT ![r] = <<>>]
        /\ drain' = [drain EXCEPT ![r] = Elements(pool)]
        /\ UNCHANGED <<disk, watch, closing, vms, held>>
        /\ TypeOK /\ drain[r] = {}
    BY DEF ReloadSwap, IInv, ReloadShape
  <1>2. TypeOK'
    BY <1>1 DEF TypeOK, disk, watch, vms, Elements
  <1>3. /\ built'[r] = <<>> /\ \A q \in Reloader : q # r => built'[q] = built[q]
        /\ drain'[r] = Elements(pool) /\ \A q \in Reloader : q # r => drain'[q] = drain[q]
        /\ Owned(r)' = Elements(pool) /\ Elements(pool)' = Owned(r)
        /\ \A q \in Reloader : q # r => Owned(q)' = Owned(q)
    BY <1>1, ElementsEmpty DEF TypeOK, Owned, Elements
  <1>4. ExclusiveVM'
    <2>1. Distinct(pool') /\ \A q \in Reloader :
            /\ Distinct(built'[q])
            /\ Elements(built'[q]) \cap drain'[q] = {}
      BY <1>1, <1>3, ElementsEmpty DEF IInv, ExclusiveVM
    <2> QED BY <1>1, <1>3, <2>1 DEF IInv, ExclusiveVM
  <1>5. LiveIsReachable'
    BY <1>1, <1>3 DEF IInv, LiveIsReachable, vms
  <1>6. PoolBounded' /\ ReloadShape'
    BY <1>1, <1>3, VMPoolAssumption DEF IInv, PoolBounded, ReloadShape, TypeOK
  <1> QED BY <1>2, <1>4, <1>5, <1>6 DEF IInv

LEMMA ReloadDrainIInv ==
  ASSUME IInv, NEW r \in Reloader, ReloadDrain(r)
  PROVE  IInv'
  <1>1. /\ rpc[r] = "drain" /\ rpc' = [rpc EXCEPT ![r] = "idle"]
        /\ CloseVMs(drain[r])
        /\ drain' = [drain EXCEPT ![r] = {}]
        /\ UNCHANGED <<disk, watch, closing, pool, held, built>>
        /\ TypeOK /\ built[r] = <<>>
    BY DEF ReloadDrain, IInv, ReloadShape
  <1>2. TypeOK'
    BY <1>1 DEF TypeOK, disk, watch, CloseVMs
  <1>3. /\ Elements(pool)' = Elements(pool)
        /\ drain'[r] = {} /\ \A q \in Reloader : q # r => drain'[q] = drain[q]
        /\ Owned(r)' = {} /\ Owned(r) = drain[r]
        /\ \A q \in Reloader : q # r => Owned(q)' = Owned(q)
    BY <1>1, ElementsEmpty DEF TypeOK, Owned, Elements
  <1>4. ExclusiveVM'
    <2>1. \A q \in Reloader :
            /\ Distinct(built'[q])
            /\ Elements(built'[q]) \cap drain'[q] = {}
      BY <1>1, <1>3 DEF IInv, ExclusiveVM
    <2> QED BY <1>1, <1>3, <2>1 DEF IInv, ExclusiveVM
  <1>5. LiveIsReachable'
    <2>1. /\ drain[r] \cap Elements(pool) = {}
          /\ \A c \in Borrower : held[c] \notin drain[r]
          /\ \A q \in Reloader : q # r => Owned(q) \cap drain[r] = {}
      BY <1>3 DEF IInv, ExclusiveVM
    <2> QED BY <1>1, <1>3, <2>1 DEF IInv, LiveIsReachable, CloseVMs
  <1>6. PoolBounded' /\ ReloadShape'
    BY <1>1, <1>3 DEF IInv, PoolBounded, ReloadShape, TypeOK
  <1> QED BY <1>2, <1>4, <1>5, <1>6 DEF IInv

LEMMA CloseDrainIInv ==
  ASSUME IInv, CloseDrain
  PROVE  IInv'
  <1>1. /\ CloseVMs(Elements(pool)) /\ pool' = <<>> /\ closing' = "done"
        /\ UNCHANGED <<disk, watch, held, reloads>> /\ TypeOK
    BY DEF CloseDrain, IInv
  <1>2. TypeOK'
    BY <1>1 DEF TypeOK, disk, watch, reloads, CloseVMs
  <1>3. Elements(pool)' = {} /\ Distinct(pool)' /\ \A q \in Reloader : Owned(q)' = Owned(q)
    BY <1>1, ElementsEmpty DEF Owned, reloads, Elements
  <1>4. ExclusiveVM'
    BY <1>1, <1>3 DEF IInv, ExclusiveVM, reloads
  <1>5. LiveIsReachable'
    <2>1. /\ \A c \in Borrower : held[c] \notin Elements(pool)
          /\ \A q \in Reloader : Owned(q) \cap Elements(pool) = {}
      BY DEF IInv, ExclusiveVM
    <2> QED BY <1>1, <1>3, <2>1 DEF IInv, LiveIsReachable, CloseVMs
  <1>6. PoolBounded' /\ ReloadShape'
    BY <1>1, VMPoolAssumption DEF IInv, PoolBounded, ReloadShape, reloads
  <1> QED BY <1>2, <1>4, <1>5, <1>6 DEF IInv

LEMMA NextIInv == IInv /\ [Next]_vars => IInv'
  <1> SUFFICES ASSUME IInv, [Next]_vars PROVE IInv'
    OBVIOUS
  <1>1. ASSUME NEW b \in Borrower, BorrowerStep(b) PROVE IInv'
    BY <1>1, AcquirePooledIInv, AcquireTemporaryIInv, ReleaseIInv DEF BorrowerStep
  <1>2. ASSUME NEW r \in Reloader, ReloaderStep(r) PROVE IInv'
    BY <1>2, ReloadBuildIInv, ReloadFailIInv, ReloadSwapIInv, ReloadDrainIInv DEF ReloaderStep
  <1>3. CASE Edit \/ CloseBegin
    BY <1>3, WatchIInv
  <1>4. CASE WatchStep
    BY <1>4, WatchIInv, TimerFiresIInv DEF WatchStep
  <1>5. CASE CloseDrain
    BY <1>5, CloseDrainIInv
  <1>6. CASE UNCHANGED vars
    <2>1. UNCHANGED <<pool, vms, held, built, drain, rpc>> /\ TypeOK'
      BY <1>6 DEF vars, disk, watch, vms, reloads, IInv, TypeOK
    <2>2. ReloadShape'
      BY <2>1 DEF IInv, ReloadShape
    <2> QED BY <2>1, <2>2, StillIInv
  <1> QED BY <1>1, <1>2, <1>3, <1>4, <1>5, <1>6 DEF Next

\* The inductive invariant holds in every behaviour of the pool.
THEOREM PoolInvariant == Spec => []IInv
  BY InitIInv, NextIInv, PTL DEF Spec

\* For every number of VMs, borrowers and reloads: no Lua state is in two hands,
\* the open ones are the ones somebody can still use or will close, and the idle
\* pool keeps within its capacity.
THEOREM PoolIsSound == Spec => []PoolSound
  <1>1. IInv => PoolSound
    BY DEF IInv, PoolSound
  <1> QED BY PoolInvariant, <1>1, PTL

-----------------------------------------------------------------------------

\* What BorrowedUntouched asks of one step and one borrower.
Untouched(b) ==
  held[b] # NoVM /\ held'[b] = held[b] => held[b] \in live' /\ ver'[held[b]] = ver[held[b]]

LEMMA StepUntouched ==
  ASSUME IInv, Next, NEW b \in Borrower
  PROVE  Untouched(b)
  <1> SUFFICES ASSUME held[b] # NoVM, held'[b] = held[b] PROVE held[b] \in live' /\ ver'[held[b]] = ver[held[b]]
    BY DEF Untouched
  <1>1. held[b] \in live /\ held[b] \in VM /\ ver \in [VM -> Version \cup {NoScripts}]
    BY DEF IInv, TypeOK, LiveIsReachable
  \* Steps that build a VM build a new one.
  <1>2. ASSUME NEW v \in VM, NEW n \in Version \cup {NoScripts}, NewState(v, n)
        PROVE  held[b] \in live' /\ ver'[held[b]] = ver[held[b]]
    BY <1>1, <1>2 DEF NewState
  \* Steps that close VMs close others than this borrower's.
  <1>3. ASSUME NEW S, held[b] \notin S, CloseVMs(S)
        PROVE  held[b] \in live' /\ ver'[held[b]] = ver[held[b]]
    BY <1>1, <1>3 DEF CloseVMs
  <1>4. ASSUME NEW c \in Borrower, BorrowerStep(c)
        PROVE  held[b] \in live' /\ ver'[held[b]] = ver[held[b]]
    <2>1. CASE AcquirePooled(c)
      BY <1>1, <2>1 DEF AcquirePooled, vms
    <2>2. CASE AcquireTemporary(c)
      BY <1>2, <2>2 DEF AcquireTemporary, IInv, TypeOK
    <2>3. CASE Release(c)
      <3>1. c # b
        BY <2>3 DEF Release, IInv, TypeOK
      <3>2. held[b] # held[c]
        BY <3>1 DEF IInv, ExclusiveVM
      <3> QED BY <1>1, <1>3, <2>3, <3>2 DEF Release, vms
    <2> QED BY <1>4, <2>1, <2>2, <2>3 DEF BorrowerStep
  <1>5. ASSUME NEW r \in Reloader, ReloaderStep(r)
        PROVE  held[b] \in live' /\ ver'[held[b]] = ver[held[b]]
    <2>1. held[b] \notin Elements(built[r]) /\ held[b] \notin drain[r]
      BY DEF IInv, ExclusiveVM, Owned
    <2>2. CASE ReloadBuild(r)
      BY <1>2, <2>2 DEF ReloadBuild, IInv, TypeOK
    <2>3. CASE ReloadFail(r)
      BY <1>3, <2>1, <2>3 DEF ReloadFail
    <2>4. CASE ReloadSwap(r)
      BY <1>1, <2>4 DEF ReloadSwap, vms
    <2>5. CASE ReloadDrain(r)
      BY <1>3, <2>1, <2>5 DEF ReloadDrain
    <2> QED BY <1>5, <2>2, <2>3, <2>4, <2>5 DEF ReloaderStep
  <1>6. CASE Edit \/ WatchStep \/ CloseBegin
    BY <1>1, <1>6 DEF Edit, WatchStep, WatchEvent, WatchStop, TimerFires, CloseBegin, vms
  <1>7. CASE CloseDrain
    <2>1. held[b] \notin Elements(pool)
      BY DEF IInv, ExclusiveVM
    <2> QED BY <1>3, <1>7, <2>1 DEF CloseDrain
  <1> QED BY <1>4, <1>5, <1>6, <1>7 DEF Next

\* A VM is neither closed nor rebuilt under the handler that runs on it, however
\* reloads, shutdown and the other borrowers interleave.
THEOREM PoolBorrowedUntouched == Spec => BorrowedUntouched
  <1>1. IInv /\ [Next]_vars => [\A b \in Borrower : Untouched(b)]_vars
    BY StepUntouched
  <1>2. [\A b \in Borrower : Untouched(b)]_vars =>
          [\A b \in Borrower :
             held[b] # NoVM /\ held'[b] = held[b] => held[b] \in live' /\ ver'[held[b]] = ver[held[b]]]_vars
    BY DEF Untouched
  <1> QED BY PoolInvariant, <1>1, <1>2, PTL DEF Spec, BorrowedUntouched
=============================================================================
