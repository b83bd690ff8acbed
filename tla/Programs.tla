------------------------------ MODULE Programs ------------------------------
(***************************************************************************)
(* The parts beside the game's own state: the job queue (Jobs), the admin  *)
(* service (Admin), the hot reload of the rates (Config), the synthesis of *)
(* stored procedures (Synth), the login conversation and its layers        *)
(* (Wire), the codecs it is made of (CodecSamples), the load generator     *)
(* (Loadgen), the end-to-end client (TinyClient), mail between players     *)
(* (Mail), groups and instances (Party) and the way of log records         *)
(* (LogPipeline).  They share no state, so a behaviour is one of one of    *)
(* them, and the others' variables are idle.                               *)
(***************************************************************************)
EXTENDS Integers, FiniteSets

CONSTANTS
    Parts,      \* the parts there are behaviours of
    Vms, OtherKinds, Validity, MaxTasks, MaxRetry, MaxClock, MaxCrashes, MaxFaults,
    Users, Clients, Ips, Burst, Cost, EvictAfter, TTL, MaxHold, MaxChanges,
    MaxSaves,
    Numbers, MaxRows, MaxRounds, DiffCap,
    Kinds, Servers,
    Word, Byte, LengthMod, AccountMax, PasswordMax, MaxWords, MaxBytes, MaxSize,
    Workers, MaxSessions,
    MaxAttacks, MaxPushed,
    Sessions, Chars, Items, NoItem, Attached, SendFee, Purse, MaxMails, MaxMailFaults,
    Players, PartyVms, Templates, MinMembers, MaxMembers, Lifetime, Reentrance, MaxLogins,
    Record, Backlog, Publishers, NoRecord, BufferSize, BatchRows, MaxLogFaults

\* Jobs: the bounds on retries and on ends of the World are numbers.
ASSUME JobsAssumption == MaxRetry \in Nat /\ MaxCrashes \in Nat

\* Admin: the logins are named after their roles, a client has an address, and a
\* bucket refills before it counts as idle (idleEvictAfter against the limits of
\* newRateLimiter).
ASSUME AdminAssumption ==
    /\ Users \subseteq {"superadmin", "gm", "readonly"} /\ Ips # {}
    /\ Burst \in Nat /\ Cost \in Nat /\ EvictAfter \in Nat /\ TTL \in Nat
    /\ MaxHold \in Nat /\ MaxChanges \in Nat
    /\ Burst * Cost <= EvictAfter + 1

\* Synth: values are multiples of half the tolerance, and differences are kept
\* (diffCap is 100).
ASSUME SynthAssumption ==
    Numbers \subseteq Int /\ IsFiniteSet(Numbers) /\ MaxRows \in Nat /\ DiffCap \in Nat \ {0}

\* Wire: the server list has a number of entries.
ASSUME WireAssumption == Servers \in Nat

\* Mail: the sessions' characters exist, there are finitely many of them, and
\* amounts are numbers.
ASSUME MailAssumption ==
    /\ {"a", "b"} \subseteq Chars /\ NoItem \notin Items
    /\ IsFiniteSet(Sessions) /\ IsFiniteSet(Chars)
    /\ Attached \subseteq Nat /\ SendFee \in Nat /\ Purse \in Nat

\* Loadgen: a run has a number of workers.
ASSUME LoadAssumption == IsFiniteSet(Workers)

\* Party: there is a VM, a player logs in at least once, and times are numbers.
ASSUME PartyAssumption == "v1" \in PartyVms /\ MaxLogins \in Nat \ {0} /\ Reentrance \in Nat

\* LogPipeline: finitely many records are logged, and they are told from none; the
\* channel has room and a full batch has rows.
ASSUME LogAssumption ==
    /\ NoRecord \notin Record /\ Backlog \subseteq Record /\ IsFiniteSet(Record)
    /\ BufferSize \in Nat \ {0} /\ BatchRows \in Nat \ {0} /\ MaxLogFaults \in Nat

VARIABLES
    part,
    world, bundle, serving, runs, nextRun, tasks, work, handled, misfire, clock, crashes, faults,
    store, users, buckets, pending, tokens, last, changes, paid, since,
    file, saving, watched, events, timer, reloads, loop, rates, told, crossed, unseen,
    phase, validator, left, diffs, method, passed, textOrder, allSame, allPermuted,
    kind, gw, step, toClient, toGateway,
    sample,
    running, pc, failedRun, started, active, success, failed, errors, tolerated, unobserved, loggedOut,
    endStage, at, tries, split, status, requests, inbox, pushed, wired, has, inWorld, mob, seenDeath,
    given,
    purse, item, mails, written, inserted, call, used, twice, overtaken, mailFaults,
    scale, logins, online, groups, memberGroup, invites, nextGroup, instances, memberInstance, charRun,
    nextInstance, creating, reentry, expiries, hour, mishaps, entered, rewarded, twiceCleared,
    joinedTwice, uncleared,
    log, ch, close, dropped, publishing, stage, durable, ready, cb, tick, stop, batch, sealed, conn,
    buffered, table, acked, harm

jobs == <<world, bundle, serving, runs, nextRun, tasks, work, handled, misfire, clock, crashes,
          faults>>
admin == <<store, users, buckets, pending, tokens, last, changes, paid, since>>
config == <<file, saving, watched, events, timer, reloads, loop, rates, told, crossed, unseen>>
synth == <<phase, validator, left, diffs, method, passed, textOrder, allSame, allPermuted>>
wire == <<kind, gw, step, toClient, toGateway>>
load == <<running, pc, failedRun, started, active, success, failed, errors, tolerated, unobserved,
          loggedOut>>
tiny == <<endStage, at, tries, split, status, requests, inbox, pushed, wired, has, inWorld, mob,
          seenDeath, given>>
mail == <<purse, item, mails, written, inserted, call, used, twice, overtaken, mailFaults>>
party == <<scale, logins, online, groups, memberGroup, invites, nextGroup, instances, memberInstance,
           charRun, nextInstance, creating, reentry, expiries, hour, mishaps, entered, rewarded,
           twiceCleared, joinedTwice, uncleared>>
logging == <<log, ch, close, dropped, publishing, stage, durable, ready, cb, tick, stop, batch,
             sealed, conn, buffered, table, acked, harm>>
all == <<part, jobs, admin, config, synth, wire, sample, load, tiny, mail, party, logging>>

\* Every client of the admin service comes from one address.
A == INSTANCE Admin WITH IpOf <- [c \in Clients |-> CHOOSE ip \in Ips : TRUE]
J == INSTANCE Jobs
R == INSTANCE Config
S == INSTANCE Synth
W == INSTANCE Wire
C == INSTANCE CodecSamples
L == INSTANCE Loadgen
T == INSTANCE TinyClient WITH MaxRounds <- MaxAttacks
\* The first of the characters may have several sessions.
M == INSTANCE Mail WITH CharOf <- [s \in Sessions |-> IF s = "s2" THEN "b" ELSE "a"]
\* Three players and two groups; two players, two runs and a mishap; two VMs,
\* each with its own tables.
ScaleOf(cast, vms, groupsMax, runsMax, hours, most) ==
    [cast |-> cast, vms |-> vms, templates |-> Templates, groups |-> groupsMax, runs |-> runsMax,
     hours |-> hours, mishaps |-> most]
P == INSTANCE Party WITH
        Scales <- {ScaleOf(Players, {"v1"}, 2, 1, 1, 0), ScaleOf({"a", "b"}, {"v1"}, 1, 2, 2, 1),
                   ScaleOf({"a", "b"}, PartyVms, 1, 1, 1, 0)}
G == INSTANCE LogPipeline WITH Worker <- Publishers, work <- publishing, MaxRows <- BatchRows,
                               MaxFaults <- MaxLogFaults, None <- NoRecord

\* Codec: words and bytes have a number of bits, a byte more than none, so that the
\* exclusive or of two is one again; the length header can say the lengths of the
\* packets Sizes ends with, and a sequence has a length.
ASSUME CodecAssumption ==
    /\ Word \in Nat \ {0} /\ \A x, y \in 0..(Word - 1) : C!Xor[x][y] < Word
    /\ Byte \in Nat \ {0, 1} /\ \A x, y \in 0..(Byte - 1) : C!Xor[x][y] < Byte
    /\ LengthMod \in Nat /\ LengthMod > 18
    /\ AccountMax \in Nat /\ PasswordMax \in Nat /\ MaxWords \in Nat /\ MaxBytes \in Nat

Idle == "idle"
JobsIdle == /\ world = Idle /\ bundle = Idle /\ serving = FALSE /\ runs = <<>> /\ nextRun = <<>>
            /\ tasks = {} /\ work = {} /\ handled = <<>> /\ misfire = FALSE /\ clock = 0
            /\ crashes = 0 /\ faults = 0
AdminIdle == /\ store = Idle /\ users = Idle /\ buckets = Idle /\ pending = Idle /\ tokens = Idle
             /\ last = Idle /\ changes = 0 /\ paid = Idle /\ since = Idle
ConfigIdle == /\ file = Idle /\ saving = FALSE /\ watched = FALSE /\ events = 0 /\ timer = FALSE
              /\ reloads = {} /\ loop = Idle /\ rates = Idle /\ told = Idle /\ crossed = FALSE
              /\ unseen = FALSE
SynthIdle == /\ phase = Idle /\ validator = Idle /\ left = 0 /\ diffs = 0 /\ method = Idle
             /\ passed = FALSE /\ textOrder = Idle /\ allSame = TRUE /\ allPermuted = FALSE
WireIdle == kind = Idle /\ gw = Idle /\ step = 0 /\ toClient = <<>> /\ toGateway = <<>>
CodecIdle == sample = [alg |-> Idle]
LoadIdle == /\ running = FALSE /\ pc = <<>> /\ failedRun = <<>> /\ started = 0 /\ active = 0
            /\ success = 0 /\ failed = 0 /\ errors = 0 /\ tolerated = 0 /\ unobserved = 0
            /\ loggedOut = 0
TinyIdle == /\ endStage = Idle /\ at = Idle /\ tries = 0 /\ split = FALSE /\ status = Idle
            /\ requests = {} /\ inbox = <<>> /\ pushed = 0 /\ wired = FALSE /\ has = 0
            /\ inWorld = FALSE /\ mob = "alive" /\ seenDeath = FALSE /\ given = FALSE
MailIdle == /\ purse = Idle /\ item = Idle /\ mails = {} /\ written = 0 /\ inserted = 0
            /\ call = Idle /\ used = 0 /\ twice = FALSE /\ overtaken = FALSE /\ mailFaults = 0
PartyIdle == /\ scale = Idle /\ logins = Idle /\ online = {} /\ groups = Idle /\ memberGroup = Idle
             /\ invites = Idle /\ nextGroup = Idle /\ instances = Idle /\ memberInstance = Idle
             /\ charRun = Idle /\ nextInstance = Idle /\ creating = Idle /\ reentry = Idle
             /\ expiries = {} /\ hour = 0 /\ mishaps = 0 /\ entered = {} /\ rewarded = Idle
             /\ twiceCleared = FALSE /\ joinedTwice = FALSE /\ uncleared = FALSE
LogIdle == /\ log = Idle /\ ch = <<>> /\ close = Idle /\ dropped = 0 /\ publishing = Idle
           /\ stage = Idle /\ durable = FALSE /\ ready = {} /\ cb = G!Idle /\ tick = Idle
           /\ stop = Idle /\ batch = Idle /\ sealed = FALSE /\ conn = FALSE /\ buffered = 0
           /\ table = Idle /\ acked = {} /\ harm = Idle

Init == /\ part \in Parts
        /\ IF part = "jobs" THEN J!Init ELSE JobsIdle
        /\ IF part = "admin" THEN A!Init ELSE AdminIdle
        /\ IF part = "config" THEN R!Init ELSE ConfigIdle
        /\ IF part = "synth" THEN S!Init ELSE SynthIdle
        /\ IF part = "wire" THEN W!Init ELSE WireIdle
        /\ IF part = "codec" THEN C!Init ELSE CodecIdle
        /\ IF part = "loadgen" THEN L!Init ELSE LoadIdle
        /\ IF part = "tinyclient" THEN T!Init ELSE TinyIdle
        /\ IF part = "mail" THEN M!Init ELSE MailIdle
        /\ IF part = "party" THEN P!Init ELSE PartyIdle
        /\ IF part = "log" THEN G!Init ELSE LogIdle

Next == \/ part = "jobs" /\ J!Next
           /\ UNCHANGED <<part, admin, config, synth, wire, sample, load, tiny, mail, party, logging>>
        \/ part = "admin" /\ A!Next
           /\ UNCHANGED <<part, jobs, config, synth, wire, sample, load, tiny, mail, party, logging>>
        \/ part = "config" /\ R!Next
           /\ UNCHANGED <<part, jobs, admin, synth, wire, sample, load, tiny, mail, party, logging>>
        \/ part = "synth" /\ S!Next
           /\ UNCHANGED <<part, jobs, admin, config, wire, sample, load, tiny, mail, party, logging>>
        \/ part = "wire" /\ W!Next
           /\ UNCHANGED <<part, jobs, admin, config, synth, sample, load, tiny, mail, party, logging>>
        \/ part = "codec" /\ C!Next
           /\ UNCHANGED <<part, jobs, admin, config, synth, wire, load, tiny, mail, party, logging>>
        \/ part = "loadgen" /\ L!Next
           /\ UNCHANGED <<part, jobs, admin, config, synth, wire, sample, tiny, mail, party, logging>>
        \/ part = "tinyclient" /\ T!Next
           /\ UNCHANGED <<part, jobs, admin, config, synth, wire, sample, load, mail, party, logging>>
        \/ part = "mail" /\ M!Next
           /\ UNCHANGED <<part, jobs, admin, config, synth, wire, sample, load, tiny, party, logging>>
        \/ part = "party" /\ P!Next
           /\ UNCHANGED <<part, jobs, admin, config, synth, wire, sample, load, tiny, mail,
                         logging>>
        \/ part = "log" /\ G!Next
           /\ UNCHANGED <<part, jobs, admin, config, synth, wire, sample, load, tiny, mail, party>>

\* Elsewhere no step of the job queue, and none of the log pipeline, is enabled.
Spec == Init /\ [][Next]_all /\ J!Fairness /\ G!Fairness

-----------------------------------------------------------------------------
\* Jobs: a task Redis accepted is handled or still there, and without a fault
\* or an end of the World its handler runs once (bundle.go, workers.go).
NothingLost == part = "jobs" => J!TypeOK /\ J!NothingLost /\ J!OnceWithoutFault
\* Jobs: an expiry of an earlier process drops no new run (workers.go:241).
StaleRejected == part = "jobs" => J!StaleRejected
\* Jobs: a task in Redis is handled or archived (Bundle.Start, Close).
EveryTaskSettles == part = "jobs" => J!EveryTaskSettles
\* Admin: no key is granted more than its bucket holds, eviction included (allow, gcLoop).
LimitHolds == part = "admin" => A!TypeOK /\ A!LimitHolds
\* Admin: what a request may do, its user held when the token was made (authMiddleware).
RightsVerified == part = "admin" => A!RightsVerified
\* Config: a settled cache has what the file says, and a save that does not
\* parse leaves the old rates (watchLoop, reloadRates).
RatesSound == part = "config" => R!Fresh /\ R!NeverBroken
\* Synth: passed evidence means the same rows, in whatever order (Synth,
\* Validate, CompareOutputs).
EvidenceSound == part = "synth" => S!PassedMeansSame /\ S!OrderIgnored
\* Wire: both sides take off the layers the other put on, and never both wait
\* for the other (readAuthPacket, sendAuthPacket of the gateway against the
\* clients).
AuthDialogue == part = "wire" => W!Understood /\ W!NoMutualWait
\* Codec: what one side encodes the other gets back: the XOR pass of SM_KEY, its
\* checksum and modulus, the credentials, the XOR stream over two packets, the
\* opcodes, a stream cut into packets, and their fields (encXORPass,
\* sendAuthPacket, UnscrambleModulus, ParseCredentials, XORCipher, opcodeXORMask,
\* ReadPacketFromConn, Packet).
CodecsInvert ==
    /\ C!PassUndone /\ C!ChecksumClear /\ C!ModulusBack /\ C!CredentialsBack
    /\ C!StreamInStep /\ C!OpcodesApart /\ C!FramesKept /\ C!FieldsBack
\* Loadgen: a scrape finds every session counted once, and failures are
\* explained when the run is over (runWorker).
CountsTrue == part = "loadgen" => L!Balanced /\ L!FailuresExplained
\* TinyClient: exit status 0 is earned (gamePhase).
ExitZeroEarned == T!ExitZeroEarned
\* Mail: kinah is neither made nor lost by overlapping sends, claims and
\* deletions (mail.send, mail.claim, mail.delete).
KinahAccounted == part = "mail" => M!KinahAccounted
\* Mail: an item in the mail warehouse has one mail (aion_mailwrite,
\* aion_mailgetitem, aion_maildelete).
AttachmentsHeld == part = "mail" => M!AttachmentsHeld
\* Party: a pointer of a player leads to a roster that has it, nobody is in two
\* rosters or twice in one (group.lua, instance.lua).
RostersSound == part = "party" => P!PointersSound /\ P!RostersApart
\* Party: a create that fails half way leaves nobody on cooldown (instance.create).
ChargedForEntry == part = "party" => P!ChargedForEntry
\* LogPipeline: when Close returns without an error, no record is left in the
\* channel or with a worker (sloghandler.go, "Close must flush").
CloseFlushes == part = "log" => G!CloseFlushes
\* LogPipeline: every record acknowledged to the stream is in a batch or in the
\* table, none twice, and no batch grows to twice its limit, but for the faults
\* that excuse it (consumer, ticker and shutdown of logd).
RowsKept == part = "log" => G!RowsKept
\* LogPipeline: what the stream holds is acknowledged in the end.
MessageHandled == part = "log" => G!MessageHandled
=============================================================================
