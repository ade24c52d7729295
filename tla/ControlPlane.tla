---------------------------- MODULE ControlPlane ----------------------------
(***************************************************************************)
(* The simulator's configuration: services/configuration/service.py (the   *)
(* Configuration object and its in-process snapshot) and the actions of    *)
(* technical_flows/configuration/actions.py that change it, describe it    *)
(* and project the flow switches onto the runtime's registry.              *)
(*                                                                         *)
(* One process, one event loop, a database and a Redis hash.  A step is    *)
(* what runs between two suspensions, so a load is two steps: the SELECT   *)
(* that reads the rows, and the assignment of the snapshot once they have  *)
(* arrived.  Between them every other task may run.                        *)
(*                                                                         *)
(* A key is a flow, whose value is its running flag, or a tunable.  A      *)
(* change that validate() or the handler refuses touches nothing and is    *)
(* left out.                                                               *)
(***************************************************************************)
EXTENDS Naturals

CONSTANTS
    Flows,          \* FLOW_SWITCHES
    Mounted,        \* the flows whose enable flags are all set
    Tunables,       \* TUNABLES
    Choices,        \* values a tunable can be given
    Static,         \* what a tunable reads with no override
    Absent,         \* no row
    MaxChanges,     \* bound: changes committed
    MaxFaults       \* bound: crashes, wipes of Redis and failed awaits

ASSUME FlowsAssumption == Mounted \subseteq Flows /\ Flows \intersect Tunables = {}
ASSUME ValuesAssumption ==
    /\ Static \in Choices
    /\ Absent \notin Choices \union BOOLEAN
    /\ MaxChanges \in Nat /\ MaxFaults \in Nat

VARIABLES
    db,             \* the table simulator_setting: key -> value or Absent
    snap,           \* _overrides and _flags
    fresh,          \* the snapshot is younger than its ttl
    registry,       \* the switch registry in Redis: flow -> enabled
    job,            \* the one slot of the service "configuration"
    reload,         \* the background task _reload()
    replay,         \* the boot task replay_flow_flags(), or a process that is down
    pending,        \* history: decisions not carried to the registry since
    contested,      \* history: flows changed, or lost, while replay was running
    changes, faults \* counters for the bounds

tasks == <<job, reload, replay>>
history == <<pending, contested>>
vars == <<db, snap, fresh, registry, job, reload, replay, pending, contested, changes, faults>>

-----------------------------------------------------------------------------
Keys == Flows \union Tunables
Stored(k) == IF k \in Flows THEN BOOLEAN ELSE Choices
Tables == {t \in [Keys -> BOOLEAN \union Choices \union {Absent}] :
              \A k \in Keys : t[k] \in Stored(k) \union {Absent}}

Empty == [k \in Keys |-> Absent]

\* get() and is_running(): the stored value, or what holds when there is none.
\* An absent flag means running.
Effective(table, k) ==
    IF table[k] # Absent THEN table[k] ELSE IF k \in Flows THEN TRUE ELSE Static

\* What describe() reports of the flows.
FlowsOf(table) == [f \in Flows |-> f \in Mounted /\ Effective(table, f)]

NoJob == [op |-> "none", phase |-> "idle"]
NoReload == [phase |-> "idle"]
Down == [phase |-> "down"]

Up == replay.phase # "down"

\* _reload_if_stale: every read of a snapshot that has aged out schedules a
\* reload, one at a time, and is answered from what is there.
Scheduled == IF ~fresh /\ reload = NoReload THEN [phase |-> "asked"] ELSE reload

TypeOK ==
    /\ db \in Tables /\ snap \in Tables
    /\ fresh \in BOOLEAN
    /\ registry \in [Flows -> BOOLEAN]
    /\ job \in {NoJob}
           \union [op : {"apply"}, phase : {"reading", "rereading"}, key : Keys]
           \union [op : {"apply"}, phase : {"read", "reread"}, key : Keys, rows : Tables]
           \union [op : {"apply"}, phase : {"projecting"}, key : Flows, running : BOOLEAN]
           \union [op : {"describe"}, phase : {"rereading"}, flows : [Flows -> BOOLEAN]]
           \union [op : {"describe"}, phase : {"reread"}, flows : [Flows -> BOOLEAN],
                   rows : Tables]
    /\ reload \in {NoReload} \union [phase : {"asked"}] \union [phase : {"read"}, rows : Tables]
    /\ replay \in [phase : {"down", "reading", "failed", "done"}]
           \union [phase : {"read"}, rows : Tables]
           \union [phase : {"looping"}, left : SUBSET Flows]
           \union [phase : {"sending"}, left : SUBSET Flows, flow : Flows, running : BOOLEAN]
    /\ pending \subseteq Flows /\ contested \subseteq Flows
    /\ changes \in 0..MaxChanges /\ faults \in 0..MaxFaults

-----------------------------------------------------------------------------
Init ==
    /\ db = Empty
    /\ snap = Empty
    /\ fresh = FALSE
    /\ registry = [f \in Flows |-> TRUE]
    /\ job = NoJob
    /\ reload = NoReload
    /\ replay = Down
    /\ pending = {}
    /\ contested = {}
    /\ changes = 0
    /\ faults = 0

-----------------------------------------------------------------------------
(* The action config.apply: set, clear, set_running                         *)

\* The change is committed: a row written, or dropped for a None.  From here
\* on the decision stands, whatever happens to the rest of the handler.
Commit(k, v) ==
    /\ Up /\ job = NoJob
    /\ k \in Mounted \union Tunables
    /\ changes < MaxChanges
    /\ db' = [db EXCEPT ![k] = v]
    /\ job' = [op |-> "apply", phase |-> "reading", key |-> k]
    /\ changes' = changes + 1
    /\ pending' = IF k \in Flows THEN pending \union {k} ELSE pending
    /\ contested' = IF k \in Flows /\ replay.phase # "done"
                    THEN contested \union {k} ELSE contested
    /\ UNCHANGED <<snap, fresh, registry, reload, replay, faults>>

\* The SELECT of _load.
JobSelects ==
    /\ job.phase \in {"reading", "rereading"}
    /\ job' = [k \in DOMAIN job \union {"rows"} |->
                 CASE k = "phase" -> (IF job.phase = "reading" THEN "read" ELSE "reread")
                   [] k = "rows" -> db
                   [] OTHER -> job[k]]
    /\ UNCHANGED <<db, snap, fresh, registry, reload, replay, history, changes, faults>>

\* Mutant: the stored flag is returned without the rule for an absent one.
FlagUndefaulted(k) == job.rows[k]

\* Mutant: set_running answers from the snapshot it held before the load.
FlagBeforeLoad(k) == Effective(snap, k)

\* What set_running returns: is_running, with nothing between the load and it.
FlagAfterLoad(k) == Effective(job.rows, k)

\* The load ends: a flow goes on to its projection, a tunable is described.
JobLoads ==
    /\ job.phase = "read"
    /\ snap' = job.rows
    /\ fresh' = TRUE
    /\ job' = IF job.key \in Flows
              THEN [op |-> "apply", phase |-> "projecting", key |-> job.key,
                    running |-> FlagAfterLoad(job.key)]
              ELSE [op |-> "apply", phase |-> "rereading", key |-> job.key]
    /\ UNCHANGED <<db, registry, reload, replay, history, changes, faults>>

\* ctx.set_enabled reaches Redis, and the caller is answered.
JobProjects ==
    /\ job.phase = "projecting"
    /\ registry' = [registry EXCEPT ![job.key] = job.running]
    /\ pending' = pending \ {job.key}
    /\ job' = NoJob
    /\ UNCHANGED <<db, snap, fresh, reload, replay, contested, changes, faults>>

\* Any await of the handler raises: the caller is told it failed.
JobFails ==
    /\ job # NoJob
    /\ faults < MaxFaults
    /\ faults' = faults + 1
    /\ job' = NoJob
    /\ UNCHANGED <<db, snap, fresh, registry, reload, replay, history, changes>>

-----------------------------------------------------------------------------
(* The action config.describe                                               *)

\* The flows are read from the snapshot before the snapshot is refreshed.
Describe ==
    /\ Up /\ job = NoJob
    /\ job' = [op |-> "describe", phase |-> "rereading", flows |-> FlowsOf(snap)]
    /\ reload' = Scheduled
    /\ UNCHANGED <<db, snap, fresh, registry, replay, history, changes, faults>>

\* describe() of the configuration has reloaded, and the caller is answered:
\* the end of config.describe, and of config.apply for a tunable.
JobDescribes ==
    /\ job.phase = "reread"
    /\ snap' = job.rows
    /\ fresh' = TRUE
    /\ job' = NoJob
    /\ UNCHANGED <<db, registry, reload, replay, history, changes, faults>>

-----------------------------------------------------------------------------
(* The snapshot's background reload                                         *)

\* CACHE_TTL_SECONDS have passed since _loaded_at.
Expire ==
    /\ fresh
    /\ fresh' = FALSE
    /\ UNCHANGED <<db, snap, registry, tasks, history, changes, faults>>

\* Somebody else, the arrivals tick or a journey, reads a stale snapshot.
ReadStale ==
    /\ Up /\ ~fresh
    /\ reload = NoReload
    /\ reload' = Scheduled
    /\ UNCHANGED <<db, snap, fresh, registry, job, replay, history, changes, faults>>

ReloadSelects ==
    /\ reload.phase = "asked"
    /\ reload' = [phase |-> "read", rows |-> db]
    /\ UNCHANGED <<db, snap, fresh, registry, job, replay, history, changes, faults>>

ReloadLoads ==
    /\ reload.phase = "read"
    /\ snap' = reload.rows
    /\ fresh' = TRUE
    /\ reload' = NoReload
    /\ UNCHANGED <<db, registry, job, replay, history, changes, faults>>

\* Mutant: _reloading is not reset when the reload raises.
ReloadFailsForGood ==
    /\ reload # NoReload
    /\ faults < MaxFaults
    /\ faults' = faults + 1
    /\ reload' = [phase |-> "lost"]
    /\ UNCHANGED <<db, snap, fresh, registry, job, replay, history, changes>>

\* The last values stay in force, and the next stale read tries again.
ReloadFails ==
    /\ reload # NoReload
    /\ faults < MaxFaults
    /\ faults' = faults + 1
    /\ reload' = NoReload
    /\ UNCHANGED <<db, snap, fresh, registry, job, replay, history, changes>>

-----------------------------------------------------------------------------
(* Boot, and what it restores                                               *)

\* The process starts.  A lifespan that refreshes has loaded the snapshot by
\* now; a deployment without such a service starts with an empty one.
Boot ==
    /\ ~Up
    /\ \/ snap' = db /\ fresh' = TRUE
       \/ snap' = Empty /\ fresh' = FALSE
    /\ replay' = [phase |-> "reading"]
    /\ pending' = pending \union contested
    /\ contested' = {}
    /\ UNCHANGED <<db, registry, job, reload, changes, faults>>

ReplaySelects ==
    /\ replay.phase = "reading"
    /\ replay' = [phase |-> "read", rows |-> db]
    /\ UNCHANGED <<db, snap, fresh, registry, job, reload, history, changes, faults>>

\* Mutant: only the flows that are paused are projected.
ReplayedPaused == {f \in Flows : ~Effective(snap', f)}

\* All of them, so that the registry converges on the database.
Replayed == Flows

ReplayLoads ==
    /\ replay.phase = "read"
    /\ snap' = replay.rows
    /\ fresh' = TRUE
    /\ replay' = [phase |-> "looping", left |-> Replayed]
    /\ UNCHANGED <<db, registry, job, reload, history, changes, faults>>

\* The next flow's flag is read from the snapshot and sent to Redis.  The order
\* of the flows is fixed in the code and left open here.
ReplaySends(f) ==
    /\ replay.phase = "looping"
    /\ f \in replay.left
    /\ replay' = [phase |-> "sending", left |-> replay.left \ {f},
                  flow |-> f, running |-> Effective(snap, f)]
    /\ reload' = Scheduled
    /\ UNCHANGED <<db, snap, fresh, registry, job, history, changes, faults>>

ReplayLands ==
    /\ replay.phase = "sending"
    /\ registry' = [registry EXCEPT ![replay.flow] = replay.running]
    /\ replay' = [phase |-> "looping", left |-> replay.left]
    /\ pending' = pending \ {replay.flow}
    /\ UNCHANGED <<db, snap, fresh, job, reload, contested, changes, faults>>

ReplayEnds ==
    /\ replay.phase = "looping"
    /\ replay.left = {}
    /\ replay' = [phase |-> "done"]
    /\ reload' = Scheduled
    /\ UNCHANGED <<db, snap, fresh, registry, job, history, changes, faults>>

\* The refresh or a set_enabled raises, and the rest is not replayed.
ReplayFails ==
    /\ replay.phase \in {"reading", "read", "looping", "sending"}
    /\ faults < MaxFaults
    /\ faults' = faults + 1
    /\ replay' = [phase |-> "failed"]
    /\ UNCHANGED <<db, snap, fresh, registry, job, reload, history, changes>>

Crash ==
    /\ Up
    /\ faults < MaxFaults
    /\ faults' = faults + 1
    /\ snap' = Empty
    /\ fresh' = FALSE
    /\ job' = NoJob
    /\ reload' = NoReload
    /\ replay' = Down
    /\ UNCHANGED <<db, registry, history, changes>>

\* Redis is transport: no volume, append-only file off.
WipeRedis ==
    /\ faults < MaxFaults
    /\ faults' = faults + 1
    /\ registry' = [f \in Flows |-> TRUE]
    /\ pending' = Flows
    /\ contested' = IF replay.phase = "done" THEN contested ELSE Flows
    /\ UNCHANGED <<db, snap, fresh, tasks, changes>>

-----------------------------------------------------------------------------
Next ==
    \/ \E k \in Keys : \E v \in Stored(k) \union {Absent} : Commit(k, v)
    \/ JobSelects
    \/ JobLoads
    \/ JobProjects
    \/ JobFails
    \/ Describe
    \/ JobDescribes
    \/ Expire
    \/ ReadStale
    \/ ReloadSelects
    \/ ReloadLoads
    \/ ReloadFails
    \/ Boot
    \/ ReplaySelects
    \/ ReplayLoads
    \/ \E f \in Flows : ReplaySends(f)
    \/ ReplayLands
    \/ ReplayEnds
    \/ ReplayFails
    \/ Crash
    \/ WipeRedis

Spec == Init /\ [][Next]_vars

\* A container that stops is restarted; the loop runs every task that can run;
\* time passes; and somebody reads the configuration again and again (the
\* arrivals tick, each customer's journey).
Fairness ==
    /\ WF_vars(Boot)
    /\ WF_vars(JobSelects) /\ WF_vars(JobLoads) /\ WF_vars(JobProjects) /\ WF_vars(JobDescribes)
    /\ WF_vars(ReplaySelects) /\ WF_vars(ReplayLoads) /\ WF_vars(ReplayLands)
    /\ WF_vars(ReplayEnds) /\ WF_vars(\E f \in Flows : ReplaySends(f))
    /\ WF_vars(Expire) /\ WF_vars(ReadStale)
    /\ WF_vars(ReloadSelects) /\ WF_vars(ReloadLoads)

FairSpec == Spec /\ Fairness

-----------------------------------------------------------------------------
(* Properties                                                               *)

\* The registry enforces what the database decided, for every flow whose last
\* decision has been carried over, and that was neither changed nor lost while
\* the boot replay was running.
CarriedAsDecided ==
    \A f \in Flows \ (pending \union contested) : registry[f] = Effective(db, f)

\* A replay that runs to its end leaves no decision behind: neither one whose
\* projection failed, nor one a crash or a wipe of Redis took away.
ReplayCarriesAll ==
    [][replay.phase = "looping" /\ replay'.phase = "done" => pending' \subseteq contested']_vars

\* A change of a flow is answered with what the database says at that moment,
\* even while reloads and the replay overwrite the snapshot.
AnswersTheDecision ==
    [][JobProjects => registry'[job.key] = Effective(db, job.key)]_vars

\* A snapshot that differs from the database catches up with it, through failed
\* reloads and through late ones that bring older rows back.
SnapshotCatchesUp == (snap # db) ~> (snap = db)

-----------------------------------------------------------------------------
(* What a comment of the code says and the code does not do                 *)

\* replay_flow_flags: "so the registry converges on the database".
RegistryConverges ==
    \A f \in Flows \ pending : replay.phase = "done" => registry[f] = Effective(db, f)
=============================================================================
