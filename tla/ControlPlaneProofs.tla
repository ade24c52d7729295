------------------------- MODULE ControlPlaneProofs -------------------------
(***************************************************************************)
(* Proofs about the configuration service, for any sets of flows, tunables *)
(* and values, and any number of changes and faults.                       *)
(***************************************************************************)
EXTENDS ControlPlane, TLAPS

-----------------------------------------------------------------------------
(* Types                                                                    *)

\* A snapshot that is empty is a table, and so is one after a change.
LEMMA EmptyIsTable == Empty \in Tables
BY DEF Empty, Tables

LEMMA ChangeIsTable ==
    ASSUME NEW t \in Tables, NEW k \in Keys, NEW v \in Stored(k) \union {Absent}
    PROVE  [t EXCEPT ![k] = v] \in Tables
<1>1. Stored(k) \subseteq BOOLEAN \union Choices
  BY DEF Stored
<1>2. QED
  BY <1>1 DEF Tables

\* A flow's effective flag is a flag.
LEMMA FlagType ==
    ASSUME NEW t \in Tables, NEW f \in Flows
    PROVE  Effective(t, f) \in BOOLEAN
BY DEF Effective, Tables, Keys, Stored

LEMMA FlowsOfType == \A t \in Tables : FlowsOf(t) \in [Flows -> BOOLEAN]
BY FlagType DEF FlowsOf

LEMMA TypeInit == Init => TypeOK
<1> SUFFICES ASSUME Init PROVE TypeOK
  OBVIOUS
<1>1. replay \in [phase : {"down", "reading", "failed", "done"}]
  BY DEF Init, Down
<1>2. registry \in [Flows -> BOOLEAN] /\ changes \in 0..MaxChanges /\ faults \in 0..MaxFaults
  BY ValuesAssumption DEF Init
<1>3. QED
  BY <1>1, <1>2, EmptyIsTable DEF Init, TypeOK

LEMMA TypeStep == TypeOK /\ [Next]_vars => TypeOK'
<1> SUFFICES ASSUME TypeOK, [Next]_vars PROVE TypeOK'
  OBVIOUS
<1>1. ASSUME NEW k \in Keys, NEW v \in Stored(k) \union {Absent}, Commit(k, v)
      PROVE TypeOK'
  <2>1. db' \in Tables
    BY <1>1, ChangeIsTable DEF Commit, TypeOK
  <2>2. job' \in [op : {"apply"}, phase : {"reading", "rereading"}, key : Keys]
    BY <1>1 DEF Commit
  <2>3. changes' \in 0..MaxChanges
    BY <1>1, ValuesAssumption DEF Commit, TypeOK
  <2>4. QED
    BY <1>1, <2>1, <2>2, <2>3 DEF Commit, TypeOK
<1>2. ASSUME JobSelects PROVE TypeOK'
  <2>1. CASE job \in [op : {"apply"}, phase : {"reading", "rereading"}, key : Keys]
    <3>1. job' \in [op : {"apply"}, phase : {"read", "reread"}, key : Keys, rows : Tables]
      <4>1. DOMAIN job \union {"rows"} = {"op", "phase", "key", "rows"}
        BY <2>1
      <4>2. job' = [op |-> "apply", phase |-> IF job.phase = "reading" THEN "read" ELSE "reread",
                    key |-> job.key, rows |-> db]
        BY <1>2, <2>1, <4>1 DEF JobSelects
      <4>3. QED
        BY <2>1, <4>2 DEF TypeOK
    <3>2. QED
      BY <1>2, <3>1 DEF JobSelects, TypeOK, history
  <2>2. CASE job \in [op : {"describe"}, phase : {"rereading"}, flows : [Flows -> BOOLEAN]]
    <3>1. job' \in [op : {"describe"}, phase : {"reread"}, flows : [Flows -> BOOLEAN],
                    rows : Tables]
      <4>1. DOMAIN job \union {"rows"} = {"op", "phase", "flows", "rows"}
        BY <2>2
      <4>2. job' = [op |-> "describe", phase |-> "reread", flows |-> job.flows, rows |-> db]
        BY <1>2, <2>2, <4>1 DEF JobSelects
      <4>3. QED
        BY <2>2, <4>2 DEF TypeOK
    <3>2. QED
      BY <1>2, <3>1 DEF JobSelects, TypeOK, history
  <2>3. QED
    BY <1>2, <2>1, <2>2 DEF JobSelects, TypeOK, NoJob
<1>3. ASSUME JobLoads PROVE TypeOK'
  BY <1>3, FlagType DEF JobLoads, FlagAfterLoad, TypeOK, history, NoJob
<1>4. ASSUME JobProjects PROVE TypeOK'
  BY <1>4 DEF JobProjects, TypeOK, NoJob
<1>5. ASSUME JobFails PROVE TypeOK'
  BY <1>5, ValuesAssumption DEF JobFails, TypeOK, history
<1>6. ASSUME Describe PROVE TypeOK'
  BY <1>6, FlowsOfType DEF Describe, TypeOK, Scheduled, NoReload, history
<1>7. ASSUME JobDescribes PROVE TypeOK'
  BY <1>7 DEF JobDescribes, TypeOK, history, NoJob
<1>8. ASSUME Expire PROVE TypeOK'
  BY <1>8 DEF Expire, TypeOK, tasks, history
<1>9. ASSUME ReadStale PROVE TypeOK'
  BY <1>9 DEF ReadStale, TypeOK, Scheduled, NoReload, history
<1>10. ASSUME ReloadSelects PROVE TypeOK'
  BY <1>10 DEF ReloadSelects, TypeOK, history
<1>11. ASSUME ReloadLoads PROVE TypeOK'
  BY <1>11 DEF ReloadLoads, TypeOK, NoReload, history
<1>12. ASSUME ReloadFails PROVE TypeOK'
  BY <1>12, ValuesAssumption DEF ReloadFails, TypeOK, history
<1>13. ASSUME Boot PROVE TypeOK'
  BY <1>13, EmptyIsTable DEF Boot, TypeOK
<1>14. ASSUME ReplaySelects PROVE TypeOK'
  BY <1>14 DEF ReplaySelects, TypeOK, history
<1>15. ASSUME ReplayLoads PROVE TypeOK'
  BY <1>15 DEF ReplayLoads, Replayed, TypeOK, history
<1>16. ASSUME NEW f \in Flows, ReplaySends(f) PROVE TypeOK'
  BY <1>16, FlagType DEF ReplaySends, TypeOK, Scheduled, NoReload, history
<1>17. ASSUME ReplayLands PROVE TypeOK'
  BY <1>17 DEF ReplayLands, TypeOK
<1>18. ASSUME ReplayEnds PROVE TypeOK'
  BY <1>18 DEF ReplayEnds, TypeOK, Scheduled, NoReload, history
<1>19. ASSUME ReplayFails PROVE TypeOK'
  BY <1>19, ValuesAssumption DEF ReplayFails, TypeOK, history
<1>20. ASSUME Crash PROVE TypeOK'
  <2>1. replay' \in [phase : {"down", "reading", "failed", "done"}]
    BY <1>20 DEF Crash, Down
  <2>2. faults' \in 0..MaxFaults
    BY <1>20, ValuesAssumption DEF Crash, TypeOK
  <2>3. QED
    BY <1>20, <2>1, <2>2, EmptyIsTable DEF Crash, TypeOK, history
<1>21. ASSUME WipeRedis PROVE TypeOK'
  BY <1>21, ValuesAssumption DEF WipeRedis, TypeOK, tasks
<1>22. CASE UNCHANGED vars
  BY <1>22 DEF vars, TypeOK
<1>23. QED
  BY <1>1, <1>2, <1>3, <1>4, <1>5, <1>6, <1>7, <1>8, <1>9, <1>10, <1>11, <1>12,
     <1>13, <1>14, <1>15, <1>16, <1>17, <1>18, <1>19, <1>20, <1>21, <1>22 DEF Next

\* Every variable keeps its type: a job, a reload and a replay carry rows,
\* flags and flows exactly in the phases that use them.
THEOREM TypeCorrect == Spec => []TypeOK
BY TypeInit, TypeStep, PTL DEF Spec

-----------------------------------------------------------------------------
(* What is carried                                                          *)

\* One job at a time, and only a job writes the database: what its SELECT
\* brought is still what the database says, and so is the flag it will project.
JobIsCurrent ==
    /\ job.phase \in {"read", "reread"} => job.rows = db
    /\ job.phase = "projecting" => job.running = Effective(db, job.key)

\* Nothing runs in a process that is down.
DownIsIdle == ~Up => job = NoJob /\ reload = NoReload

\* Rows that agree with the database on every flow that was not changed while
\* the replay was running.
Current(rows) == \A f \in Flows \ contested : rows[f] = db[f]

\* Until the replay is done, older rows that a late reload brings differ from
\* the database in contested flows only, and so does the snapshot the replay
\* reads its flags from, whoever wrote it last.
ReplayIsCurrent ==
    /\ replay.phase # "done" /\ reload.phase = "read" => Current(reload.rows)
    /\ replay.phase = "read" => Current(replay.rows)
    /\ replay.phase \in {"looping", "sending"} => Current(snap)
    /\ replay.phase = "sending" =>
           replay.flow \in contested \/ replay.running = Effective(db, replay.flow)

\* What is pending while the replay runs is what it has still to send.
ReplayOwes ==
    /\ replay.phase = "looping" => pending \subseteq replay.left \union contested
    /\ replay.phase = "sending" =>
           pending \subseteq replay.left \union {replay.flow} \union contested

CInv ==
    TypeOK /\ JobIsCurrent /\ DownIsIdle /\ ReplayIsCurrent /\ ReplayOwes /\ CarriedAsDecided

-----------------------------------------------------------------------------
LEMMA CarriedInit == Init => CInv
<1> SUFFICES ASSUME Init PROVE CInv
  OBVIOUS
<1>1. TypeOK
  BY TypeInit
<1>2. \A f \in Flows : registry[f] = Effective(db, f)
  BY DEF Init, Effective, Empty, Keys
<1>3. QED
  BY <1>1, <1>2 DEF Init, CInv, JobIsCurrent, DownIsIdle, ReplayIsCurrent, ReplayOwes,
                    CarriedAsDecided, NoJob, NoReload, Down, Up

LEMMA CarriedStep == CInv /\ [Next]_vars => CInv'
<1> SUFFICES ASSUME CInv, [Next]_vars PROVE CInv'
  OBVIOUS
<1> USE DEF CInv
<1>0. TypeOK'
  BY TypeStep
<1>1. ASSUME NEW k \in Keys, NEW v \in Stored(k) \union {Absent}, Commit(k, v) PROVE CInv'
  <2>1. \A f \in Flows : f # k => db'[f] = db[f] /\ Effective(db', f) = Effective(db, f)
    BY <1>1 DEF Commit, TypeOK, Tables, Effective
  <2>2. contested \subseteq contested' /\ pending \subseteq pending'
    BY <1>1 DEF Commit
  <2>3. k \in Flows => k \in pending' /\ (replay.phase # "done" => k \in contested')
    BY <1>1 DEF Commit
  <2>4. JobIsCurrent' /\ DownIsIdle'
    BY <1>1 DEF Commit, JobIsCurrent, DownIsIdle, Up
  <2>5. ReplayIsCurrent'
    BY <1>1, <2>1, <2>2, <2>3 DEF Commit, ReplayIsCurrent, Current, TypeOK
  <2>6. ReplayOwes'
    BY <1>1, <2>2, <2>3 DEF Commit, ReplayOwes
  <2>7. CarriedAsDecided'
    BY <1>1, <2>1, <2>2, <2>3 DEF Commit, CarriedAsDecided
  <2>8. QED
    BY <1>0, <2>4, <2>5, <2>6, <2>7
<1>2. ASSUME JobSelects PROVE CInv'
  BY <1>0, <1>2 DEF JobSelects, TypeOK, history, JobIsCurrent, DownIsIdle, ReplayIsCurrent, ReplayOwes,
     CarriedAsDecided, Current, Effective, Up, NoJob, NoReload, Down
<1>3. ASSUME JobLoads PROVE CInv'
  <2>1. job.rows = db
    BY <1>3 DEF JobLoads, JobIsCurrent
  <2>2. JobIsCurrent'
    BY <1>3, <2>1 DEF JobLoads, FlagAfterLoad, JobIsCurrent, Effective
  <2>3. ReplayIsCurrent' /\ ReplayOwes'
    BY <1>3, <2>1 DEF JobLoads, ReplayIsCurrent, ReplayOwes, Current, Effective, history
  <2>4. DownIsIdle'
    BY <1>3 DEF JobLoads, DownIsIdle, Up, NoJob
  <2>5. CarriedAsDecided'
    BY <1>3 DEF JobLoads, CarriedAsDecided, history
  <2>6. QED
    BY <1>0, <2>2, <2>3, <2>4, <2>5
<1>4. ASSUME JobProjects PROVE CInv'
  <2>1. job.running = Effective(db, job.key)
    BY <1>4 DEF JobProjects, JobIsCurrent
  <2>2. CarriedAsDecided'
    BY <1>4, <2>1 DEF JobProjects, CarriedAsDecided, Effective, TypeOK
  <2>3. JobIsCurrent' /\ DownIsIdle'
    BY <1>4 DEF JobProjects, JobIsCurrent, DownIsIdle, Up, NoJob
  <2>4. ReplayIsCurrent' /\ ReplayOwes'
    BY <1>4 DEF JobProjects, ReplayIsCurrent, ReplayOwes, Current, Effective
  <2>5. QED
    BY <1>0, <2>2, <2>3, <2>4
<1>5. ASSUME JobFails PROVE CInv'
  BY <1>0, <1>5 DEF JobFails, TypeOK, history, JobIsCurrent, DownIsIdle, ReplayIsCurrent, ReplayOwes,
     CarriedAsDecided, Current, Effective, Up, NoJob, NoReload, Down
<1>6. ASSUME Describe PROVE CInv'
  BY <1>0, <1>6 DEF Describe, Scheduled, TypeOK, history, JobIsCurrent, DownIsIdle, ReplayIsCurrent, ReplayOwes,
     CarriedAsDecided, Current, Effective, Up, NoJob, NoReload, Down
<1>7. ASSUME JobDescribes PROVE CInv'
  BY <1>0, <1>7 DEF JobDescribes, TypeOK, history, JobIsCurrent, DownIsIdle, ReplayIsCurrent, ReplayOwes,
     CarriedAsDecided, Current, Effective, Up, NoJob, NoReload, Down
<1>8. ASSUME Expire PROVE CInv'
  BY <1>0, <1>8 DEF Expire, tasks, TypeOK, history, JobIsCurrent, DownIsIdle, ReplayIsCurrent, ReplayOwes,
     CarriedAsDecided, Current, Effective, Up, NoJob, NoReload, Down
<1>9. ASSUME ReadStale PROVE CInv'
  BY <1>0, <1>9 DEF ReadStale, Scheduled, TypeOK, history, JobIsCurrent, DownIsIdle, ReplayIsCurrent, ReplayOwes,
     CarriedAsDecided, Current, Effective, Up, NoJob, NoReload, Down
<1>10. ASSUME ReloadSelects PROVE CInv'
  <2>1. ReplayIsCurrent'
    BY <1>10 DEF ReloadSelects, ReplayIsCurrent, Current, Effective, history
  <2>2. JobIsCurrent' /\ ReplayOwes' /\ CarriedAsDecided'
    BY <1>10 DEF ReloadSelects, JobIsCurrent, ReplayOwes, CarriedAsDecided, history
  <2>3. DownIsIdle'
    BY <1>10 DEF ReloadSelects, DownIsIdle, Up, NoReload
  <2>4. QED
    BY <1>0, <2>1, <2>2, <2>3
<1>11. ASSUME ReloadLoads PROVE CInv'
  BY <1>0, <1>11 DEF ReloadLoads, TypeOK, history, JobIsCurrent, DownIsIdle, ReplayIsCurrent, ReplayOwes,
     CarriedAsDecided, Current, Effective, Up, NoJob, NoReload, Down
<1>12. ASSUME ReloadFails PROVE CInv'
  BY <1>0, <1>12 DEF ReloadFails, TypeOK, history, JobIsCurrent, DownIsIdle, ReplayIsCurrent, ReplayOwes,
     CarriedAsDecided, Current, Effective, Up, NoJob, NoReload, Down
<1>13. ASSUME Boot PROVE CInv'
  <2>1. job' = NoJob /\ reload' = NoReload
    BY <1>13 DEF Boot, DownIsIdle
  <2>2. JobIsCurrent' /\ DownIsIdle' /\ ReplayIsCurrent' /\ ReplayOwes'
    BY <1>13, <2>1 DEF Boot, JobIsCurrent, DownIsIdle, ReplayIsCurrent, ReplayOwes,
                       NoJob, NoReload
  <2>3. CarriedAsDecided'
    BY <1>13 DEF Boot, CarriedAsDecided, Effective
  <2>4. QED
    BY <1>0, <2>2, <2>3
<1>14. ASSUME ReplaySelects PROVE CInv'
  BY <1>0, <1>14 DEF ReplaySelects, TypeOK, history, JobIsCurrent, DownIsIdle, ReplayIsCurrent, ReplayOwes,
     CarriedAsDecided, Current, Effective, Up, NoJob, NoReload, Down
<1>15. ASSUME ReplayLoads PROVE CInv'
  BY <1>0, <1>15 DEF ReplayLoads, Replayed, TypeOK, history, JobIsCurrent, DownIsIdle, ReplayIsCurrent, ReplayOwes,
     CarriedAsDecided, Current, Effective, Up, NoJob, NoReload, Down
<1>16. ASSUME NEW f \in Flows, ReplaySends(f) PROVE CInv'
  BY <1>0, <1>16 DEF ReplaySends, Scheduled, TypeOK, history, JobIsCurrent, DownIsIdle, ReplayIsCurrent, ReplayOwes,
     CarriedAsDecided, Current, Effective, Up, NoJob, NoReload, Down
<1>17. ASSUME ReplayLands PROVE CInv'
  <2>1. replay.flow \in contested \/ replay.running = Effective(db, replay.flow)
    BY <1>17 DEF ReplayLands, ReplayIsCurrent
  <2>2. CarriedAsDecided'
    BY <1>17, <2>1 DEF ReplayLands, CarriedAsDecided, Effective, TypeOK
  <2>3. ReplayIsCurrent' /\ ReplayOwes'
    BY <1>17 DEF ReplayLands, ReplayIsCurrent, ReplayOwes, Current
  <2>4. JobIsCurrent' /\ DownIsIdle'
    BY <1>17 DEF ReplayLands, JobIsCurrent, DownIsIdle, Effective, Up, Down
  <2>5. QED
    BY <1>0, <2>2, <2>3, <2>4
<1>18. ASSUME ReplayEnds PROVE CInv'
  BY <1>0, <1>18 DEF ReplayEnds, Scheduled, TypeOK, history, JobIsCurrent, DownIsIdle, ReplayIsCurrent, ReplayOwes,
     CarriedAsDecided, Current, Effective, Up, NoJob, NoReload, Down
<1>19. ASSUME ReplayFails PROVE CInv'
  BY <1>0, <1>19 DEF ReplayFails, TypeOK, history, JobIsCurrent, DownIsIdle, ReplayIsCurrent, ReplayOwes,
     CarriedAsDecided, Current, Effective, Up, NoJob, NoReload, Down
<1>20. ASSUME Crash PROVE CInv'
  BY <1>0, <1>20 DEF Crash, TypeOK, history, JobIsCurrent, DownIsIdle, ReplayIsCurrent, ReplayOwes,
     CarriedAsDecided, Current, Effective, Up, NoJob, NoReload, Down
<1>21. ASSUME WipeRedis PROVE CInv'
  BY <1>0, <1>21 DEF WipeRedis, tasks, TypeOK, history, JobIsCurrent, DownIsIdle, ReplayIsCurrent, ReplayOwes,
     CarriedAsDecided, Current, Effective, Up, NoJob, NoReload, Down
<1>22. CASE UNCHANGED vars
  BY <1>0, <1>22 DEF vars, JobIsCurrent, DownIsIdle, ReplayIsCurrent, ReplayOwes,
     CarriedAsDecided, Current, Effective, Up
<1>23. QED
  BY <1>1, <1>2, <1>3, <1>4, <1>5, <1>6, <1>7, <1>8, <1>9, <1>10, <1>11, <1>12,
     <1>13, <1>14, <1>15, <1>16, <1>17, <1>18, <1>19, <1>20, <1>21, <1>22 DEF Next

\* The configuration is what the registry enforces, for every flow whose last
\* decision was carried and that did not change while a replay was running:
\* whichever of the handler, the reload and the replay wrote the snapshot last.
THEOREM RegistryAsDecided == Spec => []CarriedAsDecided
<1>1. CInv => CarriedAsDecided
  BY DEF CInv
<1>2. QED
  BY <1>1, CarriedInit, CarriedStep, PTL DEF Spec

\* A replay that ends has left nothing pending but what changed under it.
THEOREM ReplayLeavesNothing == Spec => ReplayCarriesAll
<1>1. ASSUME CInv, [Next]_vars, replay.phase = "looping", replay'.phase = "done"
      PROVE  pending' \subseteq contested'
  <2>1. ReplayEnds
    BY <1>1 DEF Next, vars, Commit, JobSelects, JobLoads, JobProjects, JobFails, Describe,
                JobDescribes, Expire, ReadStale, ReloadSelects, ReloadLoads, ReloadFails,
                Boot, Up, ReplaySelects, ReplayLoads, ReplaySends, ReplayLands,
                ReplayFails, Crash, Down, WipeRedis, tasks
  <2>2. QED
    BY <1>1, <2>1 DEF ReplayEnds, CInv, ReplayOwes, history
<1>2. QED
  BY <1>1, CarriedInit, CarriedStep, PTL DEF Spec, ReplayCarriesAll

\* set_running projects, and answers, what the database says at that moment.
THEOREM AnswerIsTheDecision == Spec => AnswersTheDecision
<1>1. ASSUME CInv, JobProjects PROVE registry'[job.key] = Effective(db, job.key)
  <2>1. job.key \in Flows
    BY <1>1 DEF CInv, TypeOK, JobProjects, NoJob
  <2>2. QED
    BY <1>1, <2>1 DEF JobProjects, CInv, JobIsCurrent, TypeOK
<1>2. QED
  BY <1>1, CarriedInit, CarriedStep, PTL DEF Spec, AnswersTheDecision
=============================================================================
