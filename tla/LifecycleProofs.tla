--------------------------- MODULE LifecycleProofs ---------------------------
(***************************************************************************)
(* The safety of module Lifecycle, for any number of processes, requests,  *)
(* migrations and faults, and any configurations.                          *)
(***************************************************************************)
EXTENDS Lifecycle, TLAPS

Migrating == {"mark", "apply", "clean"}
WithPool == {"open", "up"} \cup Migrating \cup Running

\* What a process works with: a configuration of numbers, and then a pool.
ConfInv ==
  \A s \in Servers :
    /\ phase[s] # "off" => conf[s] \in Configs /\ conf[s].maxConns \in Int
    /\ phase[s] \in WithPool => pool[s] > 0

\* The migrations are in the hands of the process that holds the lock.
LockInv == \A s \in Servers : phase[s] \in Migrating <=> lock = s

Migrated == [applied |-> LastVersion, version |-> LastVersion, dirty |-> FALSE]

\* How far the process that migrates has come; and nobody serves before the end.
SchemaInv ==
  /\ schema.applied = schema.version \/ (schema.dirty /\ schema.applied + 1 = schema.version)
  /\ \A s \in Servers :
       /\ phase[s] = "mark" => ~schema.dirty /\ schema.version < LastVersion
       /\ phase[s] = "apply" => schema.dirty /\ schema.applied + 1 = schema.version
       /\ phase[s] = "clean" => schema.dirty /\ schema.applied = schema.version
       /\ Serving(s) => schema = Migrated

Idle(s) == \A h \in On(s) : job[h] = "idle"

\* Requests come to a process that listens.  In a stop, a snapshot request has
\* waited at least as long as Shutdown, and is gone when Shutdown is.
StopInv ==
  \A s \in Servers :
    /\ bound[s] => phase[s] \in {"launch", "wait"}
    /\ phase[s] \notin {"drain", "close"} => since[s] = 0
    /\ phase[s] = "drain" => \A h \in On(s) : job[h] = "snapshot" => since[s] <= age[h]
    /\ phase[s] = "close" => /\ since[s] = Grace \/ Idle(s)
                             /\ \A h \in On(s) : job[h] # "snapshot"

\* What the last stop of each process was like.
EndInv == GracefulStop /\ SnapshotsOutliveStop

IInv == TypeOK /\ ConfInv /\ LockInv /\ SchemaInv /\ StopInv /\ EndInv

LEMMA InvInit == Init => IInv
BY NumbersAssumption, NullAssumption
   DEF Init, IInv, TypeOK, ConfInv, LockInv, SchemaInv, StopInv, EndInv, GracefulStop,
       SnapshotsOutliveStop, NoEnd, Serving, Starting, Running, Migrating,
       WithPool

-----------------------------------------------------------------------------
(* The end of a process.                                                   *)

\* How a process ends, whatever the action.
Ends(s, cause) ==
  /\ Exit(s, cause)
  /\ cause \in {"failed", "stopped", "killed"}
  /\ cause = "stopped" => phase[s] = "close"
  /\ \/ UNCHANGED schema
     \/ phase[s] = "apply" /\ schema' = [schema EXCEPT !.applied = @ + 1]
  /\ faults' \in 0 .. MaxFaults

LEMMA EndKeepsInv ==
  ASSUME IInv, NEW s \in Servers, NEW cause, Ends(s, cause)
  PROVE  IInv'
<1>0. /\ TypeOK /\ ConfInv /\ LockInv /\ SchemaInv /\ StopInv /\ EndInv
      /\ Exit(s, cause)
  BY DEF IInv, Ends
<1>1. /\ phase' = [phase EXCEPT ![s] = "off"]
      /\ conf' = [conf EXCEPT ![s] = Null]
      /\ pool' = [pool EXCEPT ![s] = 0]
      /\ bound' = [bound EXCEPT ![s] = FALSE]
      /\ since' = [since EXCEPT ![s] = 0]
      /\ lock' = IF lock = s THEN Null ELSE lock
      /\ job' = [h \in Handlers |-> IF h \in On(s) THEN "idle" ELSE job[h]]
      /\ age' = [h \in Handlers |-> IF h \in On(s) THEN 0 ELSE age[h]]
  BY <1>0 DEF Exit
<1>2. \A t \in Servers \ {s} :
        phase'[t] = phase[t] /\ conf'[t] = conf[t] /\ pool'[t] = pool[t]
        /\ bound'[t] = bound[t] /\ since'[t] = since[t] /\ last'[t] = last[t]
  BY <1>0, <1>1 DEF Exit, TypeOK
<1>3. phase'[s] = "off" /\ pool'[s] = 0 /\ bound'[s] = FALSE /\ since'[s] = 0
  BY <1>0, <1>1 DEF TypeOK
<1>4. \A h \in Handlers : Home[h] # s => job'[h] = job[h] /\ age'[h] = age[h]
  BY <1>1 DEF On
<1> DEFINE cut == {job[h] : h \in On(s)} \ {"idle"}
<1>5. last'[s] = [cause |-> cause, cut |-> cut, waited |-> since[s]]
  BY <1>0 DEF Exit, TypeOK
<1>6. cut \in SUBSET Calls
  BY <1>0 DEF TypeOK, On
<1>7. last' \in [Servers -> [cause : {"none", "failed", "stopped", "killed"},
                             cut : SUBSET Calls, waited : 0 .. Grace]]
  <2>1. last'[s] \in [cause : {"none", "failed", "stopped", "killed"},
                      cut : SUBSET Calls, waited : 0 .. Grace]
    <3> HIDE DEF cut
    <3> QED BY <1>0, <1>5, <1>6 DEF TypeOK, Ends
  <2>2. last' = [last EXCEPT ![s] = last'[s]]
    BY <1>0 DEF Exit, TypeOK
  <2> QED BY <1>0, <2>1, <2>2 DEF TypeOK
<1>8. schema' \in [applied : 0 .. LastVersion, version : 0 .. LastVersion, dirty : BOOLEAN]
  BY <1>0, NumbersAssumption DEF TypeOK, SchemaInv, Ends
<1>9. TypeOK'
  <2>1. /\ phase' \in [Servers -> {"off"} \cup Starting \cup Running]
        /\ conf' \in [Servers -> Configs \cup {Null}]
        /\ pool' \in [Servers -> Nat]
        /\ bound' \in [Servers -> BOOLEAN]
        /\ since' \in [Servers -> 0 .. Grace]
        /\ lock' \in Servers \cup {Null}
    BY <1>0, <1>1, NumbersAssumption DEF TypeOK
  <2>2. /\ job' \in [Handlers -> {"idle"} \cup Calls]
        /\ age' \in [Handlers -> 0 .. SnapshotTimeout]
    BY <1>0, <1>1, NumbersAssumption DEF TypeOK
  <2>3. \A t \in Servers : Serving(t)' => pool'[t] > 0
    BY <1>0, <1>2, <1>3 DEF TypeOK, Serving, Running
  <2> QED BY <1>7, <1>8, <2>1, <2>2, <2>3 DEF TypeOK, Ends
<1>10. ConfInv'
  BY <1>0, <1>2, <1>3 DEF ConfInv, WithPool, Migrating, Running
<1>11. LockInv'
  BY <1>0, <1>1, <1>2, <1>3, NullAssumption DEF LockInv, Migrating
<1>12. SchemaInv'
  <2>1. CASE UNCHANGED schema
    BY <1>0, <1>2, <1>3, <2>1 DEF SchemaInv, Serving, Running
  <2>2. CASE phase[s] = "apply" /\ schema' = [schema EXCEPT !.applied = @ + 1]
    <3>1. /\ schema'.applied = schema'.version
          /\ schema.dirty
      BY <1>0, <2>2 DEF SchemaInv, TypeOK
    <3>2. \A t \in Servers \ {s} : phase[t] \notin Migrating
      BY <1>0, <2>2 DEF LockInv, Migrating
    <3>3. \A t \in Servers : ~Serving(t)
      BY <1>0, <3>1 DEF SchemaInv, Migrated
    <3> QED BY <1>2, <1>3, <3>1, <3>2, <3>3 DEF SchemaInv, Serving, Running, Migrating
  <2> QED BY <2>1, <2>2 DEF Ends
<1>13. StopInv'
  <2>1. \A t \in Servers \ {s} : \A h \in On(t) : job'[h] = job[h] /\ age'[h] = age[h]
    BY <1>4 DEF On
  <2> QED BY <1>0, <1>2, <1>3, <2>1 DEF StopInv, Idle, On
<1>14. EndInv'
  <2>1. cause = "stopped" => /\ cut # {} => since[s] = Grace
                             /\ "snapshot" \notin cut
    BY <1>0 DEF StopInv, Idle, Ends
  <2> HIDE DEF cut
  <2> QED BY <1>0, <1>2, <1>5, <2>1 DEF EndInv, GracefulStop, SnapshotsOutliveStop
<1> QED BY <1>9, <1>10, <1>11, <1>12, <1>13, <1>14 DEF IInv

\* The failures are ends.
LEMMA FailureEnds ==
  ASSUME IInv, NEW s \in Servers, StartFails(s),
         \/ UNCHANGED schema
         \/ phase[s] = "apply" /\ schema' = [schema EXCEPT !.applied = @ + 1],
         UNCHANGED faults \/ Fault
  PROVE  IInv'
<1>1. faults' \in 0 .. MaxFaults
  BY NumbersAssumption DEF IInv, TypeOK, Fault
<1> QED BY <1>1, EndKeepsInv DEF Ends, StartFails

-----------------------------------------------------------------------------
(* The steps of main.                                                      *)

\* From a phase of the start to another one, or to the running process: what does
\* not depend on the lock and the schema.
LEMMA GotoFacts ==
  ASSUME IInv, NEW s \in Servers, NEW p \in Starting \cup {"launch", "wait"}, Goto(s, p),
         phase[s] \in Starting \cup {"launch"},
         p \in WithPool => phase[s] \in WithPool,
         p \in Starting => phase[s] \in Starting
  PROVE  /\ phase' = [phase EXCEPT ![s] = p]
         /\ \A t \in Servers : phase'[t] = IF t = s THEN p ELSE phase[t]
         /\ phase' \in [Servers -> {"off"} \cup Starting \cup Running]
         /\ UNCHANGED <<conf, pool, bound, since, last, requests>>
         /\ ConfInv' /\ StopInv' /\ EndInv'
         /\ \A t \in Servers : Serving(t)' => pool'[t] > 0
<1>0. TypeOK /\ ConfInv /\ StopInv /\ EndInv
  BY DEF IInv
<1>1. /\ phase' = [phase EXCEPT ![s] = p]
      /\ UNCHANGED <<conf, pool, bound, since, last, job, age>>
  BY DEF Goto, requests
<1>2. \A t \in Servers : phase'[t] = IF t = s THEN p ELSE phase[t]
  BY <1>0, <1>1 DEF TypeOK
<1>3. phase' \in [Servers -> {"off"} \cup Starting \cup Running]
  BY <1>0, <1>1 DEF TypeOK, Running
<1>4. ConfInv'
  BY <1>0, <1>1, <1>2 DEF ConfInv, Starting
<1>5. StopInv'
  BY <1>0, <1>1, <1>2 DEF StopInv, Idle, Starting
<1>6. EndInv'
  BY <1>0, <1>1 DEF EndInv, GracefulStop, SnapshotsOutliveStop
<1>7. \A t \in Servers : Serving(t)' => pool'[t] > 0
  BY <1>1, <1>4 DEF ConfInv, Serving, WithPool
<1> QED BY <1>1, <1>2, <1>3, <1>4, <1>5, <1>6, <1>7 DEF requests

\* The part of the type invariant that Goto leaves, once the rest has its type.
LEMMA GotoType ==
  ASSUME TypeOK,
         phase' \in [Servers -> {"off"} \cup Starting \cup Running],
         UNCHANGED <<conf, pool, bound, since, last, requests>>,
         \A t \in Servers : Serving(t)' => pool'[t] > 0,
         lock' \in Servers \cup {Null},
         schema' \in [applied : 0 .. LastVersion, version : 0 .. LastVersion,
                      dirty : BOOLEAN],
         UNCHANGED faults
  PROVE  TypeOK'
BY DEF TypeOK, requests

LEMMA LoadKeepsInv ==
  ASSUME IInv, NEW s \in Servers, NEW c \in Configs, Load(s, c)
  PROVE  IInv'
<1>0. TypeOK /\ ConfInv /\ LockInv /\ SchemaInv /\ StopInv /\ EndInv
  BY DEF IInv
<1>1. CASE StartFails(s)
  BY <1>1, FailureEnds DEF Load
<1>2. CASE /\ Null \notin {c.maxConns, c.ttl}
           /\ phase' = [phase EXCEPT ![s] = "duckdb"]
           /\ conf' = [conf EXCEPT ![s] = c]
           /\ last' = [last EXCEPT ![s] = NoEnd]
           /\ UNCHANGED <<lock, pool, bound, since, requests, schema, faults>>
  <2>1. c.maxConns \in Int
    BY <1>2, ConfigsAssumption
  <2>2. phase[s] = "off" /\ phase'[s] = "duckdb" /\ conf'[s] = c /\ last'[s] = NoEnd
    BY <1>0, <1>2 DEF Load, TypeOK
  <2>3. \A t \in Servers \ {s} :
          phase'[t] = phase[t] /\ conf'[t] = conf[t] /\ last'[t] = last[t]
    BY <1>0, <1>2 DEF TypeOK
  <2>4. NoEnd \in [cause : {"none", "failed", "stopped", "killed"},
                   cut : SUBSET Calls, waited : 0 .. Grace]
    BY NumbersAssumption DEF NoEnd
  <2>5. TypeOK'
    <3>1. \A t \in Servers : Serving(t)' => pool'[t] > 0
      BY <1>0, <1>2, <2>2, <2>3 DEF TypeOK, Serving, Running
    <3> QED BY <1>0, <1>2, <2>4, <3>1 DEF TypeOK, Starting, requests
  <2>6. ConfInv'
    BY <1>0, <1>2, <2>1, <2>2, <2>3 DEF ConfInv, WithPool, Migrating, Running
  <2>7. LockInv' /\ SchemaInv'
    BY <1>0, <1>2, <2>2, <2>3 DEF LockInv, SchemaInv, Serving, Migrating, Running
  <2>8. StopInv'
    BY <1>0, <1>2, <2>2, <2>3 DEF StopInv, Idle, requests
  <2>9. EndInv'
    BY <1>0, <2>2, <2>3 DEF EndInv, GracefulStop, SnapshotsOutliveStop, NoEnd
  <2> QED BY <2>5, <2>6, <2>7, <2>8, <2>9 DEF IInv
<1> QED BY <1>1, <1>2 DEF Load

\* A step between two phases without lock, on a schema that stays.
LEMMA QuietGoto ==
  ASSUME IInv, NEW s \in Servers, NEW p \in {"pool", "up", "launch", "wait"}, Goto(s, p),
         phase[s] \in (Starting \cup {"launch"}) \ Migrating,
         p \in WithPool => phase[s] \in WithPool,
         p \in Starting => phase[s] \in Starting,
         p \in {"launch", "wait"} => schema = Migrated,
         UNCHANGED <<schema, lock, faults>>
  PROVE  IInv'
<1>0. TypeOK /\ LockInv /\ SchemaInv
  BY DEF IInv
<1>1. /\ \A t \in Servers : phase'[t] = IF t = s THEN p ELSE phase[t]
      /\ ConfInv' /\ StopInv' /\ EndInv' /\ TypeOK'
  BY <1>0, GotoFacts, GotoType DEF Starting, TypeOK
<1>2. LockInv'
  BY <1>0, <1>1 DEF LockInv, Migrating
<1>3. SchemaInv'
  BY <1>0, <1>1 DEF SchemaInv, Serving, Running
<1> QED BY <1>1, <1>2, <1>3 DEF IInv

LEMMA StartKeepsInv ==
  ASSUME IInv, NEW s \in Servers,
         InitDuckDB(s) \/ InitPool(s) \/ OpenMigrator(s) \/ MigrationStops(s)
  PROVE  IInv'
<1>0. TypeOK /\ ConfInv /\ LockInv /\ SchemaInv /\ StopInv /\ EndInv
  BY DEF IInv
<1>1. CASE InitDuckDB(s)
  BY <1>1, FailureEnds, QuietGoto DEF InitDuckDB, Starting, WithPool, Migrating, Running
<1>2. CASE InitPool(s)
  <2> DEFINE size == Int32(conf[s].maxConns)
  <2>1. CASE StartFails(s)
    BY <1>2, <2>1, FailureEnds DEF InitPool
  <2>2. CASE /\ size > 0
             /\ pool' = [pool EXCEPT ![s] = size]
             /\ phase' = [phase EXCEPT ![s] = "open"]
             /\ UNCHANGED <<lock, conf, bound, since, last, requests, faults, schema>>
    <3>1. size \in Nat
      BY <1>0, <1>2, <2>2, NumbersAssumption DEF InitPool, ConfInv, Int32
    <3> HIDE DEF size
    <3>2. phase[s] = "pool" /\ phase'[s] = "open" /\ pool'[s] = size
      BY <1>0, <1>2, <2>2 DEF InitPool, TypeOK
    <3>3. \A t \in Servers \ {s} : phase'[t] = phase[t] /\ pool'[t] = pool[t]
      BY <1>0, <2>2 DEF TypeOK
    <3>4. ConfInv'
      BY <1>0, <2>2, <3>1, <3>2, <3>3 DEF ConfInv, WithPool, Migrating, Running
    <3>5. TypeOK'
      <4>1. \A t \in Servers : Serving(t)' => pool'[t] > 0
        BY <3>4 DEF ConfInv, Serving, WithPool
      <4> QED BY <1>0, <2>2, <3>1, <4>1 DEF TypeOK, Starting, requests
    <3>6. LockInv' /\ SchemaInv'
      BY <1>0, <2>2, <3>2, <3>3 DEF LockInv, SchemaInv, Serving, Migrating, Running
    <3>7. StopInv'
      BY <1>0, <2>2, <3>2, <3>3 DEF StopInv, Idle, requests
    <3>8. EndInv'
      BY <1>0, <2>2 DEF EndInv, GracefulStop, SnapshotsOutliveStop
    <3> QED BY <3>4, <3>5, <3>6, <3>7, <3>8 DEF IInv
  <2> QED BY <1>2, <2>1, <2>2 DEF InitPool
<1>3. CASE OpenMigrator(s)
  BY <1>3, QuietGoto DEF OpenMigrator, Starting, WithPool, Migrating, Running
<1>4. CASE MigrationStops(s)
  BY <1>4, FailureEnds DEF MigrationStops, UpFails
<1> QED BY <1>1, <1>2, <1>3, <1>4

LEMMA MigrationKeepsInv ==
  ASSUME IInv, NEW s \in Servers, Up(s) \/ MarkDirty(s) \/ Apply(s) \/ MarkClean(s)
  PROVE  IInv'
<1>0. TypeOK /\ ConfInv /\ LockInv /\ SchemaInv /\ StopInv /\ EndInv
  BY DEF IInv
<1>a. schema \in [applied : 0 .. LastVersion, version : 0 .. LastVersion, dirty : BOOLEAN]
  BY <1>0 DEF TypeOK
<1>b. phase[s] \in Migrating =>
        \A t \in Servers \ {s} : phase[t] \notin Migrating /\ ~Serving(t)
  <2> SUFFICES ASSUME phase[s] \in Migrating, NEW t \in Servers \ {s}
               PROVE  phase[t] \notin Migrating /\ ~Serving(t)
    OBVIOUS
  <2>1. lock = s /\ lock # t
    BY <1>0 DEF LockInv
  <2>2. schema # Migrated
    BY <1>0, NumbersAssumption DEF SchemaInv, Migrating, Migrated
  <2> QED BY <1>0, <2>1, <2>2 DEF LockInv, SchemaInv
<1>1. CASE Up(s)
  <2>1. CASE UpFails(s)
    BY <1>1, <2>1, FailureEnds DEF Up, UpFails
  <2>2. CASE /\ ~schema.dirty /\ schema.version = LastVersion
             /\ Goto(s, "launch") /\ UNCHANGED lock
    <3>1. schema = Migrated
      BY <1>0, <1>a, <2>2 DEF SchemaInv, Migrated
    <3> QED BY <1>1, <2>2, <3>1, QuietGoto DEF Up, Starting, WithPool, Migrating, Running
  <2>3. CASE /\ ~schema.dirty /\ schema.version < LastVersion
             /\ Goto(s, "mark") /\ lock' = s
    <3>1. phase[s] = "up" /\ lock = Null /\ UNCHANGED <<schema, faults>>
      BY <1>1 DEF Up
    <3>2. /\ \A t \in Servers : phase'[t] = IF t = s THEN "mark" ELSE phase[t]
          /\ ConfInv' /\ StopInv' /\ EndInv' /\ TypeOK'
      BY <1>0, <1>a, <2>3, <3>1, GotoFacts, GotoType DEF Starting, WithPool, Migrating
    <3>3. LockInv'
      BY <1>0, <2>3, <3>1, <3>2, NullAssumption DEF LockInv, Migrating
    <3>4. SchemaInv'
      BY <1>0, <2>3, <3>1, <3>2 DEF SchemaInv, Serving, Running
    <3> QED BY <3>2, <3>3, <3>4 DEF IInv
  <2> QED BY <1>1, <2>1, <2>2, <2>3 DEF Up
<1>2. CASE MarkDirty(s)
  <2>1. /\ phase[s] = "mark" /\ UNCHANGED <<lock, faults>> /\ Goto(s, "apply")
        /\ schema' = [schema EXCEPT !.version = @ + 1, !.dirty = TRUE]
        /\ schema.version < LastVersion /\ ~schema.dirty
    BY <1>0, <1>2 DEF MarkDirty, SchemaInv
  <2>2. /\ schema' \in [applied : 0 .. LastVersion, version : 0 .. LastVersion,
                        dirty : BOOLEAN]
        /\ schema'.dirty /\ schema'.applied + 1 = schema'.version
    <3>1. schema.applied = schema.version
      BY <1>0, <2>1 DEF SchemaInv
    <3>2. schema' = [applied |-> schema.applied, version |-> schema.version + 1,
                     dirty |-> TRUE]
      BY <1>a, <2>1
    <3>3. schema.applied \in 0 .. LastVersion /\ schema.version + 1 \in 0 .. LastVersion
      BY <1>a, <2>1, NumbersAssumption
    <3> QED BY <3>1, <3>2, <3>3
  <2>3. /\ \A t \in Servers : phase'[t] = IF t = s THEN "apply" ELSE phase[t]
        /\ ConfInv' /\ StopInv' /\ EndInv' /\ TypeOK'
    BY <1>0, <2>1, <2>2, GotoFacts, GotoType DEF Starting, WithPool, Migrating, TypeOK
  <2>4. LockInv'
    BY <1>0, <2>1, <2>3 DEF LockInv, Migrating
  <2>5. SchemaInv'
    BY <1>b, <2>1, <2>2, <2>3 DEF SchemaInv, Serving, Running, Migrating
  <2> QED BY <2>3, <2>4, <2>5 DEF IInv
<1>3. CASE Apply(s)
  <2>1. CASE UpFails(s)
    BY <1>3, <2>1, FailureEnds DEF Apply, UpFails
  <2>2. CASE schema' # schema /\ Goto(s, "clean") /\ UNCHANGED <<lock, faults>>
    <3>1. phase[s] = "apply" /\ schema' = [schema EXCEPT !.applied = @ + 1]
      BY <1>3, <2>2 DEF Apply
    <3>2. /\ schema' \in [applied : 0 .. LastVersion, version : 0 .. LastVersion,
                          dirty : BOOLEAN]
          /\ schema'.dirty /\ schema'.applied = schema'.version
      BY <1>0, <1>a, <3>1, NumbersAssumption DEF SchemaInv
    <3>3. /\ \A t \in Servers : phase'[t] = IF t = s THEN "clean" ELSE phase[t]
          /\ ConfInv' /\ StopInv' /\ EndInv' /\ TypeOK'
      BY <1>0, <2>2, <3>1, <3>2, GotoFacts, GotoType DEF Starting, WithPool, Migrating, TypeOK
    <3>4. LockInv'
      BY <1>0, <2>2, <3>1, <3>3 DEF LockInv, Migrating
    <3>5. SchemaInv'
      BY <1>b, <3>1, <3>2, <3>3 DEF SchemaInv, Serving, Running, Migrating
    <3> QED BY <3>3, <3>4, <3>5 DEF IInv
  <2> QED BY <1>3, <2>1, <2>2 DEF Apply
<1>4. CASE MarkClean(s)
  <2>1. /\ phase[s] = "clean" /\ UNCHANGED faults
        /\ schema' = [schema EXCEPT !.dirty = FALSE]
    BY <1>4 DEF MarkClean
  <2>2. /\ schema' \in [applied : 0 .. LastVersion, version : 0 .. LastVersion,
                        dirty : BOOLEAN]
        /\ ~schema'.dirty /\ schema'.applied = schema'.version
        /\ schema'.version = schema.version
    BY <1>0, <1>a, <2>1 DEF SchemaInv
  <2>3. PICK p \in {"mark", "launch"} :
          /\ Goto(s, p)
          /\ p = "mark" => schema.version < LastVersion /\ UNCHANGED lock
          /\ p = "launch" => schema.version = LastVersion /\ lock' = Null
    BY <1>4 DEF MarkClean
  <2>4. lock = s /\ lock' \in Servers \cup {Null}
    BY <1>0, <2>1, <2>3 DEF LockInv, Migrating
  <2>5. /\ \A t \in Servers : phase'[t] = IF t = s THEN p ELSE phase[t]
        /\ ConfInv' /\ StopInv' /\ EndInv' /\ TypeOK'
    BY <1>0, <2>1, <2>2, <2>3, <2>4, GotoFacts, GotoType
       DEF Starting, WithPool, Migrating
  <2>6. LockInv'
    BY <1>0, <1>b, <2>1, <2>3, <2>4, <2>5, NullAssumption DEF LockInv, Migrating
  <2>7. p = "launch" => schema' = Migrated
    BY <2>2, <2>3 DEF Migrated
  <2>8. SchemaInv'
    BY <1>b, <2>1, <2>2, <2>3, <2>5, <2>7 DEF SchemaInv, Serving, Running, Migrating
  <2> QED BY <2>5, <2>6, <2>8 DEF IInv
<1> QED BY <1>1, <1>2, <1>3, <1>4

LEMMA ListenKeepsInv ==
  ASSUME IInv, NEW s \in Servers, Listen(s)
  PROVE  IInv'
<1>0. TypeOK /\ ConfInv /\ LockInv /\ SchemaInv /\ StopInv /\ EndInv
  BY DEF IInv
<1>1. CASE StartFails(s)
  BY <1>1, FailureEnds DEF Listen
<1>2. CASE /\ bound' = [bound EXCEPT ![s] = TRUE]
           /\ UNCHANGED <<lock, phase, conf, pool, since, last, requests, faults, schema>>
  <2>1. phase[s] \in {"launch", "wait"}
    BY DEF Listen
  <2>2. bound' \in [Servers -> BOOLEAN]
    BY <1>0, <1>2 DEF TypeOK
  <2>3. \A t \in Servers : bound'[t] => bound[t] \/ t = s
    BY <1>0, <1>2 DEF TypeOK
  <2>4. TypeOK'
    BY <1>0, <1>2, <2>2 DEF TypeOK, Serving, requests
  <2>5. StopInv'
    BY <1>0, <1>2, <2>1, <2>3 DEF StopInv, Idle, requests
  <2>6. ConfInv' /\ LockInv' /\ SchemaInv' /\ EndInv'
    BY <1>0, <1>2 DEF ConfInv, LockInv, SchemaInv, Serving, EndInv, GracefulStop,
                      SnapshotsOutliveStop
  <2> QED BY <2>4, <2>5, <2>6 DEF IInv
<1> QED BY <1>1, <1>2 DEF Listen

LEMMA NotifyKeepsInv ==
  ASSUME IInv, NEW s \in Servers, Notify(s)
  PROVE  IInv'
<1>1. schema = Migrated
  BY DEF IInv, SchemaInv, Notify, Serving, Running
<1> QED BY <1>1, QuietGoto DEF Notify, Starting, WithPool, Migrating, Running

-----------------------------------------------------------------------------
(* The stop.                                                               *)

\* From a phase of a running process to a later one.
LEMMA StopFacts ==
  ASSUME IInv, NEW s \in Servers, NEW p \in {"drain", "close"}, Serving(s),
         phase' = [phase EXCEPT ![s] = p],
         UNCHANGED <<schema, lock, conf, pool, since, last, requests>>
  PROVE  /\ \A t \in Servers : phase'[t] = IF t = s THEN p ELSE phase[t]
         /\ phase' \in [Servers -> {"off"} \cup Starting \cup Running]
         /\ ConfInv' /\ LockInv' /\ SchemaInv' /\ EndInv'
         /\ \A t \in Servers : Serving(t)' => pool'[t] > 0
<1>0. TypeOK /\ ConfInv /\ LockInv /\ SchemaInv /\ EndInv
  BY DEF IInv
<1>1. \A t \in Servers : phase'[t] = IF t = s THEN p ELSE phase[t]
  BY <1>0 DEF TypeOK
<1>2. phase' \in [Servers -> {"off"} \cup Starting \cup Running]
  BY <1>0 DEF TypeOK, Running
<1>3. ConfInv'
  BY <1>0, <1>1 DEF ConfInv, Serving, Running, WithPool
<1>4. LockInv'
  BY <1>0, <1>1 DEF LockInv, Serving, Running, Migrating
<1>5. SchemaInv'
  BY <1>0, <1>1 DEF SchemaInv, Serving, Running
<1>6. EndInv'
  BY <1>0 DEF EndInv, GracefulStop, SnapshotsOutliveStop
<1>7. \A t \in Servers : Serving(t)' => pool'[t] > 0
  BY <1>3 DEF ConfInv, Serving, WithPool
<1> QED BY <1>1, <1>2, <1>3, <1>4, <1>5, <1>6, <1>7

LEMMA SignalKeepsInv ==
  ASSUME IInv, NEW s \in Servers, Signal(s)
  PROVE  IInv'
<1>0. TypeOK /\ StopInv
  BY DEF IInv
<1>1. /\ phase[s] = "wait" /\ phase' = [phase EXCEPT ![s] = "drain"]
      /\ bound' = [bound EXCEPT ![s] = FALSE]
      /\ UNCHANGED <<schema, lock, conf, pool, since, last, requests>>
      /\ faults' \in 0 .. MaxFaults
  BY <1>0, NumbersAssumption DEF Signal, Fault, TypeOK
<1>2. /\ \A t \in Servers : phase'[t] = IF t = s THEN "drain" ELSE phase[t]
      /\ phase' \in [Servers -> {"off"} \cup Starting \cup Running]
      /\ ConfInv' /\ LockInv' /\ SchemaInv' /\ EndInv'
      /\ \A t \in Servers : Serving(t)' => pool'[t] > 0
  BY <1>1, StopFacts DEF Serving, Running
<1>3. /\ bound' \in [Servers -> BOOLEAN]
      /\ \A t \in Servers : bound'[t] => t # s /\ bound[t]
  BY <1>0, <1>1 DEF TypeOK
<1>4. TypeOK'
  BY <1>0, <1>1, <1>2, <1>3 DEF TypeOK, requests
<1>5. StopInv'
  <2>1. since[s] = 0 /\ \A h \in On(s) : 0 <= age[h]
    BY <1>0, <1>1, NumbersAssumption DEF StopInv, TypeOK, On
  <2> QED BY <1>0, <1>1, <1>2, <1>3, <2>1 DEF StopInv, Idle, requests
<1> QED BY <1>2, <1>4, <1>5 DEF IInv

LEMMA ShutdownKeepsInv ==
  ASSUME IInv, NEW s \in Servers, Shutdown(s)
  PROVE  IInv'
<1>0. TypeOK /\ StopInv
  BY DEF IInv
<1>1. /\ phase[s] = "drain" /\ phase' = [phase EXCEPT ![s] = "close"]
      /\ UNCHANGED <<schema, lock, conf, pool, bound, since, last, requests, faults>>
  BY DEF Shutdown, Goto
<1>2. /\ \A t \in Servers : phase'[t] = IF t = s THEN "close" ELSE phase[t]
      /\ phase' \in [Servers -> {"off"} \cup Starting \cup Running]
      /\ ConfInv' /\ LockInv' /\ SchemaInv' /\ EndInv'
      /\ \A t \in Servers : Serving(t)' => pool'[t] > 0
  BY <1>1, StopFacts DEF Serving, Running
<1>3. TypeOK'
  BY <1>0, <1>1, <1>2 DEF TypeOK, requests
<1>4. /\ since[s] = Grace \/ Idle(s)
      /\ \A h \in On(s) : job[h] # "snapshot"
  <2>1. CASE Idle(s)
    BY <2>1 DEF Idle
  <2>2. CASE since[s] = Grace
    \* A snapshot request would be as old as the stop, past its own timeout.
    <3> SUFFICES ASSUME NEW h \in On(s), job[h] = "snapshot" PROVE FALSE
      BY <2>2
    <3>1. Grace <= age[h]
      BY <1>0, <1>1, <2>2 DEF StopInv
    <3>2. age[h] \in 0 .. SnapshotTimeout
      BY <1>0 DEF TypeOK, On
    <3> QED BY <3>1, <3>2, NumbersAssumption
  <2> QED BY <2>1, <2>2 DEF Shutdown, Idle
<1>5. StopInv'
  BY <1>0, <1>1, <1>2, <1>4 DEF StopInv, Idle, requests
<1> QED BY <1>2, <1>3, <1>5 DEF IInv

\* The ends of a running process.
LEMMA StopsKeepInv ==
  ASSUME IInv, NEW s \in Servers, PoolClosed(s) \/ Killed(s) \/ EvictLoopPanics(s)
  PROVE  IInv'
<1>0. faults \in 0 .. MaxFaults
  BY DEF IInv, TypeOK
<1>1. CASE PoolClosed(s)
  BY <1>0, <1>1, EndKeepsInv DEF PoolClosed, Ends
<1>2. CASE Killed(s)
  <2>1. faults' \in 0 .. MaxFaults
    BY <1>0, <1>2, NumbersAssumption DEF Killed, Fault
  <2> QED BY <1>2, <2>1, EndKeepsInv DEF Killed, Ends
<1>3. CASE EvictLoopPanics(s)
  BY <1>0, <1>3, EndKeepsInv DEF EvictLoopPanics, Ends
<1> QED BY <1>1, <1>2, <1>3

-----------------------------------------------------------------------------
(* The requests, and time.                                                 *)

\* A handler that waits for something else: it takes up a snapshot request only
\* from a process that listens, and leaves no process that is at its end undone.
LEMMA WaitKeepsInv ==
  ASSUME IInv, NEW h \in Handlers, NEW j \in Calls \cup {"idle"}, Wait(h, j),
         j = "snapshot" => phase[Home[h]] \notin {"drain", "close"},
         job[h] = "idle" => phase[Home[h]] # "close"
  PROVE  IInv'
<1>0. TypeOK /\ ConfInv /\ LockInv /\ SchemaInv /\ StopInv /\ EndInv
  BY DEF IInv
<1>1. /\ job' = [job EXCEPT ![h] = j] /\ age' = [age EXCEPT ![h] = 0]
      /\ UNCHANGED <<schema, lock, phase, conf, pool, bound, since, last, faults>>
  BY DEF Wait, process
<1>2. /\ job'[h] = j /\ age'[h] = 0
      /\ \A g \in Handlers \ {h} : job'[g] = job[g] /\ age'[g] = age[g]
  BY <1>0, <1>1 DEF TypeOK
<1>3. TypeOK'
  <2>1. /\ job' \in [Handlers -> {"idle"} \cup Calls]
        /\ age' \in [Handlers -> 0 .. SnapshotTimeout]
    BY <1>0, <1>1, NumbersAssumption DEF TypeOK
  <2> QED BY <1>0, <1>1, <2>1 DEF TypeOK, Serving
<1>4. StopInv'
  <2> SUFFICES ASSUME NEW s \in Servers
               PROVE  /\ phase[s] = "drain" =>
                           \A g \in On(s) : job'[g] = "snapshot" => since[s] <= age'[g]
                      /\ phase[s] = "close" =>
                           /\ since[s] = Grace \/ \A g \in On(s) : job'[g] = "idle"
                           /\ \A g \in On(s) : job'[g] # "snapshot"
    BY <1>0, <1>1 DEF StopInv, Idle
  <2>1. CASE h \in On(s)
    BY <1>0, <1>2, <2>1 DEF StopInv, Idle, On
  <2>2. CASE h \notin On(s)
    BY <1>0, <1>2, <2>2 DEF StopInv, Idle, On
  <2> QED BY <2>1, <2>2
<1>5. ConfInv' /\ LockInv' /\ SchemaInv' /\ EndInv'
  BY <1>0, <1>1 DEF ConfInv, LockInv, SchemaInv, Serving, EndInv, GracefulStop,
                    SnapshotsOutliveStop
<1> QED BY <1>3, <1>4, <1>5 DEF IInv

LEMMA RequestsKeepInv ==
  ASSUME IInv, NEW h \in Handlers,
         \/ \E j \in {"acquire", "snapshot", "exchange"} : Accept(h, j)
         \/ Acquire(h) \/ QueryEnds(h) \/ SnapshotEnds(h) \/ ExchangeEnds(h) \/ Reply(h)
  PROVE  IInv'
<1>1. CASE \E j \in {"acquire", "snapshot", "exchange"} : Accept(h, j)
  <2>1. phase[Home[h]] \in {"launch", "wait"}
    BY <1>1, HomeAssumption DEF Accept, IInv, StopInv
  <2> QED BY <1>1, <2>1, WaitKeepsInv DEF Accept, Calls
<1>2. CASE Acquire(h)
  BY <1>2, WaitKeepsInv DEF Acquire, Calls
<1>3. CASE QueryEnds(h)
  BY <1>3, WaitKeepsInv DEF QueryEnds, Calls
<1>4. CASE SnapshotEnds(h)
  BY <1>4, WaitKeepsInv DEF SnapshotEnds, Calls
<1>5. CASE ExchangeEnds(h)
  BY <1>5, WaitKeepsInv DEF ExchangeEnds, Calls
<1>6. CASE Reply(h)
  BY <1>6, WaitKeepsInv DEF Reply, Calls
<1> QED BY <1>1, <1>2, <1>3, <1>4, <1>5, <1>6

LEMMA TickKeepsInv ==
  ASSUME IInv, Tick
  PROVE  IInv'
<1>0. TypeOK /\ ConfInv /\ LockInv /\ SchemaInv /\ StopInv /\ EndInv
  BY DEF IInv
<1>1. UNCHANGED <<schema, lock, phase, conf, pool, bound, last, job, faults>>
  BY DEF Tick
<1>2. \A h \in Handlers : /\ job[h] = "snapshot" => age'[h] = age[h] + 1
                          /\ job[h] # "snapshot" => age'[h] = age[h]
                          /\ age'[h] \in 0 .. SnapshotTimeout
  <2> TAKE h \in Handlers
  <2>1. age[h] \in 0 .. SnapshotTimeout
    BY <1>0 DEF TypeOK
  <2>2. job[h] = "snapshot" => age[h] # SnapshotTimeout
    BY DEF Tick, Due
  <2>3. age'[h] = IF job[h] = "snapshot" THEN Least(age[h] + 1, SnapshotTimeout) ELSE age[h]
    BY DEF Tick
  <2> QED BY <2>1, <2>2, <2>3, NumbersAssumption DEF Least
<1>3. \A s \in Servers : /\ phase[s] = "drain" => since'[s] = since[s] + 1
                         /\ phase[s] # "drain" => since'[s] = since[s]
                         /\ since'[s] \in 0 .. Grace
  BY <1>0, NumbersAssumption DEF Tick, TypeOK
<1>4. TypeOK'
  <2>1. age' \in [Handlers -> 0 .. SnapshotTimeout] /\ since' \in [Servers -> 0 .. Grace]
    BY <1>2, <1>3 DEF Tick
  <2> QED BY <1>0, <1>1, <2>1 DEF TypeOK, Serving
<1>5. StopInv'
  <2>1. \A s \in Servers : phase[s] = "drain" =>
          \A h \in On(s) : job[h] = "snapshot" => since'[s] <= age'[h]
    <3> SUFFICES ASSUME NEW s \in Servers, phase[s] = "drain",
                        NEW h \in On(s), job[h] = "snapshot"
                 PROVE  since'[s] <= age'[h]
      OBVIOUS
    <3>1. since[s] <= age[h] /\ since[s] \in Int /\ age[h] \in Int
      BY <1>0, NumbersAssumption DEF StopInv, TypeOK, On
    <3> QED BY <1>2, <1>3, <3>1 DEF On
  <2> QED BY <1>0, <1>1, <1>3, <2>1 DEF StopInv, Idle
<1>6. ConfInv' /\ LockInv' /\ SchemaInv' /\ EndInv'
  BY <1>0, <1>1 DEF ConfInv, LockInv, SchemaInv, Serving, EndInv, GracefulStop,
                    SnapshotsOutliveStop
<1> QED BY <1>4, <1>5, <1>6 DEF IInv

-----------------------------------------------------------------------------
(* The theorems.                                                           *)

LEMMA InvStep == IInv /\ [Next]_vars => IInv'
<1> SUFFICES ASSUME IInv, [Next]_vars PROVE IInv'
  OBVIOUS
<1>1. CASE \E s \in Servers : \E c \in Configs : Load(s, c)
  BY <1>1, LoadKeepsInv
<1>2. CASE \E s \in Servers : Main(s)
  BY <1>2, StartKeepsInv, MigrationKeepsInv, NotifyKeepsInv, ShutdownKeepsInv, StopsKeepInv
     DEF Main
<1>3. CASE \E s \in Servers : Listen(s)
  BY <1>3, ListenKeepsInv
<1>4. CASE \E s \in Servers : MigrationStops(s)
  BY <1>4, StartKeepsInv
<1>5. CASE \E s \in Servers : Signal(s)
  BY <1>5, SignalKeepsInv
<1>6. CASE \E s \in Servers : Killed(s) \/ EvictLoopPanics(s)
  BY <1>6, StopsKeepInv
<1>7. CASE \E h \in Handlers :
             \/ \E j \in {"acquire", "snapshot", "exchange"} : Accept(h, j)
             \/ Acquire(h) \/ QueryEnds(h) \/ SnapshotEnds(h) \/ ExchangeEnds(h)
             \/ Reply(h)
  BY <1>7, RequestsKeepInv
<1>8. CASE Tick
  BY <1>8, TickKeepsInv
<1>9. CASE UNCHANGED vars
  <2>1. UNCHANGED <<schema, lock, phase, conf, pool, bound, since, last, job, age, faults>>
    BY <1>9 DEF vars, process, requests
  <2>2. TypeOK'
    BY <2>1 DEF IInv, TypeOK, Serving
  <2>3. ConfInv' /\ LockInv' /\ SchemaInv' /\ StopInv'
    BY <2>1 DEF IInv, ConfInv, LockInv, SchemaInv, StopInv, Serving, Idle
  <2>4. EndInv'
    BY <2>1 DEF IInv, EndInv, GracefulStop, SnapshotsOutliveStop
  <2> QED BY <2>2, <2>3, <2>4 DEF IInv
<1> QED BY <1>1, <1>2, <1>3, <1>4, <1>5, <1>6, <1>7, <1>8, <1>9 DEF Next

LEMMA InvHolds == Spec => []IInv
BY InvInit, InvStep, PTL DEF Spec

\* The state has its type, and what is beyond InitPostgres has a pool.
THEOREM TypeCorrect == Spec => []TypeOK
BY InvHolds, PTL DEF IInv

\* Whatever processes start, fail or are killed in the middle of a migration, one
\* that is past InitPostgres works on the whole schema, and a clean one
\* (store/postgres.go runMigrations).
THEOREM SchemaServed == Spec => []ServesMigrated
<1>1. IInv => ServesMigrated
  BY DEF IInv, SchemaInv, ServesMigrated, Migrated
<1> QED BY <1>1, InvHolds, PTL

\* A stop by a signal cuts a request off only when the ten seconds of Shutdown
\* are over (cmd/server/main.go).
THEOREM StopsGracefully == Spec => []GracefulStop
BY InvHolds, PTL DEF IInv, EndInv

\* No request to the snapshot service is cut off by a stop, as its client gives up
\* before Shutdown does (app/handlers.go snapshotClient).
THEOREM SnapshotsOutlive == Spec => []SnapshotsOutliveStop
BY InvHolds, PTL DEF IInv, EndInv
=============================================================================
