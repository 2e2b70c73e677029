------------------------ MODULE UnitPublicationProofs ------------------------
(***************************************************************************)
(* Theorems about the publication of units, for any units and identifiers. *)
(***************************************************************************)
EXTENDS UnitPublication, TLAPS

Elements(s) == {s[i] : i \in DOMAIN s}
Distinct(s) == \A i, j \in DOMAIN s : s[i] = s[j] => i = j

\* The state machine thread starts once: when it has, the timer is off and no
\* handler of it is left.
StartedOnce ==
    /\ thread # "off" => unit_server_sm = "Published" /\ ~timer /\ ~fired
    /\ started = IF thread = "off" THEN 0 ELSE 1

\* A pass meets only units of the unstable map.
Pass ==
    /\ thread # "steps" => todo = {}
    /\ ~crashed => todo \subseteq map_cuid_reg_unreg_instance

Placed == Distinct(queue_submitted_cu) /\ OneUnitPerCuid

\* Until the manager is deinitialized: a unit that was not adopted has not been
\* published, and one that is gone is published no more.
Followed(u) ==
    /\ u \in map_cuid_registered_instance => wu_instance_sm[u] = "Published" /\ ~active[u]
    /\ u \in actions <=> \/ wu_instance_sm[u] = "Published" /\ ~active[u]
                         \/ wu_instance_sm[u] = "StartUnpublishing"
    /\ wu_instance_sm[u] = "Publishing" => active[u]
    /\ u \notin loaded \/ u \in Queued => wu_instance_sm[u] = "Unpublished"
    /\ u \in gone => wu_instance_sm[u] \in
                        {"StartPublishing", "Unpublished", "PublishingFailure"}

States == phase # "deinited" => \A u \in Unit : Followed(u)

\* What every life-cycle call leaves of a unit: its thread runs only in a started
\* service, and if nothing threw, also whenever that is started, and nothing is
\* held once it is deinitialized.
Sane(r) ==
    /\ r.scheduler_run => r.service = "Started"
    /\ ~r.faulty => /\ r.service = "Started" => r.scheduler_run
                    /\ r.service = "Deinitilized" => ~r.storage

Rested(r) == ~r.scheduler_run /\ (~r.faulty => ~r.storage)

\* Units are at rest before their publication and after its end.
Lives ==
    \A u \in Unit :
        /\ Sane(unit[u])
        /\ phase # "deinited"
              /\ wu_instance_sm[u] \notin {"Published", "StartUnpublishing", "Unpublishing"}
           => Rested(unit[u])

IInv == TypeOK /\ StartedOnce /\ Pass /\ Placed /\ States /\ Lives

-----------------------------------------------------------------------------
\* What entering and leaving the queue does to its elements.
LEMMA EnqueueElements ==
  ASSUME NEW s \in Seq(Unit), NEW u \in Unit, Distinct(s), u \notin Elements(s)
  PROVE  /\ Append(s, u) \in Seq(Unit) /\ Distinct(Append(s, u))
         /\ Elements(Append(s, u)) = Elements(s) \cup {u}
  <1>1. Len(s) \in Nat /\ DOMAIN s = 1 .. Len(s) /\ Append(s, u) \in Seq(Unit)
    OBVIOUS
  <1>2. DOMAIN Append(s, u) = 1 .. Len(s) + 1 /\ Append(s, u)[Len(s) + 1] = u
    BY <1>1
  <1>3. \A i \in DOMAIN s : i \in DOMAIN Append(s, u) /\ Append(s, u)[i] = s[i]
    BY <1>1, <1>2
  <1>4. \A i \in DOMAIN Append(s, u) : i = Len(s) + 1 \/ i \in DOMAIN s
    BY <1>1, <1>2
  <1>5. Len(s) + 1 \in DOMAIN Append(s, u)
    BY <1>1, <1>2
  <1>6. Distinct(Append(s, u))
    BY <1>2, <1>3, <1>4 DEF Distinct, Elements
  <1> QED BY <1>1, <1>2, <1>3, <1>4, <1>5, <1>6 DEF Elements

LEMMA DequeueElements ==
  ASSUME NEW s \in Seq(Unit), s # <<>>, Distinct(s)
  PROVE  /\ Head(s) \in Unit /\ Head(s) \in Elements(s)
         /\ Tail(s) \in Seq(Unit) /\ Distinct(Tail(s))
         /\ Elements(Tail(s)) = Elements(s) \ {Head(s)}
  <1>1. Len(s) \in Nat /\ Len(s) >= 1 /\ DOMAIN s = 1 .. Len(s)
    OBVIOUS
  <1>2. Head(s) = s[1] /\ Head(s) \in Unit /\ 1 \in DOMAIN s /\ Tail(s) \in Seq(Unit)
    BY <1>1
  <1>3. DOMAIN Tail(s) = 1 .. Len(s) - 1 /\ \A i \in DOMAIN Tail(s) : Tail(s)[i] = s[i + 1]
    BY <1>1
  <1>4. \A i \in DOMAIN Tail(s) : i + 1 \in DOMAIN s /\ i + 1 # 1
    BY <1>1, <1>3
  <1>5. \A i \in DOMAIN s : i # 1 => i - 1 \in DOMAIN Tail(s) /\ Tail(s)[i - 1] = s[i]
    BY <1>1, <1>3
  <1>6. Distinct(Tail(s))
    <2> SUFFICES ASSUME NEW i \in DOMAIN Tail(s), NEW j \in DOMAIN Tail(s),
                        Tail(s)[i] = Tail(s)[j]
                 PROVE  i = j
      BY DEF Distinct
    <2>1. i + 1 \in DOMAIN s /\ j + 1 \in DOMAIN s /\ s[i + 1] = s[j + 1]
      BY <1>3, <1>4
    <2>2. i + 1 = j + 1
      BY <2>1 DEF Distinct
    <2> QED BY <1>1, <1>3, <2>2
  <1>7. ASSUME NEW x \in Elements(Tail(s)) PROVE x \in Elements(s) \ {Head(s)}
    BY <1>2, <1>3, <1>4, <1>7 DEF Elements, Distinct
  <1>8. ASSUME NEW x \in Elements(s) \ {Head(s)} PROVE x \in Elements(Tail(s))
    <2>1. PICK i \in DOMAIN s : x = s[i] /\ i # 1
      BY <1>2, <1>8 DEF Elements
    <2> QED BY <1>5, <2>1 DEF Elements
  <1> QED BY <1>2, <1>6, <1>7, <1>8 DEF Elements

\* What the life-cycle calls leave.
LEMMA DeinitLife ==
  ASSUME NEW r \in Life, Sane(r), NEW q \in deinitUnit(r)
  PROVE  /\ q \in Life /\ Sane(q)
         /\ q.scheduler_run = r.scheduler_run /\ (r.faulty => q.faulty)
         /\ ~q.faulty /\ r.service # "Started" => ~q.storage
  <1> DEFINE freed == [r EXCEPT !.cache = FALSE]
  <1>1. \/ q = [r EXCEPT !.faulty = TRUE]
        \/ /\ r.service \in {"Initialized", "Stopped"}
           /\ \/ q = [freed EXCEPT !.service = "Deinitilized", !.storage = FALSE]
              \/ q = [freed EXCEPT !.service = "Deinitilized", !.faulty = TRUE]
        \/ r.service \notin {"Initialized", "Stopped"} /\ q = freed
    BY DEF deinitUnit
  <1>2. CASE q = [r EXCEPT !.faulty = TRUE]
    BY <1>2 DEF Life, Sane
  <1>3. CASE /\ r.service \in {"Initialized", "Stopped"}
             /\ q = [freed EXCEPT !.service = "Deinitilized", !.storage = FALSE]
    BY <1>3 DEF Life, Sane
  <1>4. CASE /\ r.service \in {"Initialized", "Stopped"}
             /\ q = [freed EXCEPT !.service = "Deinitilized", !.faulty = TRUE]
    BY <1>4 DEF Life, Sane
  <1>5. CASE r.service \notin {"Initialized", "Stopped"} /\ q = freed
    BY <1>5 DEF Life, Sane
  <1> QED BY <1>1, <1>2, <1>3, <1>4, <1>5

LEMMA StopLife ==
  ASSUME NEW r \in Life, Sane(r), NEW q \in stopUnit(r)
  PROVE  /\ q \in Life /\ Sane(q)
         /\ ~q.scheduler_run /\ (~q.faulty => q.service # "Started")
  <1>1. CASE r.service = "Started" /\ r.scheduler_run
    <2>1. q = [r EXCEPT !.service = "Stopped", !.scheduler_run = FALSE]
      BY <1>1 DEF stopUnit
    <2> QED BY <2>1 DEF Life, Sane
  <1>2. CASE ~(r.service = "Started" /\ r.scheduler_run)
    <2>1. q = r
      BY <1>2 DEF stopUnit
    <2> QED BY <1>2, <2>1 DEF Life, Sane
  <1> QED BY <1>1, <1>2

LEMMA InitLife ==
  ASSUME NEW r \in Life, Sane(r), NEW q \in initUnit(r)
  PROVE  q \in Life /\ Sane(q)
  <1> DEFINE ready == [r EXCEPT !.service = "Initialized", !.scheduler_run = FALSE,
                                !.cache = TRUE, !.storage = TRUE]
             failed == [ready EXCEPT !.faulty = TRUE]
  <1>1. ready \in Life /\ Sane(ready) /\ failed \in Life /\ Sane(failed)
    BY DEF Life, Sane
  <1>2. CASE q \in deinitUnit(failed)
    BY <1>1, <1>2, DeinitLife
  <1>3. CASE q \notin deinitUnit(failed)
    <2>1. \/ q \in {r, ready}
          \/ \E b \in {r.storage, TRUE} : q = [r EXCEPT !.storage = b, !.faulty = TRUE]
      BY <1>3 DEF initUnit
    <2>2. CASE q \in {r, ready}
      BY <1>1, <2>2
    <2>3. ASSUME NEW b \in {r.storage, TRUE}, q = [r EXCEPT !.storage = b, !.faulty = TRUE]
          PROVE  q \in Life /\ Sane(q)
      BY <2>3 DEF Life, Sane
    <2> QED BY <2>1, <2>2, <2>3
  <1> QED BY <1>2, <1>3

LEMMA StartLife ==
  ASSUME NEW r \in Life, Sane(r), NEW q \in startUnit(r)
  PROVE  q \in Life /\ Sane(q)
  <1> DEFINE runs == [r EXCEPT !.service = "Started", !.scheduler_run = TRUE]
             failed == [runs EXCEPT !.faulty = TRUE]
  <1>1. runs \in Life /\ Sane(runs) /\ failed \in Life /\ Sane(failed)
    BY DEF Life, Sane
  <1>2. CASE q \in stopUnit(failed)
    BY <1>1, <1>2, StopLife
  <1>3. CASE q \notin stopUnit(failed)
    <2>1. q \in {r, runs} \/ q = [r EXCEPT !.service = "Started", !.faulty = TRUE]
      BY <1>3 DEF startUnit
    <2>2. CASE q \in {r, runs}
      BY <1>1, <2>2
    <2>3. CASE q = [r EXCEPT !.service = "Started", !.faulty = TRUE]
      BY <2>3 DEF Life, Sane
    <2> QED BY <2>1, <2>2, <2>3
  <1> QED BY <1>2, <1>3

LEMMA TornLife ==
  ASSUME NEW r \in Life, Sane(r), NEW q \in TornDown(r)
  PROVE  q \in Life /\ Sane(q) /\ Rested(q)
  <1>1. PICK p \in stopUnit(r) : q \in deinitUnit(p)
    BY DEF TornDown
  <1>2. p \in Life /\ Sane(p) /\ ~p.scheduler_run /\ (~p.faulty => p.service # "Started")
    BY StopLife
  <1>3. /\ q \in Life /\ Sane(q) /\ q.scheduler_run = p.scheduler_run
        /\ p.faulty => q.faulty
        /\ ~q.faulty /\ p.service # "Started" => ~q.storage
    BY <1>1, <1>2, DeinitLife
  <1> QED BY <1>2, <1>3 DEF Rested, Life

-----------------------------------------------------------------------------
Server == Expire \/ timeout \/ unitServerRegistrationACK

Calls(u) ==
    \/ Call(u, initUnit(unit[u])) \/ Call(u, startUnit(unit[u]))
    \/ Call(u, stopUnit(unit[u])) \/ Call(u, deinitUnit(unit[u]))

Steps(u) ==
    \/ StartPublishing(u) \/ sendConfPackToMDS(u) \/ Publish(u)
    \/ StartUnpublishing(u) \/ Unpublish(u) \/ Rest(u)

Loop == TestRun \/ QueueEmpty \/ TestUnstable \/ Wake

Asked(u) == submitControlUnit(u) \/ unloadControlUnit(u) \/ workUnitRegistrationACK(u)

Main == stop \/ Joined \/ deinit

LEMMA NextSplit ==
  ASSUME Next
  PROVE  \/ Server \/ Loop \/ Adopt \/ migrateStableAndUnstableSMCUInstance \/ Main
         \/ \E u \in Unit : Asked(u) \/ Calls(u) \/ Steps(u)
  BY DEF Next, Server, Loop, Main, Asked, Calls, Steps, SMThread, loadControlUnit

\* What the steps of a unit and the calls of its actions leave alone.
LEMMA StepsKeep ==
  ASSUME NEW u \in Unit, Steps(u)
  PROVE  /\ UNCHANGED <<phase, serverVars, thread, thread_run, answered, started, queueVars,
                        mapVars>>
         /\ ~crashed /\ thread = "steps" /\ u \in todo /\ todo' = todo \ {u}
  BY DEF Steps, StartPublishing, sendConfPackToMDS, Publish, StartUnpublishing, Unpublish,
         Rest, Meets

LEMMA CallsKeep ==
  ASSUME NEW u \in Unit, Calls(u), TypeOK, Sane(unit[u])
  PROVE  /\ UNCHANGED <<phase, serverVars, threadVars, queueVars, mapVars, workVars>>
         /\ ~crashed /\ u \in actions /\ crashed' \in BOOLEAN
         /\ \E r \in Life : Sane(r) /\ unit' = [unit EXCEPT ![u] = r]
  <1>1. unit[u] \in Life /\ unit = [unit EXCEPT ![u] = unit[u]]
    BY DEF TypeOK
  <1>2. ASSUME NEW R, Call(u, R), \A r \in R : r \in Life /\ Sane(r)
        PROVE  /\ UNCHANGED <<phase, serverVars, threadVars, queueVars, mapVars, workVars>>
               /\ ~crashed /\ u \in actions /\ crashed' \in BOOLEAN
               /\ \E r \in Life : Sane(r) /\ unit' = [unit EXCEPT ![u] = r]
    <2>1. /\ UNCHANGED <<phase, serverVars, threadVars, queueVars, mapVars, workVars>>
          /\ ~crashed /\ u \in actions
          /\ \/ crashed' = TRUE /\ unit' = unit
             \/ crashed' = crashed /\ \E r \in R : unit' = [unit EXCEPT ![u] = r]
      BY <1>2 DEF Call
    <2>2. crashed' \in BOOLEAN
      BY <2>1 DEF TypeOK
    <2>3. \E r \in Life : Sane(r) /\ unit' = [unit EXCEPT ![u] = r]
      BY <1>1, <1>2, <2>1
    <2> QED BY <2>1, <2>2, <2>3
  <1>3. CASE Call(u, initUnit(unit[u]))
    BY <1>1, <1>2, <1>3, InitLife
  <1>4. CASE Call(u, startUnit(unit[u]))
    BY <1>1, <1>2, <1>4, StartLife
  <1>5. CASE Call(u, stopUnit(unit[u]))
    BY <1>1, <1>2, <1>5, StopLife
  <1>6. CASE Call(u, deinitUnit(unit[u]))
    BY <1>1, <1>2, <1>6, DeinitLife
  <1> QED BY <1>3, <1>4, <1>5, <1>6 DEF Calls

-----------------------------------------------------------------------------
\* One state machine thread.
LEMMA StartedStep ==
  ASSUME StartedOnce, [Next]_vars
  PROVE  StartedOnce'
  <1> USE DEF StartedOnce, serverVars, threadVars
  <1>1. CASE UNCHANGED vars
    BY <1>1 DEF vars
  <1>2. CASE Server
    <2>1. CASE Expire
      BY <2>1 DEF Expire
    <2>2. CASE timeout
      BY <2>2 DEF timeout, sendUnitServerRegistration, removeTimer
    <2>3. CASE unitServerRegistrationACK
      BY <2>3 DEF unitServerRegistrationACK
    <2> QED BY <1>2, <2>1, <2>2, <2>3 DEF Server
  <1>3. CASE Loop
    BY <1>3 DEF Loop, TestRun, QueueEmpty, TestUnstable, Wake
  <1>4. CASE Adopt \/ migrateStableAndUnstableSMCUInstance
    BY <1>4 DEF Adopt, migrateStableAndUnstableSMCUInstance
  <1>5. CASE Main
    BY <1>5 DEF Main, stop, Joined, deinit
  <1>6. ASSUME NEW u \in Unit, Asked(u) \/ Calls(u) \/ Steps(u) PROVE StartedOnce'
    <2>1. CASE Asked(u)
      BY <2>1 DEF Asked, submitControlUnit, unloadControlUnit, workUnitRegistrationACK
    <2>2. CASE Calls(u)
      BY <2>2 DEF Calls, Call
    <2>3. CASE Steps(u)
      BY <2>3, StepsKeep
    <2> QED BY <1>6, <2>1, <2>2, <2>3
  <1> QED BY <1>1, <1>2, <1>3, <1>4, <1>5, <1>6, NextSplit

\* The units of a pass.
LEMMA PassStep ==
  ASSUME StartedOnce, Pass, [Next]_vars
  PROVE  Pass'
  <1> USE DEF Pass, threadVars, mapVars
  <1>1. CASE UNCHANGED vars
    BY <1>1 DEF vars
  <1>2. CASE Server
    <2>1. CASE Expire \/ unitServerRegistrationACK
      BY <2>1 DEF Expire, unitServerRegistrationACK
    <2>2. CASE timeout
      BY <2>2 DEF timeout, sendUnitServerRegistration, StartedOnce
    <2> QED BY <1>2, <2>1, <2>2 DEF Server
  <1>3. CASE Loop
    BY <1>3 DEF Loop, TestRun, QueueEmpty, TestUnstable, Wake
  <1>4. CASE Adopt \/ migrateStableAndUnstableSMCUInstance
    BY <1>4 DEF Adopt, migrateStableAndUnstableSMCUInstance
  <1>5. CASE Main
    BY <1>5 DEF Main, stop, Joined, deinit
  <1>6. ASSUME NEW u \in Unit, Asked(u) \/ Calls(u) \/ Steps(u) PROVE Pass'
    <2>1. CASE Asked(u)
      BY <2>1 DEF Asked, submitControlUnit, unloadControlUnit, workUnitRegistrationACK
    <2>2. CASE Calls(u)
      BY <2>2 DEF Calls, Call
    <2>3. CASE Steps(u)
      BY <2>3, StepsKeep
    <2> QED BY <1>6, <2>1, <2>2, <2>3
  <1> QED BY <1>1, <1>2, <1>3, <1>4, <1>5, <1>6, NextSplit

\* Each unit in one place, each identifier once.
LEMMA PlacedStep ==
  ASSUME TypeOK, Placed, [Next]_vars
  PROVE  Placed'
  <1> USE DEF Placed, OneUnitPerCuid, InMaps, queueVars, mapVars
  <1>0. /\ queue_submitted_cu \in Seq(Unit) /\ Queued = Elements(queue_submitted_cu)
        /\ Queued' = Elements(queue_submitted_cu')
    BY DEF TypeOK, Queued, Elements
  <1>1. ASSUME UNCHANGED <<queueVars, mapVars>> PROVE Placed'
    BY <1>0, <1>1
  <1>2. CASE UNCHANGED vars
    BY <1>1, <1>2 DEF vars
  <1>3. CASE Server \/ Loop
    BY <1>1, <1>3 DEF Server, Expire, timeout, unitServerRegistrationACK, Loop, TestRun,
        QueueEmpty, TestUnstable, Wake
  <1>4. CASE Adopt
    <2> DEFINE u == Head(queue_submitted_cu)
    <2>1. /\ u \in Queued /\ Distinct(queue_submitted_cu') /\ Queued' = Queued \ {u}
          /\ loaded' = loaded
          /\ map_cuid_registered_instance' = map_cuid_registered_instance
      BY <1>0, <1>4, DequeueElements DEF Adopt
    <2>2. CASE Known(Cuid[u])
      <3>1. /\ gone' = gone \cup {u}
            /\ map_cuid_reg_unreg_instance' = map_cuid_reg_unreg_instance
        BY <1>4, <2>2 DEF Adopt
      <3> QED BY <2>1, <3>1
    <2>3. CASE ~Known(Cuid[u])
      <3>1. /\ gone' = gone
            /\ map_cuid_reg_unreg_instance' = map_cuid_reg_unreg_instance \cup {u}
        BY <1>4, <2>3 DEF Adopt
      <3>2. \A v \in InMaps : Cuid[v] # Cuid[u]
        BY <2>3 DEF Known
      <3> QED BY <2>1, <3>1, <3>2
    <2> QED BY <2>2, <2>3
  <1>5. CASE migrateStableAndUnstableSMCUInstance
    <2> DEFINE rests == {u \in map_cuid_reg_unreg_instance : ~smNeedToSchedule(u)}
               published == {u \in rests : wu_instance_sm[u] = "Published"}
    <2>1. /\ map_cuid_reg_unreg_instance' = map_cuid_reg_unreg_instance \ rests
          /\ map_cuid_registered_instance' = map_cuid_registered_instance \cup published
          /\ gone' = gone \cup (rests \ published)
          /\ UNCHANGED queueVars
      BY <1>5 DEF migrateStableAndUnstableSMCUInstance
    <2>2. published \subseteq rests /\ rests \subseteq map_cuid_reg_unreg_instance
      OBVIOUS
    <2> HIDE DEF rests, published
    <2> QED BY <1>0, <2>1, <2>2
  <1>6. CASE Main
    <2>1. CASE stop \/ Joined
      BY <1>1, <2>1 DEF stop, Joined
    <2>2. CASE deinit
      <3>1. /\ gone' = gone \cup InMaps /\ UNCHANGED queueVars
            /\ map_cuid_reg_unreg_instance' = {} /\ map_cuid_registered_instance' = {}
        BY <2>2 DEF deinit
      <3> QED BY <1>0, <3>1
    <2> QED BY <1>6, <2>1, <2>2 DEF Main
  <1>7. ASSUME NEW u \in Unit, Asked(u) \/ Calls(u) \/ Steps(u) PROVE Placed'
    <2>1. CASE submitControlUnit(u)
      <3>1. /\ u \notin loaded /\ loaded' = loaded \cup {u} /\ UNCHANGED mapVars
            /\ queue_submitted_cu' = Append(queue_submitted_cu, u)
        BY <2>1 DEF submitControlUnit
      <3>2. Distinct(queue_submitted_cu') /\ Queued' = Queued \cup {u}
        BY <1>0, <3>1, EnqueueElements
      <3> QED BY <3>1, <3>2
    <2>2. CASE unloadControlUnit(u)
      <3>1. /\ u \in map_cuid_registered_instance
            /\ map_cuid_reg_unreg_instance' = map_cuid_reg_unreg_instance \cup {u}
            /\ map_cuid_registered_instance' = map_cuid_registered_instance \ {u}
            /\ UNCHANGED <<queueVars, gone>>
        BY <2>2 DEF unloadControlUnit
      <3> QED BY <1>0, <3>1
    <2>3. CASE workUnitRegistrationACK(u)
      BY <1>1, <2>3 DEF workUnitRegistrationACK
    <2>4. CASE Calls(u)
      BY <1>1, <2>4 DEF Calls, Call
    <2>5. CASE Steps(u)
      BY <1>1, <2>5, StepsKeep
    <2> QED BY <1>7, <2>1, <2>2, <2>3, <2>4, <2>5 DEF Asked
  <1> QED BY <1>2, <1>3, <1>4, <1>5, <1>6, <1>7, NextSplit

\* The states of the units follow their places and their actions.
LEMMA StatesStep ==
  ASSUME TypeOK, Pass, Placed, States, [Next]_vars
  PROVE  States'
  <1> SUFFICES ASSUME phase' # "deinited", NEW v \in Unit PROVE Followed(v)'
    BY DEF States
  <1> USE DEF queueVars, mapVars, workVars, Followed
  <1>0. phase # "deinited" => Followed(v)
    BY DEF States
  <1>1. ASSUME UNCHANGED <<phase, queueVars, mapVars, workVars>> PROVE Followed(v)'
    BY <1>0, <1>1 DEF Queued
  <1>2. CASE UNCHANGED vars
    BY <1>1, <1>2 DEF vars
  <1>3. CASE Server \/ Loop
    BY <1>1, <1>3 DEF Server, Expire, timeout, unitServerRegistrationACK, Loop, TestRun,
        QueueEmpty, TestUnstable, Wake
  <1>4. CASE Adopt
    <2> DEFINE u == Head(queue_submitted_cu)
    <2>1. u \in Queued /\ u \in Unit /\ Queued' = Queued \ {u}
      BY <1>4, DequeueElements DEF Adopt, TypeOK, Placed, Queued, Elements
    <2>2. /\ active' = [active EXCEPT ![u] = FALSE]
          /\ wu_instance_sm' = [wu_instance_sm EXCEPT ![u] = "StartPublishing"]
          /\ gone' \in {gone, gone \cup {u}}
          /\ UNCHANGED <<phase, loaded, map_cuid_registered_instance, actions>>
      BY <1>4 DEF Adopt
    <2>3. u \notin map_cuid_registered_instance /\ u \in loaded
      BY <2>1 DEF Placed, OneUnitPerCuid, InMaps
    <2>4. CASE v = u
      <3>1. wu_instance_sm'[v] = "StartPublishing"
        BY <2>2, <2>4 DEF TypeOK
      <3>2. v \notin actions
        BY <1>0, <2>1, <2>2, <2>4
      <3> QED BY <2>1, <2>2, <2>3, <2>4, <3>1, <3>2
    <2>5. CASE v # u
      <3>1. wu_instance_sm'[v] = wu_instance_sm[v] /\ active'[v] = active[v]
        BY <2>2, <2>5 DEF TypeOK
      <3> QED BY <1>0, <2>1, <2>2, <2>5, <3>1
    <2> QED BY <2>4, <2>5
  <1>5. CASE migrateStableAndUnstableSMCUInstance
    <2>1. /\ v \in map_cuid_registered_instance' =>
                v \in map_cuid_registered_instance
                  \/ (~smNeedToSchedule(v) /\ wu_instance_sm[v] = "Published")
          /\ v \in gone' => v \in gone
                  \/ (~smNeedToSchedule(v) /\ wu_instance_sm[v] # "Published")
          /\ UNCHANGED <<phase, queueVars, workVars>>
      <3> DEFINE rests == {u \in map_cuid_reg_unreg_instance : ~smNeedToSchedule(u)}
                 published == {u \in rests : wu_instance_sm[u] = "Published"}
      <3>1. /\ map_cuid_registered_instance' = map_cuid_registered_instance \cup published
            /\ gone' = gone \cup (rests \ published)
            /\ UNCHANGED <<phase, queueVars, workVars>>
        BY <1>5 DEF migrateStableAndUnstableSMCUInstance
      <3>2. /\ v \in published <=> v \in rests /\ wu_instance_sm[v] = "Published"
            /\ v \in rests => ~smNeedToSchedule(v)
        OBVIOUS
      <3> HIDE DEF rests, published
      <3> QED BY <3>1, <3>2
    <2> QED BY <1>0, <2>1 DEF smNeedToSchedule, Stable, Queued
  <1>6. CASE Main
    BY <1>0, <1>6 DEF Main, stop, Joined, deinit, Queued
  <1>7. ASSUME NEW u \in Unit, Asked(u) \/ Calls(u) \/ Steps(u) PROVE Followed(v)'
    <2>1. CASE submitControlUnit(u)
      <3>1. /\ u \notin loaded /\ loaded' = loaded \cup {u}
            /\ queue_submitted_cu' = Append(queue_submitted_cu, u)
            /\ UNCHANGED <<phase, mapVars, workVars>>
        BY <2>1 DEF submitControlUnit
      <3>2. Queued' = Queued \cup {u}
        <4>1. u \notin Queued
          BY <3>1 DEF Placed, OneUnitPerCuid
        <4>2. Queued = Elements(queue_submitted_cu) /\ Queued' = Elements(queue_submitted_cu')
          BY DEF Queued, Elements
        <4> QED BY <3>1, <4>1, <4>2, EnqueueElements DEF TypeOK, Placed
      <3> QED BY <1>0, <3>1, <3>2
    <2>2. CASE unloadControlUnit(u)
      <3>1. /\ u \in map_cuid_registered_instance
            /\ wu_instance_sm' = [wu_instance_sm EXCEPT ![u] = "StartUnpublishing"]
            /\ map_cuid_registered_instance' = map_cuid_registered_instance \ {u}
            /\ UNCHANGED <<phase, queueVars, gone, active, actions>>
        BY <2>2 DEF unloadControlUnit
      <3>2. u \in loaded /\ u \notin Queued /\ u \notin gone
        BY <3>1 DEF Placed, OneUnitPerCuid, InMaps
      <3>3. v # u => wu_instance_sm'[v] = wu_instance_sm[v]
        BY <3>1 DEF TypeOK
      <3>4. wu_instance_sm'[u] = "StartUnpublishing"
        BY <3>1 DEF TypeOK
      <3> QED BY <1>0, <3>1, <3>2, <3>3, <3>4 DEF Queued
    <2>3. CASE workUnitRegistrationACK(u)
      <3>1. /\ u \in map_cuid_reg_unreg_instance /\ wu_instance_sm[u] = "Publishing"
            /\ \E s \in {"Published", "PublishingFailure"} :
                  wu_instance_sm' = [wu_instance_sm EXCEPT ![u] = s]
            /\ UNCHANGED <<phase, queueVars, mapVars, active, actions>>
        BY <2>3 DEF workUnitRegistrationACK, Handles
      <3>2. u \in loaded /\ u \notin Queued /\ u \notin gone
              /\ u \notin map_cuid_registered_instance
        BY <3>1 DEF Placed, OneUnitPerCuid, InMaps
      <3>3. v # u => wu_instance_sm'[v] = wu_instance_sm[v]
        BY <3>1 DEF TypeOK
      <3>4. wu_instance_sm'[u] \in {"Published", "PublishingFailure"}
        BY <3>1 DEF TypeOK
      <3> QED BY <1>0, <3>1, <3>2, <3>3, <3>4 DEF Queued
    <2>4. CASE Calls(u)
      BY <1>1, <2>4 DEF Calls, Call
    <2>5. CASE Steps(u)
      <3>1. /\ UNCHANGED <<phase, queueVars, mapVars>>
            /\ u \in map_cuid_reg_unreg_instance
        BY <2>5, StepsKeep DEF Pass
      <3>2. u \in loaded /\ u \notin Queued /\ u \notin gone
              /\ u \notin map_cuid_registered_instance
        BY <3>1 DEF Placed, OneUnitPerCuid, InMaps
      <3>3. CASE v # u
        <4>1. /\ wu_instance_sm'[v] = wu_instance_sm[v] /\ active'[v] = active[v]
              /\ v \in actions' <=> v \in actions
          BY <2>5, <3>3 DEF TypeOK, Steps, StartPublishing, sendConfPackToMDS, Publish,
              StartUnpublishing, Unpublish, Rest, Registered, Deregistered
        <4> QED BY <1>0, <3>1, <4>1 DEF Queued
      <3>4. CASE v = u
        <4>1. /\ v \in actions' <=>
                    \/ wu_instance_sm'[v] = "Published" /\ ~active'[v]
                    \/ wu_instance_sm'[v] = "StartUnpublishing"
              /\ wu_instance_sm'[v] = "Publishing" => active'[v]
          <5>1. CASE StartPublishing(u)
            BY <1>0, <3>1, <3>4, <5>1 DEF StartPublishing, Meets, TypeOK
          <5>2. CASE sendConfPackToMDS(u)
            BY <1>0, <3>1, <3>4, <5>2 DEF sendConfPackToMDS, Meets, TypeOK
          <5>3. CASE Publish(u)
            BY <1>0, <3>1, <3>4, <5>3 DEF Publish, Meets, TypeOK, Registered
          <5>4. CASE StartUnpublishing(u)
            BY <1>0, <3>1, <3>4, <5>4 DEF StartUnpublishing, Meets, TypeOK, Deregistered
          <5>5. CASE Unpublish(u)
            BY <1>0, <3>1, <3>4, <5>5 DEF Unpublish, Meets, TypeOK
          <5>6. CASE Rest(u)
            BY <1>0, <3>1, <3>4, <5>6 DEF Rest, Meets, TypeOK
          <5> QED BY <2>5, <5>1, <5>2, <5>3, <5>4, <5>5, <5>6 DEF Steps
        <4> QED BY <3>1, <3>2, <3>4, <4>1 DEF Queued
      <3> QED BY <3>3, <3>4
    <2> QED BY <1>7, <2>1, <2>2, <2>3, <2>4, <2>5 DEF Asked
  <1> QED BY <1>2, <1>3, <1>4, <1>5, <1>6, <1>7, NextSplit

\* What a step of a unit's state machine, or a call of its actions, does to it.
LEMMA LivesStep ==
  ASSUME TypeOK, Pass, Placed, States, Lives, [Next]_vars
  PROVE  Lives' /\ unit' \in [Unit -> Life]
  <1> DEFINE Away == {"Published", "StartUnpublishing", "Unpublishing"}
             Alive(v) == phase # "deinited" /\ wu_instance_sm[v] \notin Away
  <1>0. /\ unit \in [Unit -> Life] /\ wu_instance_sm \in [Unit -> UnitState]
        /\ \A v \in Unit : Sane(unit[v]) /\ (Alive(v) => Rested(unit[v]))
    BY DEF TypeOK, Lives
  <1>1. ASSUME UNCHANGED unit, \A v \in Unit : Alive(v)' => Alive(v)
        PROVE  Lives' /\ unit' \in [Unit -> Life]
    BY <1>0, <1>1 DEF Lives
  <1> USE DEF workVars
  <1>2. ASSUME UNCHANGED <<phase, wu_instance_sm, unit>>
        PROVE  Lives' /\ unit' \in [Unit -> Life]
    BY <1>1, <1>2
  <1>3. CASE UNCHANGED vars
    BY <1>2, <1>3 DEF vars
  <1>4. CASE Server \/ Loop \/ migrateStableAndUnstableSMCUInstance
    BY <1>2, <1>4 DEF Server, Expire, timeout, unitServerRegistrationACK, Loop, TestRun,
        QueueEmpty, TestUnstable, Wake, migrateStableAndUnstableSMCUInstance
  <1>5. CASE Adopt
    <2> DEFINE u == Head(queue_submitted_cu)
    <2>1. u \in Queued /\ u \in Unit
      BY <1>5, DequeueElements DEF Adopt, TypeOK, Placed, Queued, Elements
    <2>2. phase # "deinited" => wu_instance_sm[u] = "Unpublished"
      BY <2>1 DEF States, Followed
    <2>3. UNCHANGED <<phase, unit>>
            /\ wu_instance_sm' = [wu_instance_sm EXCEPT ![u] = "StartPublishing"]
      BY <1>5 DEF Adopt
    <2> HIDE DEF u
    <2>4. \A v \in Unit : Alive(v)' => Alive(v)
      BY <1>0, <2>1, <2>2, <2>3
    <2> QED BY <1>1, <2>3, <2>4
  <1>6. CASE Main
    <2>1. CASE stop \/ Joined
      BY <1>0, <1>1, <2>1 DEF stop, Joined
    <2>2. CASE deinit
      <3>1. /\ phase' = "deinited" /\ DOMAIN unit' = Unit /\ unit' = [v \in Unit |-> unit'[v]]
            /\ \A v \in Unit : unit'[v] \in TakenDown(v) \/ unit'[v] = unit[v]
        BY <2>2 DEF deinit
      <3>2. \A v \in Unit : unit'[v] \in Life /\ Sane(unit'[v])
        <4> SUFFICES ASSUME NEW v \in Unit PROVE unit'[v] \in Life /\ Sane(unit'[v])
          OBVIOUS
        <4>1. \A q \in TornDown(unit[v]) : q \in Life /\ Sane(q)
          BY <1>0, TornLife
        <4>2. \A q \in TornDown(unit[v]) : \A p \in TornDown(q) : p \in Life /\ Sane(p)
          BY <4>1, TornLife
        <4>3. \A p \in TakenDown(v) : p \in Life /\ Sane(p)
          BY <4>1, <4>2 DEF TakenDown
        <4> QED BY <1>0, <3>1, <4>3
      <3>3. unit' \in [Unit -> Life]
        BY <3>1, <3>2
      <3> QED BY <3>1, <3>2, <3>3 DEF Lives
    <2> QED BY <1>6, <2>1, <2>2 DEF Main
  <1>7. ASSUME NEW u \in Unit, Asked(u) \/ Calls(u) \/ Steps(u)
        PROVE  Lives' /\ unit' \in [Unit -> Life]
    <2>0. ASSUME NEW r \in Life, Sane(r), unit' = [unit EXCEPT ![u] = r],
                 \A v \in Unit \ {u} : Alive(v)' => Alive(v),
                 Alive(u)' => Rested(r)
          PROVE  Lives' /\ unit' \in [Unit -> Life]
      <3>1. unit' \in [Unit -> Life] /\ unit'[u] = r
              /\ \A v \in Unit \ {u} : unit'[v] = unit[v]
        BY <1>0, <2>0
      <3>2. ASSUME NEW v \in Unit PROVE Sane(unit'[v]) /\ (Alive(v)' => Rested(unit'[v]))
        <4>1. CASE v = u
          BY <2>0, <3>1, <4>1
        <4>2. CASE v # u
          BY <1>0, <2>0, <3>1, <4>2
        <4> QED BY <4>1, <4>2
      <3> QED BY <3>1, <3>2 DEF Lives
    <2>1. CASE submitControlUnit(u)
      BY <1>2, <2>1 DEF submitControlUnit
    <2>2. CASE unloadControlUnit(u)
      <3>1. UNCHANGED <<phase, unit>>
              /\ wu_instance_sm' = [wu_instance_sm EXCEPT ![u] = "StartUnpublishing"]
        BY <2>2 DEF unloadControlUnit
      <3>2. \A v \in Unit : Alive(v)' => Alive(v)
        BY <1>0, <3>1
      <3> QED BY <1>1, <3>1, <3>2
    <2>3. CASE workUnitRegistrationACK(u)
      <3>1. /\ UNCHANGED <<phase, unit>> /\ wu_instance_sm[u] = "Publishing"
            /\ \E s \in {"Published", "PublishingFailure"} :
                  wu_instance_sm' = [wu_instance_sm EXCEPT ![u] = s]
        BY <2>3 DEF workUnitRegistrationACK, Handles
      <3>2. \A v \in Unit : Alive(v)' => Alive(v)
        BY <1>0, <3>1
      <3> QED BY <1>1, <3>1, <3>2
    <2>4. CASE Calls(u)
      <3>1. /\ UNCHANGED <<phase, wu_instance_sm>> /\ u \in actions
            /\ \E r \in Life : Sane(r) /\ unit' = [unit EXCEPT ![u] = r]
        BY <1>0, <2>4, CallsKeep
      <3>2. ~Alive(u)'
        BY <3>1 DEF States, Followed
      <3> QED BY <2>0, <3>1, <3>2
    <2>5. CASE Steps(u)
      <3>1. UNCHANGED phase
        BY <2>5, StepsKeep
      <3>2. CASE Unpublish(u)
        <4>1. /\ wu_instance_sm' = [wu_instance_sm EXCEPT ![u] = "Unpublished"]
              /\ \E r \in TornDown(unit[u]) : unit' = [unit EXCEPT ![u] = r]
          BY <3>2 DEF Unpublish
        <4>2. \A r \in TornDown(unit[u]) : r \in Life /\ Sane(r) /\ Rested(r)
          BY <1>0, TornLife
        <4>3. \A v \in Unit \ {u} : Alive(v)' => Alive(v)
          BY <1>0, <3>1, <4>1
        <4> QED BY <2>0, <4>1, <4>2, <4>3
      <3>3. CASE ~Unpublish(u)
        <4>1. UNCHANGED unit
          BY <2>5, <3>3 DEF Steps, StartPublishing, sendConfPackToMDS, Publish,
              StartUnpublishing, Rest
        <4>2. \A v \in Unit : Alive(v)' => Alive(v)
          BY <1>0, <2>5, <3>1, <3>3 DEF Steps, StartPublishing, sendConfPackToMDS, Publish,
              StartUnpublishing, Rest, Meets
        <4> QED BY <1>1, <4>1, <4>2
      <3> QED BY <3>2, <3>3
    <2> QED BY <1>7, <2>1, <2>2, <2>3, <2>4, <2>5 DEF Asked
  <1> QED BY <1>3, <1>4, <1>5, <1>6, <1>7, NextSplit

LEMMA TypesStep ==
  ASSUME TypeOK, StartedOnce, Placed, Lives, unit' \in [Unit -> Life], [Next]_vars
  PROVE  TypeOK'
  <1> USE DEF TypeOK, serverVars, threadVars, queueVars, mapVars, workVars
  <1>1. CASE UNCHANGED vars
    BY <1>1 DEF vars
  <1>2. CASE Expire \/ unitServerRegistrationACK
    BY <1>2 DEF Expire, unitServerRegistrationACK
  <1>3. CASE timeout
    <2>1. /\ UNCHANGED <<phase, todo, answered, queueVars, mapVars, workVars, unit>>
          /\ unit_server_sm' \in {unit_server_sm, "Publishing"}
          /\ fired' = FALSE /\ timer' \in {timer, FALSE}
          /\ use_unit_server' \in {use_unit_server, FALSE}
          /\ thread' \in {thread, "top"} /\ thread_run' \in {thread_run, TRUE}
          /\ started' \in {started, started + 1}
      BY <1>3 DEF timeout, sendUnitServerRegistration, removeTimer
    <2>2. crashed' \in BOOLEAN
      BY <1>3 DEF timeout, sendUnitServerRegistration
    <2>3. /\ unit_server_sm' \in {"Unpublished", "Publishing", "Published", "PublishingFailure"}
          /\ thread' \in {"off", "top", "queue", "migrate", "test", "steps", "wait", "ended"}
          /\ started' \in Nat
      BY <2>1
    <2>4. {use_unit_server, timer, fired, thread_run, answered, crashed}' \subseteq BOOLEAN
      BY <2>1, <2>2
    <2> QED BY <2>1, <2>3, <2>4
  <1>4. CASE Loop
    BY <1>4 DEF Loop, TestRun, QueueEmpty, TestUnstable, Wake
  <1>5. CASE Adopt
    <2>1. Head(queue_submitted_cu) \in Unit /\ Tail(queue_submitted_cu) \in Seq(Unit)
      BY <1>5, DequeueElements DEF Adopt, Placed
    <2> QED BY <1>5, <2>1 DEF Adopt, UnitState
  <1>6. CASE migrateStableAndUnstableSMCUInstance
    <2> DEFINE rests == {u \in map_cuid_reg_unreg_instance : ~smNeedToSchedule(u)}
               published == {u \in rests : wu_instance_sm[u] = "Published"}
    <2>1. /\ map_cuid_reg_unreg_instance' = map_cuid_reg_unreg_instance \ rests
          /\ map_cuid_registered_instance' = map_cuid_registered_instance \cup published
          /\ gone' = gone \cup (rests \ published) /\ thread' = "test"
          /\ UNCHANGED <<phase, serverVars, thread_run, answered, started, todo, queueVars,
                         workVars, unit, crashed>>
      BY <1>6 DEF migrateStableAndUnstableSMCUInstance
    <2>2. rests \subseteq Unit /\ published \subseteq rests
      OBVIOUS
    <2> HIDE DEF rests, published
    <2> QED BY <2>1, <2>2
  <1>7. CASE Main
    BY <1>7 DEF Main, stop, Joined, deinit, InMaps
  <1>8. ASSUME NEW u \in Unit, Asked(u) \/ Calls(u) \/ Steps(u) PROVE TypeOK'
    <2>1. CASE submitControlUnit(u)
      BY <2>1, SMTT(30) DEF submitControlUnit
    <2>2. CASE unloadControlUnit(u)
      BY <2>2 DEF unloadControlUnit, UnitState
    <2>3. CASE workUnitRegistrationACK(u)
      BY <2>3 DEF workUnitRegistrationACK, UnitState, Stable
    <2>4. CASE Calls(u)
      BY <2>4, CallsKeep DEF Lives
    <2>5. CASE Steps(u)
      <3>1. CASE StartPublishing(u) \/ sendConfPackToMDS(u) \/ Publish(u)
        BY <2>5, <3>1, StepsKeep DEF StartPublishing, sendConfPackToMDS, Publish,
            UnitState, Stable, Registered
      <3>2. CASE StartUnpublishing(u) \/ Unpublish(u) \/ Rest(u)
        BY <2>5, <3>2, StepsKeep DEF StartUnpublishing, Unpublish, Rest,
            UnitState, Stable, Deregistered
      <3> QED BY <2>5, <3>1, <3>2 DEF Steps
    <2> QED BY <1>8, <2>1, <2>2, <2>3, <2>4, <2>5 DEF Asked
  <1> QED BY <1>1, <1>2, <1>3, <1>4, <1>5, <1>6, <1>7, <1>8, NextSplit DEF Server

LEMMA Inductive == Spec => []IInv
  <1>1. Init => IInv
    <2> SUFFICES ASSUME Init PROVE IInv
      OBVIOUS
    <2> USE DEF Init
    <2>0. Fresh \in Life /\ <<>> \in Seq(Unit)
      BY DEF Life, Fresh
    <2>1. TypeOK /\ StartedOnce /\ Pass
      BY <2>0 DEF TypeOK, StartedOnce, Pass, UnitState, Stable
    <2>2. Queued = {} /\ Distinct(queue_submitted_cu)
      BY DEF Queued, Distinct
    <2>3. Placed /\ States
      BY <2>2 DEF Placed, OneUnitPerCuid, InMaps, States, Followed
    <2>4. Lives
      BY DEF Lives, Sane, Rested, Fresh
    <2> QED BY <2>1, <2>3, <2>4 DEF IInv
  <1>2. IInv /\ [Next]_vars => IInv'
    BY TypesStep, StartedStep, PassStep, PlacedStep, StatesStep, LivesStep DEF IInv
  <1> QED BY <1>1, <1>2, PTL DEF Spec

\* Every variable of ControlManager, its thread and the units keeps its type.
THEOREM TypeCorrect == Spec => []TypeOK
  <1>1. IInv => TypeOK
    BY DEF IInv
  <1> QED BY <1>1, Inductive, PTL

\* Every unit that was submitted is in one place, and the maps hold one unit of
\* an identifier at most.
THEOREM IdentifiersUnique == Spec => []OneUnitPerCuid
  <1>1. IInv => OneUnitPerCuid
    BY DEF IInv, Placed
  <1> QED BY <1>1, Inductive, PTL

\* WorkUnitManagement keeps a unit's actions registered exactly while the unit is
\* published.
THEOREM PublishedServes == Spec => []ServesWhilePublished
  <1>1. IInv => ServesWhilePublished
    BY DEF IInv, States, Followed, ServesWhilePublished, TypeOK
  <1> QED BY <1>1, Inductive, PTL

\* What the manager destroys while it runs is quiet and has released what it
\* held.
THEOREM DestroyedQuiet == Spec => []QuietWhenGone
  <1>1. IInv => QuietWhenGone
    BY DEF IInv, States, Followed, Lives, Rested, QuietWhenGone, TypeOK
  <1> QED BY <1>1, Inductive, PTL

\* sendUnitServerRegistration and the answers to it start the state machine
\* thread once.
THEOREM ThreadStartedOnce == Spec => []OneSMThread
  <1>1. IInv => OneSMThread
    BY DEF IInv, StartedOnce, OneSMThread
  <1> QED BY <1>1, Inductive, PTL
=============================================================================
