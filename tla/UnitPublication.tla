-------------------------- MODULE UnitPublication --------------------------
(***************************************************************************)
(* How a unit server publishes its control units: the control manager and  *)
(* its state machine thread, the registration of the unit server, the work *)
(* unit state machines and the control units they set up and tear down     *)
(* (ControlManager, WorkUnitManagement, AbstractControlUnit and            *)
(* RTAbstractControlUnit in chaos/cu_toolkit/ControlManager).              *)
(*                                                                         *)
(* The threads: the event loop runs the registration timer's timeout; the  *)
(* state machine thread runs manageControlUnit; the worker of the system   *)
(* domain runs the manager's RPC actions, one after the other; the worker  *)
(* of each unit's domain runs the unit's; the main thread starts, stops    *)
(* and deinitializes the manager.                                          *)
(*                                                                         *)
(* A work unit and the control unit it manages are one Unit, made by one   *)
(* load; units of one Cuid follow each other or collide.  The metadata     *)
(* server and the network are external: a registration that was sent may   *)
(* be answered at any later time, well or badly, once, often or never (it  *)
(* is sent again as long as no answer comes), and an answer names the      *)
(* identifier only.                                                        *)
(***************************************************************************)
EXTENDS Naturals, Sequences, FiniteSets

CONSTANTS
    Unit,
    Cuid                            \* the identifier of each unit

ASSUME UnitAssumption == IsFiniteSet(Unit) /\ DOMAIN Cuid = Unit

VARIABLES
    phase,                          \* of the manager, in the main thread
    unit_server_sm, use_unit_server,
    timer,                          \* the timer is armed
    fired,                          \* its handler waits for the lock
    thread, thread_run,             \* the state machine thread
    answered,                       \* its semaphore's flag
    started,                        \* how often it was started
    todo,                           \* units left in its pass
    queue_submitted_cu, loaded,
    map_cuid_reg_unreg_instance, map_cuid_registered_instance,
    gone,                           \* units destroyed
    wu_instance_sm, active,         \* of each work unit
    registrations,                  \* identifiers sent to the metadata server
    actions,                        \* units whose RPC actions are registered
    unit,                           \* of each control unit: see Fresh
    crashed

serverVars == <<unit_server_sm, use_unit_server, timer, fired>>
threadVars == <<thread, thread_run, answered, started, todo>>
queueVars == <<queue_submitted_cu, loaded>>
mapVars == <<map_cuid_reg_unreg_instance, map_cuid_registered_instance, gone>>
workVars == <<wu_instance_sm, active, registrations, actions>>

vars == <<phase, serverVars, threadVars, queueVars, mapVars, workVars, unit,
          crashed>>

\* A control unit: the state of its service, whether its scheduling thread
\* runs, whether its attribute_shared_cache_wrapper exists, whether it holds
\* driver accessors and a data storage, and whether a method of its own, or
\* of its storage, ever threw.
Fresh == [service |-> "Deinitilized", scheduler_run |-> FALSE, cache |-> FALSE,
          storage |-> FALSE, faulty |-> FALSE]

Init ==
    /\ phase = "started" /\ crashed = FALSE
    /\ unit_server_sm = "Unpublished" /\ use_unit_server = TRUE
    /\ timer = TRUE /\ fired = FALSE
    /\ thread = "off" /\ thread_run = FALSE /\ answered = FALSE
    /\ started = 0 /\ todo = {}
    /\ queue_submitted_cu = <<>> /\ loaded = {}
    /\ map_cuid_reg_unreg_instance = {} /\ map_cuid_registered_instance = {}
    /\ gone = {}
    /\ wu_instance_sm = [u \in Unit |-> "Unpublished"]
    /\ active = [u \in Unit |-> TRUE]
    /\ registrations = {} /\ actions = {}
    /\ unit = [u \in Unit |-> Fresh]

-----------------------------------------------------------------------------
(***************************************************************************)
(* The unit server's registration: the timer's handler and the answer.     *)
(***************************************************************************)

\* The event loop takes the expired timer, which repeats, and calls its
\* handler: timeout, which waits for unit_server_sm_mutex.
Expire ==
    /\ ~crashed /\ timer /\ ~fired
    /\ fired' = TRUE
    /\ UNCHANGED <<phase, unit_server_sm, use_unit_server, timer, threadVars,
                   queueVars, mapVars, workVars, unit, crashed>>

\* A handler that does not turn its timer off.
removeTimer_Not == TRUE

removeTimer == FALSE

\* Without a channel to the metadata server, which deinit deletes, sending
\* reads a null pointer.
sendUnitServerRegistration ==
    /\ crashed' = (phase = "deinited")
    /\ UNCHANGED timer

timeout ==
    /\ ~crashed /\ fired
    /\ fired' = FALSE
    /\ \/ /\ unit_server_sm = "Unpublished" /\ use_unit_server
          /\ unit_server_sm' = "Publishing"
          /\ sendUnitServerRegistration
          /\ UNCHANGED <<use_unit_server, threadVars>>
       \/ /\ unit_server_sm = "Publishing"
          /\ sendUnitServerRegistration
          /\ UNCHANGED <<unit_server_sm, use_unit_server, threadVars>>
       \/ /\ unit_server_sm = "Published"
          /\ timer' = removeTimer
          /\ thread' = "top" /\ thread_run' = TRUE
          /\ started' = started + 1
          /\ UNCHANGED <<unit_server_sm, use_unit_server, answered, todo, crashed>>
       \/ /\ unit_server_sm = "PublishingFailure"
          /\ timer' = removeTimer
          /\ use_unit_server' = FALSE
          /\ UNCHANGED <<unit_server_sm, threadVars, crashed>>
    /\ UNCHANGED <<phase, queueVars, mapVars, workVars, unit>>

\* The manager's RPC actions are registered until its deinit takes them off.
Serves == ~crashed /\ phase # "deinited"

\* An answer to a registration; one that comes again, or after the end of the
\* publishing, is refused by the state machine and the handler throws.
unitServerRegistrationACK ==
    /\ Serves /\ unit_server_sm = "Publishing"
    /\ unit_server_sm' \in {"Published", "PublishingFailure"}
    /\ timer' = TRUE
    /\ UNCHANGED <<phase, use_unit_server, fired, threadVars, queueVars, mapVars,
                   workVars, unit, crashed>>

-----------------------------------------------------------------------------
(***************************************************************************)
(* A control unit's life: the results each operation can leave it with.    *)
(***************************************************************************)

\* Its own unitDeinit throws: all the rest is left out.  Its service is
\* started, or was never initialized: the service refuses, the caches go.
deinitUnit(r) ==
    LET freed == [r EXCEPT !.cache = FALSE] IN
    {[r EXCEPT !.faulty = TRUE]} \cup
    IF r.service \in {"Initialized", "Stopped"}
    THEN {[freed EXCEPT !.service = "Deinitilized", !.storage = FALSE],
          [freed EXCEPT !.service = "Deinitilized", !.faulty = TRUE]}
    ELSE {freed}

\* Stopping a thread that does not run throws, and the service is set back to
\* started.
stopUnit(r) ==
    IF r.service = "Started" /\ r.scheduler_run
    THEN {[r EXCEPT !.service = "Stopped", !.scheduler_run = FALSE]}
    ELSE {r}

\* The infrastructure's init throws, with the drivers taken or not; or the
\* unit's own initialization does, and the unit is deinitialized again.
initUnit(r) ==
    LET ready == [r EXCEPT !.service = "Initialized", !.scheduler_run = FALSE,
                           !.cache = TRUE, !.storage = TRUE] IN
    IF r.service = "Deinitilized"
    THEN {ready} \cup {[r EXCEPT !.storage = b, !.faulty = TRUE] :
                          b \in {r.storage, TRUE}}
                 \cup deinitUnit([ready EXCEPT !.faulty = TRUE])
    ELSE {r}

\* When start throws before its thread exists, the service's table has no way
\* back and it stays started.  When unitStart throws the unit is stopped.
startUnit(r) ==
    LET runs == [r EXCEPT !.service = "Started", !.scheduler_run = TRUE] IN
    IF r.service \in {"Initialized", "Stopped"}
    THEN {runs, [r EXCEPT !.service = "Started", !.faulty = TRUE]}
         \cup stopUnit([runs EXCEPT !.faulty = TRUE])
    ELSE {r}

TornDown(r) == UNION {deinitUnit(q) : q \in stopUnit(r)}

\* The worker of the unit's domain calls an action of the unit; a call into a
\* destroyed unit is undefined.
Call(u, results) ==
    /\ ~crashed /\ u \in actions
    /\ IF u \in gone THEN crashed' = TRUE /\ UNCHANGED unit
       ELSE /\ \E r \in results : unit' = [unit EXCEPT ![u] = r]
            /\ UNCHANGED crashed
    /\ UNCHANGED <<phase, serverVars, threadVars, queueVars, mapVars, workVars>>

-----------------------------------------------------------------------------
(***************************************************************************)
(* What other threads ask of the manager.                                  *)
(***************************************************************************)

InMaps == map_cuid_reg_unreg_instance \cup map_cuid_registered_instance

\* A check that misses the units that are being published or unpublished.
Known_Registered(c) == \E v \in map_cuid_registered_instance : Cuid[v] = c

Known(c) == \E v \in InMaps : Cuid[v] = c

\* The state machine thread holds the queue's lock while it empties it.
submitControlUnit(u) ==
    /\ ~crashed /\ u \notin loaded /\ thread # "queue"
    /\ loaded' = loaded \cup {u}
    /\ queue_submitted_cu' = Append(queue_submitted_cu, u)
    /\ answered' = TRUE
    /\ UNCHANGED <<phase, serverVars, thread, thread_run, started, todo, mapVars,
                   workVars, unit, crashed>>

loadControlUnit(u) == Serves /\ ~Known(Cuid[u]) /\ submitControlUnit(u)

\* The unit is put in the other map without its lock: a pass that is being
\* made over that map meets it or does not.
unloadControlUnit(u) ==
    /\ Serves /\ u \in map_cuid_registered_instance
    /\ map_cuid_reg_unreg_instance' = map_cuid_reg_unreg_instance \cup {u}
    /\ wu_instance_sm' = [wu_instance_sm EXCEPT ![u] = "StartUnpublishing"]
    /\ map_cuid_registered_instance' = map_cuid_registered_instance \ {u}
    /\ answered' = TRUE
    /\ todo' \in IF thread = "steps" THEN {todo, todo \cup {u}} ELSE {todo}
    /\ UNCHANGED <<phase, serverVars, thread, thread_run, started, queueVars, gone,
                   active, registrations, actions, unit, crashed>>

Handles(s) == s = "Publishing"

\* An answer for the unit of an identifier that is in the unstable map; the
\* state machine has a row for it only while the unit is publishing.
workUnitRegistrationACK(u) ==
    /\ Serves
    /\ Cuid[u] \in registrations /\ u \in map_cuid_reg_unreg_instance
    /\ Handles(wu_instance_sm[u])
    /\ \E s \in {"Published", "PublishingFailure"} :
          wu_instance_sm' = [wu_instance_sm EXCEPT ![u] = s]
    /\ UNCHANGED <<phase, serverVars, threadVars, queueVars, mapVars, active,
                   registrations, actions, unit, crashed>>

-----------------------------------------------------------------------------
(***************************************************************************)
(* The state machine thread: manageControlUnit.                            *)
(***************************************************************************)

TestRun ==
    /\ ~crashed /\ thread = "top"
    /\ thread' = IF thread_run THEN "queue" ELSE "ended"
    /\ UNCHANGED <<phase, serverVars, thread_run, answered, started, todo,
                   queueVars, mapVars, workVars, unit, crashed>>

\* One submitted unit: its manager makes a first step and is turned on; a
\* unit whose identifier is known is dropped.
Adopt ==
    LET u == Head(queue_submitted_cu) IN
    /\ ~crashed /\ thread = "queue" /\ queue_submitted_cu # <<>>
    /\ queue_submitted_cu' = Tail(queue_submitted_cu)
    /\ active' = [active EXCEPT ![u] = FALSE]
    /\ wu_instance_sm' = [wu_instance_sm EXCEPT ![u] = "StartPublishing"]
    /\ IF Known(Cuid[u])
       THEN gone' = gone \cup {u} /\ UNCHANGED map_cuid_reg_unreg_instance
       ELSE /\ map_cuid_reg_unreg_instance' = map_cuid_reg_unreg_instance \cup {u}
            /\ UNCHANGED gone
    /\ UNCHANGED <<phase, serverVars, threadVars, loaded,
                   map_cuid_registered_instance, registrations, actions, unit,
                   crashed>>

QueueEmpty ==
    /\ ~crashed /\ thread = "queue" /\ queue_submitted_cu = <<>>
    /\ thread' = "migrate"
    /\ UNCHANGED <<phase, serverVars, thread_run, answered, started, todo,
                   queueVars, mapVars, workVars, unit, crashed>>

Stable == {"Published", "Unpublished", "PublishingFailure"}

\* A test of the state alone: a unit counts as published before its actions
\* are registered.
smNeedToSchedule_State(u) == wu_instance_sm[u] \notin Stable

smNeedToSchedule(u) == active[u] \/ wu_instance_sm[u] \notin Stable

\* Both maps are locked: the units whose state machine rests leave the
\* unstable map, the published ones for the other map.
migrateStableAndUnstableSMCUInstance ==
    LET rests == {u \in map_cuid_reg_unreg_instance : ~smNeedToSchedule(u)}
        published == {u \in rests : wu_instance_sm[u] = "Published"} IN
    /\ ~crashed /\ thread = "migrate"
    /\ map_cuid_reg_unreg_instance' = map_cuid_reg_unreg_instance \ rests
    /\ map_cuid_registered_instance' = map_cuid_registered_instance \cup published
    /\ gone' = gone \cup (rests \ published)
    /\ thread' = "test"
    /\ UNCHANGED <<phase, serverVars, thread_run, answered, started, todo,
                   queueVars, workVars, unit, crashed>>

\* With no unstable unit the thread waits until it is told.
TestUnstable ==
    /\ ~crashed /\ thread = "test"
    /\ IF map_cuid_reg_unreg_instance = {}
       THEN thread' = "wait" /\ UNCHANGED todo
       ELSE thread' = "steps" /\ todo' = map_cuid_reg_unreg_instance
    /\ UNCHANGED <<phase, serverVars, thread_run, answered, started, queueVars,
                   mapVars, workVars, unit, crashed>>

\* A wait that forgets what it was told while the thread was busy.
Told_Late == FALSE

Told == answered

Wake ==
    /\ ~crashed
    /\ \/ thread = "wait" /\ Told
       \/ thread = "steps" /\ todo = {}        \* after 2500 ms, or told
    /\ thread' = "top" /\ answered' = FALSE
    /\ UNCHANGED <<phase, serverVars, thread_run, started, todo, queueVars, mapVars,
                   workVars, unit, crashed>>

\* makeSMSteps meets a unit.  One whose state machine rests would be passed
\* over, but those have just left the map.
Meets(u, s) ==
    /\ ~crashed /\ thread = "steps" /\ u \in todo
    /\ smNeedToSchedule(u) /\ wu_instance_sm[u] = s
    /\ todo' = todo \ {u}
    /\ UNCHANGED <<phase, serverVars, thread, thread_run, answered, started,
                   queueVars, mapVars>>

StartPublishing(u) ==
    /\ Meets(u, "StartPublishing")
    /\ active' = [active EXCEPT ![u] = TRUE]
    /\ wu_instance_sm' = [wu_instance_sm EXCEPT ![u] = "Publishing"]
    /\ UNCHANGED <<registrations, actions, unit, crashed>>

sendConfPackToMDS(u) ==
    /\ Meets(u, "Publishing")
    /\ registrations' = registrations \cup {Cuid[u]}
    /\ crashed' = (phase = "deinited")
    /\ UNCHANGED <<wu_instance_sm, active, actions, unit>>

\* The actions are registered under the identifier, not for the unit.
Registered_Cuid(u) == actions \cup {Cuid[u]}

Registered(u) == actions \cup {u}

Publish(u) ==
    /\ Meets(u, "Published")
    /\ active' = [active EXCEPT ![u] = FALSE]
    /\ actions' = Registered(u)
    /\ UNCHANGED <<wu_instance_sm, registrations, unit, crashed>>

\* The actions stay registered.
Deregistered_Not(u) == actions

Deregistered(u) == actions \ {u}

StartUnpublishing(u) ==
    /\ Meets(u, "StartUnpublishing")
    /\ active' = [active EXCEPT ![u] = TRUE]
    /\ actions' = Deregistered(u)
    /\ wu_instance_sm' = [wu_instance_sm EXCEPT ![u] = "Unpublishing"]
    /\ UNCHANGED <<registrations, unit, crashed>>

Unpublish(u) ==
    /\ Meets(u, "Unpublishing")
    /\ \E r \in TornDown(unit[u]) : unit' = [unit EXCEPT ![u] = r]
    /\ wu_instance_sm' = [wu_instance_sm EXCEPT ![u] = "Unpublished"]
    /\ UNCHANGED <<active, registrations, actions, crashed>>

Rest(u) ==
    /\ Meets(u, "Unpublished") \/ Meets(u, "PublishingFailure")
    /\ active' = [active EXCEPT ![u] = FALSE]
    /\ UNCHANGED <<wu_instance_sm, registrations, actions, unit, crashed>>

-----------------------------------------------------------------------------
(***************************************************************************)
(* The main thread: stop, which joins the state machine thread if there is *)
(* one, and deinit.                                                        *)
(***************************************************************************)

stop ==
    /\ ~crashed /\ phase = "started"
    /\ phase' = "stopping"
    /\ thread_run' = FALSE /\ answered' = TRUE
    /\ UNCHANGED <<serverVars, thread, started, todo, queueVars, mapVars, workVars,
                   unit, crashed>>

Joined ==
    /\ ~crashed /\ phase = "stopping" /\ thread \in {"off", "ended"}
    /\ phase' = "stopped"
    /\ UNCHANGED <<serverVars, threadVars, queueVars, mapVars, workVars, unit,
                   crashed>>

\* The list of the units to stop grows with the walk over the map, and each entry
\* stops and deinitializes the unit at hand: the second unit goes down twice, the
\* third three times, which leaves nothing that twice does not.
TakenDown(u) ==
    IF map_cuid_registered_instance = {u} THEN TornDown(unit[u])
    ELSE TornDown(unit[u]) \cup UNION {TornDown(r) : r \in TornDown(unit[u])}

\* The manager's own actions go first, then each registered unit is taken
\* down; the unstable ones are not.  Every unit is destroyed with the maps, and
\* the channel to the metadata server is deleted.  A map that the state machine
\* thread is walking cannot be cleared safely.
deinit ==
    /\ ~crashed /\ phase = "stopped"
    /\ phase' = "deinited"
    /\ unit' \in {f \in [Unit -> UNION {TakenDown(u) \cup {unit[u]} : u \in Unit}] :
                   \A u \in Unit : IF u \in map_cuid_registered_instance
                                  THEN f[u] \in TakenDown(u) ELSE f[u] = unit[u]}
    /\ actions' = actions \ map_cuid_registered_instance
    /\ gone' = gone \cup InMaps
    /\ map_cuid_reg_unreg_instance' = {} /\ map_cuid_registered_instance' = {}
    /\ crashed' = (todo # {})
    /\ UNCHANGED <<serverVars, threadVars, queueVars, wu_instance_sm, active,
                   registrations>>

-----------------------------------------------------------------------------
SMThread ==
    \/ TestRun \/ Adopt \/ QueueEmpty \/ migrateStableAndUnstableSMCUInstance
    \/ TestUnstable \/ Wake
    \/ \E u \in Unit :
          \/ StartPublishing(u) \/ sendConfPackToMDS(u) \/ Publish(u)
          \/ StartUnpublishing(u) \/ Unpublish(u) \/ Rest(u)

Next ==
    \/ Expire \/ timeout \/ unitServerRegistrationACK
    \/ \E u \in Unit :
          \/ submitControlUnit(u) \/ loadControlUnit(u) \/ unloadControlUnit(u)
          \/ workUnitRegistrationACK(u)
          \/ Call(u, initUnit(unit[u])) \/ Call(u, startUnit(unit[u]))
          \/ Call(u, stopUnit(unit[u])) \/ Call(u, deinitUnit(unit[u]))
    \/ SMThread
    \/ stop \/ Joined \/ deinit

Spec == Init /\ [][Next]_vars

\* The state machine thread and the main thread's join run; the metadata
\* server answers a registration that is sent again and again.
FairSpec ==
    /\ Spec
    /\ WF_vars(SMThread) /\ WF_vars(Joined)
    /\ \A u \in Unit : WF_vars(workUnitRegistrationACK(u))

-----------------------------------------------------------------------------
Queued == {queue_submitted_cu[i] : i \in DOMAIN queue_submitted_cu}

UnitState ==
    Stable \cup {"StartPublishing", "Publishing", "StartUnpublishing", "Unpublishing"}

Life == [service : {"Deinitilized", "Initialized", "Started", "Stopped"},
         scheduler_run : BOOLEAN, cache : BOOLEAN, storage : BOOLEAN,
         faulty : BOOLEAN]

\* Type correctness of the manager, its thread, the work units and the control
\* units (ControlManager.h, WorkUnitManagement.h, AbstractControlUnit.h).
TypeOK ==
    /\ phase \in {"started", "stopping", "stopped", "deinited"}
    /\ unit_server_sm \in {"Unpublished", "Publishing", "Published",
                           "PublishingFailure"}
    /\ {use_unit_server, timer, fired, thread_run, answered, crashed} \subseteq BOOLEAN
    /\ thread \in {"off", "top", "queue", "migrate", "test", "steps", "wait", "ended"}
    /\ started \in Nat
    /\ todo \subseteq Unit /\ loaded \subseteq Unit /\ gone \subseteq Unit
    /\ queue_submitted_cu \in Seq(Unit)
    /\ map_cuid_reg_unreg_instance \subseteq Unit
    /\ map_cuid_registered_instance \subseteq Unit
    /\ wu_instance_sm \in [Unit -> UnitState]
    /\ active \in [Unit -> BOOLEAN]
    /\ registrations \subseteq {Cuid[u] : u \in Unit}
    /\ actions \subseteq Unit
    /\ unit \in [Unit -> Life]

\* "we can't have two different work unit with the same unique identifier":
\* across the queue, both maps and the destroyed units every submitted unit is
\* in one place, and the maps hold at most one unit of an identifier.
OneUnitPerCuid ==
    /\ loaded = Queued \cup InMaps \cup gone
    /\ Queued \cap (InMaps \cup gone) = {} /\ InMaps \cap gone = {}
    /\ map_cuid_reg_unreg_instance \cap map_cuid_registered_instance = {}
    /\ \A u, v \in InMaps : Cuid[u] = Cuid[v] => u = v

\* A unit's RPC actions are registered exactly from its publication to the
\* start of its unpublication: a registered unit is published, at rest and
\* serves them, so that unloading it always finds a legal transition, and a
\* unit that failed or ended its publication serves none.
ServesWhilePublished ==
    phase # "deinited" =>
        /\ map_cuid_registered_instance \subseteq actions
        /\ \A u \in map_cuid_registered_instance :
              wu_instance_sm[u] = "Published" /\ ~active[u]
        /\ \A u \in Unit :
              u \in actions <=> \/ wu_instance_sm[u] = "Published" /\ ~active[u]
                               \/ wu_instance_sm[u] = "StartUnpublishing"

\* While the manager runs, a unit it destroys no longer runs its scheduling
\* thread and is reachable by no RPC action, whatever its own methods threw and
\* whatever its clients called before and during the unpublication; and if its
\* methods never threw it has given back its drivers and its storage.
QuietWhenGone ==
    phase # "deinited" =>
        \A u \in gone :
            /\ ~unit[u].scheduler_run /\ u \notin actions
            /\ ~unit[u].faulty => ~unit[u].storage

\* Repeated registrations, answers and timer expirations start the state
\* machine thread once.
OneSMThread == started <= 1

\* stop returns when the state machine thread was started before it: the thread
\* cannot miss the request, whether it waits, is about to wait or makes a pass.
\* (A timer that starts the thread after stop cleared thread_run undoes it.)
StopReturns ==
    phase = "stopping" /\ thread # "off" /\ ~thread_run
        ~> (phase # "stopping" \/ crashed)

\* While the manager runs, a unit that is asked to unload is destroyed.
UnloadEnds ==
    \A u \in Unit :
        wu_instance_sm[u] = "StartUnpublishing"
            ~> (u \in gone \/ phase # "started")

\* While the manager and its state machine thread run and the metadata server
\* answers, a submitted unit is published, or refused, or found a duplicate.
SubmittedSettles ==
    \A u \in Unit :
        u \in Queued /\ thread # "off"
            ~> (u \in gone \cup map_cuid_registered_instance \/ phase # "started")

\* The scheduling thread of a unit runs only while the unit's caches exist:
\* deinitializing is the safe thing its comment says.
RunsWithCache ==
    \A u \in Unit \ gone : unit[u].scheduler_run => unit[u].cache
=============================================================================
