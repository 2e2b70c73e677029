--------------------------- MODULE MessageChannel ---------------------------
(***************************************************************************)
(* The requests of one message channel and their answers                   *)
(* (chaos/common/message/MessageChannel.cpp) over the semaphores they wait *)
(* on (MultiKeyObjectWaitSemaphore.h and ObjectWaitSemaphore.h in          *)
(* chaos/common/thread).                                                   *)
(*                                                                         *)
(* Each request is made by a thread of its own: timed waits for at most    *)
(* the given time, untimed waits for the answer, async does not wait.  The *)
(* network delays, reorders and loses packs; the dispatcher of the far     *)
(* side answers a request at most once (CommandDispatcher), and the one of *)
(* this side runs response on one thread.                                  *)
(*                                                                         *)
(* responding names the request whose answer response is handing over: it  *)
(* holds mapAccessMutex and shares mutext_answer_managment meanwhile.  The *)
(* other sections of the mutexes are single steps.  An answer is named by  *)
(* the id of its request.                                                  *)
(***************************************************************************)
EXTENDS Naturals, FiniteSets

CONSTANTS
    Request,
    Mode,                   \* "timed", "untimed" or "async"
    NULL

ASSUME RequestAssumption ==
    /\ IsFiniteSet(Request) /\ Mode \in [Request -> {"timed", "untimed", "async"}]
ASSUME NullAssumption == NULL \notin Nat

Id == 1 .. Cardinality(Request)

VARIABLES
    channelRequestIDCounter,
    id,                     \* the id each request got, NULL before
    sender,                 \* sendRequest of each request
    result,                 \* what it returns
    keySemaphoreMap,        \* "absent", "null" or "semaphore" for each key
    inWait, answered, objecForWait,     \* the fields of each key's semaphore
    responding,
    response_handler,       \* the pointer is not null
    open,                   \* the action response is registered
    requests, replies,      \* packs in the network
    handled, deleted        \* answers given to the handler, answers freed

semVars == <<keySemaphoreMap, inWait, answered, objecForWait>>
netVars == <<requests, replies>>
endVars == <<handled, deleted>>
channelVars == <<response_handler, open>>

vars == <<channelRequestIDCounter, id, sender, result, semVars, responding,
          channelVars, netVars, endVars>>

Init ==
    /\ channelRequestIDCounter = 0
    /\ id = [r \in Request |-> NULL]
    /\ sender = [r \in Request |-> "idle"]
    /\ result = [r \in Request |-> NULL]
    /\ keySemaphoreMap = [i \in Id |-> "absent"]
    /\ inWait = [i \in Id |-> FALSE]
    /\ answered = [i \in Id |-> FALSE]
    /\ objecForWait = [i \in Id |-> NULL]
    /\ responding = NULL
    \* The constructor for a channel without remote host leaves the pointer
    \* uninitialised: null or not.
    /\ response_handler \in BOOLEAN
    /\ open = TRUE
    /\ requests = {} /\ replies = {}
    /\ handled = {} /\ deleted = {}

Step(r, from, to) ==
    /\ sender[r] = from
    /\ sender' = [sender EXCEPT ![r] = to]

-----------------------------------------------------------------------------
(* sendRequest and prepareRequestPackAndSend *)

\* Slip: the counter is read and not advanced.
Advance_Forgotten == UNCHANGED channelRequestIDCounter

Advance == channelRequestIDCounter' = channelRequestIDCounter + 1

NewId(r) ==
    /\ open
    /\ Step(r, "idle", "key")
    /\ id' = [id EXCEPT ![r] = channelRequestIDCounter + 1]
    /\ Advance
    /\ UNCHANGED <<result, semVars, responding, channelVars, netVars, endVars>>

\* initKey, unless the request is async; the key is new.
initKey(r) ==
    /\ Step(r, "key", "send")
    /\ \/ /\ Mode[r] = "async"
          /\ UNCHANGED semVars
       \/ /\ Mode[r] # "async" /\ responding = NULL
          /\ keySemaphoreMap' = [keySemaphoreMap EXCEPT ![id[r]] = "semaphore"]
          /\ inWait' = [inWait EXCEPT ![id[r]] = FALSE]
          /\ answered' = [answered EXCEPT ![id[r]] = FALSE]
          /\ objecForWait' = [objecForWait EXCEPT ![id[r]] = NULL]
    /\ UNCHANGED <<channelRequestIDCounter, id, result, responding, channelVars,
                   netVars, endVars>>

Submit(r) ==
    /\ Step(r, "send", IF Mode[r] = "async" THEN "returned" ELSE "find")
    /\ requests' = requests \cup {id[r]}
    /\ UNCHANGED <<channelRequestIDCounter, id, result, semVars, responding,
                   channelVars, replies, endVars>>

\* wait takes the key's semaphore from the map.
Find(r) ==
    /\ responding = NULL
    /\ Step(r, "find", "enter")
    /\ UNCHANGED <<channelRequestIDCounter, id, result, semVars, responding,
                   channelVars, netVars, endVars>>

\* ObjectWaitSemaphore::wait forgets on entry that an answer was flagged.
Enter(r) ==
    /\ Step(r, "enter", "wait")
    /\ inWait' = [inWait EXCEPT ![id[r]] = TRUE]
    /\ answered' = [answered EXCEPT ![id[r]] = FALSE]
    /\ UNCHANGED <<channelRequestIDCounter, id, result, keySemaphoreMap,
                   objecForWait, responding, channelVars, netVars, endVars>>

\* Slip: the semaphore keeps the object too.
TakeObject_Kept(r) ==
    /\ result' = [result EXCEPT ![r] = objecForWait[id[r]]]
    /\ UNCHANGED objecForWait

\* The object goes to the thread that waited.
TakeObject(r) ==
    /\ result' = [result EXCEPT ![r] = objecForWait[id[r]]]
    /\ objecForWait' = [objecForWait EXCEPT ![id[r]] = NULL]

\* Slip: the time to wait is not used.
TimeOver_Never(r) == FALSE

TimeOver(r) == Mode[r] = "timed"

\* The wait ends because it was answered, or because its time is over.
Wake(r) ==
    /\ Step(r, "wait", "erase")
    /\ answered[id[r]] \/ TimeOver(r)
    /\ inWait' = [inWait EXCEPT ![id[r]] = FALSE]
    /\ answered' = [answered EXCEPT ![id[r]] = FALSE]
    /\ TakeObject(r)
    /\ UNCHANGED <<channelRequestIDCounter, id, keySemaphoreMap, responding,
                   channelVars, netVars, endVars>>

\* Slip: no mutex.
MapLocked_Not(r) == TRUE

MapLocked(r) == Mode[r] = "timed" => responding = NULL

\* Slip: the key stays.
eraseKey_Not(r) == UNCHANGED keySemaphoreMap

eraseKey(r) == keySemaphoreMap' = [keySemaphoreMap EXCEPT ![id[r]] = "absent"]

\* The key is erased, under the mutex only after a timed wait, and the semaphore
\* deleted with an answer that came meanwhile.
Erase(r) ==
    /\ MapLocked(r)
    /\ Step(r, "erase", "returned")
    /\ eraseKey(r)
    /\ deleted' = deleted \cup ({objecForWait[id[r]]} \ {NULL})
    /\ objecForWait' = [objecForWait EXCEPT ![id[r]] = NULL]
    /\ UNCHANGED <<channelRequestIDCounter, id, result, inWait, answered,
                   responding, channelVars, netVars, handled>>

-----------------------------------------------------------------------------
(* The answers *)

\* The far side answers, or one of the two packs is lost.
Reply(i) ==
    /\ i \in requests
    /\ requests' = requests \ {i}
    /\ \/ replies' = replies \cup {i}
       \/ UNCHANGED replies
    /\ UNCHANGED <<channelRequestIDCounter, id, sender, result, semVars,
                   responding, channelVars, endVars>>

\* response: the object is set for the waiting thread; without one the handler
\* takes it, and without a handler the dispatcher deletes it.
response(i) ==
    /\ i \in replies /\ responding = NULL /\ open
    /\ replies' = replies \ {i}
    /\ \/ /\ keySemaphoreMap[i] = "semaphore"
          /\ objecForWait' = [objecForWait EXCEPT ![i] = i]
          /\ responding' = i
          /\ UNCHANGED endVars
       \/ /\ keySemaphoreMap[i] # "semaphore" /\ response_handler
          /\ handled' = handled \cup {i}
          /\ UNCHANGED <<objecForWait, responding, deleted>>
       \/ /\ keySemaphoreMap[i] # "semaphore" /\ ~response_handler
          /\ deleted' = deleted \cup {i}
          /\ UNCHANGED <<objecForWait, responding, handled>>
    /\ UNCHANGED <<channelRequestIDCounter, id, sender, result,
                   keySemaphoreMap, inWait, answered, channelVars, requests>>

\* Slip: the flag is not set.
Flag_Forgotten == UNCHANGED answered

Flag == answered' = [answered EXCEPT ![responding] = TRUE]

unlock ==
    /\ responding # NULL
    /\ Flag
    /\ responding' = NULL
    /\ UNCHANGED <<channelRequestIDCounter, id, sender, result,
                   keySemaphoreMap, inWait, objecForWait, channelVars, netVars,
                   endVars>>

\* pollAnswer with the id of a request that does not wait: the map's operator []
\* leaves a null entry, and the answer is NULL.
pollAnswer(r) ==
    /\ Mode[r] = "async" /\ sender[r] = "returned" /\ responding = NULL
    /\ keySemaphoreMap' = [keySemaphoreMap EXCEPT ![id[r]] = "null"]
    /\ UNCHANGED <<channelRequestIDCounter, id, sender, result, inWait, answered,
                   objecForWait, responding, channelVars, netVars, endVars>>

setHandler(set) ==
    /\ responding = NULL /\ response_handler # set
    /\ response_handler' = set
    /\ UNCHANGED <<channelRequestIDCounter, id, sender, result, semVars,
                   responding, open, netVars, endVars>>

\* deregisterAction waits for response to end; later answers go nowhere.
deinit ==
    /\ open /\ responding = NULL
    /\ open' = FALSE
    /\ UNCHANGED <<channelRequestIDCounter, id, sender, result, semVars,
                   responding, response_handler, netVars, endVars>>

-----------------------------------------------------------------------------
Send(r) ==
    NewId(r) \/ initKey(r) \/ Submit(r) \/ Find(r) \/ Enter(r) \/ Wake(r) \/ Erase(r)

Next ==
    \/ \E r \in Request : Send(r) \/ pollAnswer(r)
    \/ \E i \in Id : Reply(i) \/ response(i)
    \/ unlock
    \/ \E set \in BOOLEAN : setHandler(set)
    \/ deinit

Spec == Init /\ [][Next]_vars

\* A thread that can go on does, and a timed wait ends; the network and the far
\* side owe nothing.
Fairness ==
    /\ \A r \in Request :
          WF_vars(initKey(r) \/ Submit(r) \/ Find(r) \/ Enter(r) \/ Wake(r) \/ Erase(r))
    /\ WF_vars(unlock)

FairSpec == Spec /\ Fairness

-----------------------------------------------------------------------------
(* Properties *)

\* The types of the variables.
TypeOK ==
    /\ channelRequestIDCounter \in Nat
    /\ id \in [Request -> Id \cup {NULL}]
    /\ sender \in [Request -> {"idle", "key", "send", "find", "enter", "wait",
                               "erase", "returned"}]
    /\ result \in [Request -> Id \cup {NULL}]
    /\ keySemaphoreMap \in [Id -> {"absent", "null", "semaphore"}]
    /\ inWait \in [Id -> BOOLEAN] /\ answered \in [Id -> BOOLEAN]
    /\ objecForWait \in [Id -> Id \cup {NULL}]
    /\ responding \in Id \cup {NULL}
    /\ response_handler \in BOOLEAN /\ open \in BOOLEAN
    /\ requests \subseteq Id /\ replies \subseteq Id
    /\ handled \subseteq Id /\ deleted \subseteq Id

\* A request returns its own answer or none: the ids tell the requests of the
\* channel apart whatever threads make them, and an answer is only ever stored
\* in the semaphore of the request it answers.
OwnAnswer ==
    /\ \A r \in Request : result[r] \in {NULL, id[r]}
    /\ \A i \in Id : objecForWait[i] \in {NULL, i}
    /\ \A r, q \in Request : id[r] = id[q] => r = q \/ id[r] = NULL

Synchronous == {r \in Request : Mode[r] # "async"}

\* The semaphores in the map are those of the requests that wait, or are about
\* to: a request that timed out leaves none behind for a late answer.
KeysOfWaiters ==
    {i \in Id : keySemaphoreMap[i] = "semaphore"} =
        {id[r] : r \in {q \in Synchronous :
                     sender[q] \in {"send", "find", "enter", "wait", "erase"}}}

\* Where the answer i is, each place by its name and what it belongs to.
Holders(i) ==
    {<<"network", k>> : k \in replies \cap {i}}
      \cup {<<"semaphore", k>> : k \in {j \in Id : objecForWait[j] = i}}
      \cup {<<"handler", k>> : k \in handled \cap {i}}
      \cup {<<"deleted", k>> : k \in deleted \cap {i}}
      \cup {<<"result", r>> : r \in {q \in Request : result[q] = i}}

\* An answer is in one place and stays somewhere: in the network, in a
\* semaphore, with the thread that waited, with the handler, or freed; never
\* freed and used, never leaked, and never given to two.
AnswerHeldOnce ==
    [][\A i \in Id : Holders(i) # {} => Cardinality(Holders(i)') = 1]_vars

\* The semaphore that the end of a wait deletes is not the one response is
\* using.  After an untimed wait no mutex says so, only that an answer comes once.
DeletesUnused == [][\A r \in Request : Erase(r) => responding # id[r]]_vars

\* A request with a time to wait returns, whatever the network does.
TimedReturns ==
    \A r \in {q \in Request : Mode[q] = "timed"} :
        sender[r] # "idle" ~> sender[r] = "returned"

\* A request that is already waiting when its answer comes returns with it.
WaitingAnswered ==
    \A r \in Synchronous :
        sender[r] = "wait" /\ responding = id[r] ~>
            sender[r] = "returned" /\ result[r] = id[r]

\* A request that waits for its answer returns once response hands it over.
AnsweredReturns ==
    \A r \in Synchronous :
        id[r] # NULL /\ responding = id[r] ~> sender[r] = "returned"
=============================================================================
