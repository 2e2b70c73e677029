------------------------ MODULE MessageChannelProofs ------------------------
(***************************************************************************)
(* Theorems about the requests of a channel, for any number of them.       *)
(***************************************************************************)
EXTENDS MessageChannel, FiniteSetTheorems, TLAPS

Numbered == {r \in Request : sender[r] # "idle"}

\* The counter counts the requests that got an id, which are all different.
Ids ==
    /\ channelRequestIDCounter = Cardinality(Numbered)
    /\ \A r \in Request : (id[r] = NULL) <=> (sender[r] = "idle")
    /\ \A r \in Request : id[r] # NULL => id[r] <= channelRequestIDCounter
    /\ \A r, q \in Request : id[r] = id[q] => r = q \/ id[r] = NULL

LEMMA IdIsNat == Id \subseteq Nat /\ NULL \notin Id /\ Cardinality(Request) \in Nat
  BY RequestAssumption, NullAssumption, FS_CardinalityType DEF Id

\* The next id is within bounds, and new.
LEMMA NewIdInRange ==
  ASSUME TypeOK, Ids, NEW r \in Request, sender[r] = "idle"
  PROVE  /\ channelRequestIDCounter + 1 \in Id
         /\ Cardinality(Numbered \cup {r}) = channelRequestIDCounter + 1
  <1>1. IsFiniteSet(Numbered) /\ r \notin Numbered
    BY RequestAssumption, FS_Subset DEF Numbered
  <1>2. Cardinality(Numbered \cup {r}) = Cardinality(Numbered) + 1
    BY <1>1, FS_AddElement
  <1>3. Cardinality(Numbered \cup {r}) <= Cardinality(Request)
    BY RequestAssumption, FS_Subset DEF Numbered
  <1>4. Cardinality(Numbered) \in Nat
    BY <1>1, FS_CardinalityType
  <1> QED BY <1>2, <1>3, <1>4, IdIsNat DEF Ids, Id

LEMMA SenderIds ==
  ASSUME TypeOK, Ids, UNCHANGED <<id, channelRequestIDCounter>>, NEW r \in Request,
         NEW to, sender[r] # "idle", to # "idle", sender' = [sender EXCEPT ![r] = to]
  PROVE  Ids'
  <1>1. \A q \in Request : sender'[q] = "idle" <=> sender[q] = "idle"
    BY DEF TypeOK
  <1>2. Numbered' = Numbered
    BY <1>1 DEF Numbered
  <1> QED BY <1>1, <1>2 DEF Ids

\* A pack is in one place, and the flag of an answer is set after it came.
Once ==
    /\ \A i \in requests \cup replies \cup ({responding} \ {NULL}) :
            i <= channelRequestIDCounter
    /\ \A i \in Id : answered[i] => i <= channelRequestIDCounter
    /\ \A i \in Id :
            /\ i \in requests => i \notin replies
            /\ responding = i => i \notin requests \cup replies
            /\ answered[i] => i \notin requests \cup replies /\ responding # i
    /\ \A r \in Request : sender[r] \in {"key", "send"} =>
            /\ id[r] \notin requests \cup replies /\ responding # id[r]
            /\ ~answered[id[r]]
    /\ \A r \in Request : sender[r] = "erase" /\ Mode[r] = "untimed" =>
            id[r] \notin requests \cup replies /\ responding # id[r]
    /\ \A r \in Request : sender[r] \in {"find", "enter", "wait", "erase"} =>
            Mode[r] # "async"

\* The packs stay where they are, a flag may be lost, and one request goes on.
LEMMA OnceKept ==
  ASSUME TypeOK, Ids, Once, NEW r \in Request, NEW to,
         UNCHANGED <<channelRequestIDCounter, id, requests, replies, responding>>,
         \A i \in Id : answered'[i] => answered[i],
         sender' = [sender EXCEPT ![r] = to],
         \/ sender[r] = "key" /\ to = "send"
         \/ to \in {"enter", "wait"} /\ Mode[r] # "async"
  PROVE  Once'
  <1>1. \A q \in Request : q # r => sender'[q] = sender[q]
    BY DEF TypeOK
  <1>2. sender'[r] = to
    BY DEF TypeOK
  <1>3. \A q \in Request : sender[q] \in {"key", "send"} => ~answered'[id[q]]
    BY DEF Once, TypeOK, Ids
  <1> QED BY <1>1, <1>2, <1>3 DEF Once

Waits == {"send", "find", "enter", "wait", "erase"}

WaitsOn(r, i) == Mode[r] # "async" /\ sender[r] \in Waits /\ id[r] = i

Keys ==
    \A i \in Id : keySemaphoreMap[i] = "semaphore" <=> \E r \in Request : WaitsOn(r, i)

IInv == TypeOK /\ Ids /\ Once /\ OwnAnswer /\ Keys

LEMMA KeysAreWaiters == TypeOK /\ Ids /\ Keys => KeysOfWaiters
  <1> SUFFICES ASSUME TypeOK, Ids, Keys PROVE KeysOfWaiters
    OBVIOUS
  <1>1. \A r \in Request : sender[r] \in Waits => id[r] \in Id
    BY DEF TypeOK, Ids, Waits
  <1> QED BY <1>1 DEF Keys, KeysOfWaiters, WaitsOn, Waits, Synchronous

\* A step of a request that has an id changes the state of no other.
LEMMA SendKeeps ==
  ASSUME IInv, NEW r \in Request, Send(r)
  PROVE  IInv'
  <1> USE IdIsNat
  <1>1. CASE NewId(r)
    <2> DEFINE i == channelRequestIDCounter + 1
    <2>1. i \in Id /\ Cardinality(Numbered \cup {r}) = i
      BY <1>1, NewIdInRange DEF IInv, NewId, Step
    <2>2. /\ id' = [id EXCEPT ![r] = i] /\ channelRequestIDCounter' = i
          /\ sender[r] = "idle" /\ sender' = [sender EXCEPT ![r] = "key"]
          /\ UNCHANGED <<result, semVars, responding, channelVars, netVars, endVars>>
      BY <1>1 DEF NewId, Step, Advance
    <2>3. channelRequestIDCounter \in Nat /\ i > channelRequestIDCounter
      BY DEF IInv, TypeOK
    <2> HIDE DEF i
    <2>4. TypeOK'
      BY <2>1, <2>2 DEF IInv, TypeOK, semVars, channelVars, netVars, endVars
    <2>5. Ids'
      <3>1. Numbered' = Numbered \cup {r}
        BY <2>2 DEF Numbered, IInv, TypeOK
      <3>2. \A q \in Request : id[q] # i /\ (id[q] # NULL => id[q] <= i)
        <4>1. /\ \A q \in Request : id[q] \in Id \cup {NULL}
              /\ \A q \in Request : id[q] # NULL => id[q] <= channelRequestIDCounter
          BY DEF IInv, Ids, TypeOK
        <4>2. \A j \in Id : j <= channelRequestIDCounter => j # i /\ j <= i
          BY <2>1, <2>3
        <4> QED BY <2>1, <4>1, <4>2
      <3>3. \A q \in Request \ {r} : id'[q] = id[q] /\ sender'[q] = sender[q]
        BY <2>2 DEF IInv, TypeOK
      <3>4. id'[r] = i /\ sender'[r] = "key"
        BY <2>2 DEF IInv, TypeOK
      <3> QED BY <2>1, <2>2, <3>1, <3>2, <3>3, <3>4 DEF IInv, Ids
    <2>6. Once'
      <3>1. \A j \in Id : j <= channelRequestIDCounter => j <= i /\ j # i
        BY <2>1, <2>3
      <3>2. \A q \in Request \ {r} : id'[q] = id[q] /\ sender'[q] = sender[q]
        BY <2>2 DEF IInv, TypeOK
      <3>3. id'[r] = i /\ sender'[r] = "key"
        BY <2>2 DEF IInv, TypeOK
      <3>4. i \notin requests \cup replies /\ responding # i /\ ~answered[i]
        BY <2>1, <3>1 DEF IInv, Once, TypeOK
      <3> QED BY <2>2, <3>1, <3>2, <3>3, <3>4
              DEF IInv, Once, TypeOK, semVars, netVars
    <2>7. OwnAnswer'
      <3>1. result[r] = NULL
        BY <2>2 DEF IInv, OwnAnswer, Ids
      <3> QED BY <2>2, <2>5, <3>1 DEF IInv, OwnAnswer, TypeOK, semVars, Ids
    <2>8. Keys'
      <3>1. \A q \in Request, j \in Id : WaitsOn(q, j)' <=> WaitsOn(q, j)
        BY <2>2 DEF IInv, TypeOK, WaitsOn, Waits
      <3> QED BY <2>2, <3>1 DEF IInv, Keys, semVars
    <2> QED BY <2>4, <2>5, <2>6, <2>7, <2>8 DEF IInv
  <1>2. CASE ~NewId(r)
    <2>1. PICK from, to :
             /\ Step(r, from, to) /\ from # "idle"
             /\ to \in {"send", "returned", "find", "enter", "wait", "erase"}
             /\ UNCHANGED <<id, channelRequestIDCounter>>
      BY <1>2 DEF Send, initKey, Submit, Find, Enter, Wake, Erase
    <2>2. id[r] \in Id
      BY <2>1 DEF Step, IInv, Ids, TypeOK
    <2>3. Ids'
      BY <2>1, SenderIds DEF Step, IInv
    <2>4. CASE initKey(r)
      <3>1. TypeOK'
        BY <2>2, <2>4 DEF IInv, TypeOK, initKey, Step, semVars, channelVars, netVars, endVars
      <3>2. Once'
        <4>1. /\ UNCHANGED <<channelRequestIDCounter, id, requests, replies, responding>>
              /\ sender[r] = "key" /\ sender' = [sender EXCEPT ![r] = "send"]
          BY <2>4 DEF initKey, Step, netVars
        <4>2. \A i \in Id : answered'[i] => answered[i]
          BY <2>2, <2>4 DEF IInv, TypeOK, initKey, semVars
        <4> QED BY <4>1, <4>2, OnceKept DEF IInv
      <3>3. OwnAnswer'
        BY <2>2, <2>4 DEF IInv, TypeOK, OwnAnswer, initKey, semVars
      <3>4. Keys'
        BY <2>2, <2>4 DEF IInv, TypeOK, Ids, Keys, WaitsOn, Waits, initKey, Step, semVars
      <3> QED BY <2>3, <3>1, <3>2, <3>3, <3>4 DEF IInv
    <2>5. CASE Submit(r)
      <3>1. TypeOK'
        BY <2>2, <2>5 DEF IInv, TypeOK, Submit, Step, semVars, channelVars, endVars
      <3>2. Once'
        BY <2>2, <2>5 DEF IInv, TypeOK, Ids, Once, Submit, Step, semVars
      <3>3. OwnAnswer'
        BY <2>5 DEF IInv, OwnAnswer, Submit, semVars
      <3>4. Keys'
        BY <2>2, <2>5 DEF IInv, TypeOK, Keys, WaitsOn, Waits, Submit, Step, semVars
      <3> QED BY <2>3, <3>1, <3>2, <3>3, <3>4 DEF IInv
    <2>6. CASE Find(r) \/ Enter(r)
      <3>1. TypeOK'
        BY <2>2, <2>6 DEF IInv, TypeOK, Find, Enter, Step, semVars, channelVars, netVars, endVars
      <3>2. Once'
        BY <2>6, OnceKept DEF IInv, TypeOK, Once, Find, Enter, Step, semVars, netVars
      <3>3. OwnAnswer'
        BY <2>6 DEF IInv, OwnAnswer, Find, Enter, semVars
      <3>4. Keys'
        BY <2>2, <2>6 DEF IInv, TypeOK, Keys, WaitsOn, Waits, Find, Enter, Step, semVars
      <3> QED BY <2>3, <3>1, <3>2, <3>3, <3>4 DEF IInv
    <2>7. CASE Wake(r)
      <3>1. TypeOK'
        BY <2>2, <2>7 DEF IInv, TypeOK, Wake, TakeObject, Step, channelVars, netVars, endVars
      <3>2. Once'
        <4>1. /\ UNCHANGED <<channelRequestIDCounter, id, requests, replies, responding>>
              /\ sender[r] = "wait" /\ Mode[r] # "async"
              /\ Mode[r] = "untimed" => answered[id[r]]
          BY <2>7 DEF IInv, Once, Wake, TimeOver, Step, netVars
        <4>2. \A i \in Id : answered'[i] => answered[i]
          BY <2>2, <2>7 DEF IInv, TypeOK, Wake
        <4>3. sender'[r] = "erase" /\ \A q \in Request \ {r} : sender'[q] = sender[q]
          BY <2>7 DEF IInv, TypeOK, Wake, Step
        <4>4. \A q \in Request : sender[q] \in {"key", "send"} => id[q] \in Id
          BY DEF IInv, TypeOK, Ids
        <4> QED BY <2>2, <4>1, <4>2, <4>3, <4>4 DEF IInv, Once
      <3>3. OwnAnswer'
        BY <2>2, <2>7 DEF IInv, TypeOK, OwnAnswer, Wake, TakeObject
      <3>4. Keys'
        BY <2>2, <2>7 DEF IInv, TypeOK, Keys, WaitsOn, Waits, Wake, Step
      <3> QED BY <2>3, <3>1, <3>2, <3>3, <3>4 DEF IInv
    <2>8. CASE Erase(r)
      <3>1. TypeOK'
        <4>1. deleted' \subseteq Id /\ UNCHANGED <<channelVars, netVars, handled, inWait, answered>>
          BY <2>2, <2>8 DEF IInv, TypeOK, Erase
        <4>2. keySemaphoreMap' \in [Id -> {"absent", "null", "semaphore"}]
              /\ objecForWait' \in [Id -> Id \cup {NULL}]
          BY <2>2, <2>8 DEF IInv, TypeOK, Erase, eraseKey
        <4> QED BY <2>8, <4>1, <4>2 DEF IInv, TypeOK, Erase, Step, channelVars, netVars
      <3>2. Once'
        BY <2>2, <2>8 DEF IInv, TypeOK, Ids, Once, Erase, Step, netVars
      <3>3. OwnAnswer'
        BY <2>2, <2>8 DEF IInv, TypeOK, OwnAnswer, Erase
      <3>4. Keys'
        BY <2>2, <2>8 DEF IInv, TypeOK, Ids, Keys, WaitsOn, Waits, Erase, eraseKey, Step
      <3> QED BY <2>3, <3>1, <3>2, <3>3, <3>4 DEF IInv
    <2> QED BY <1>2, <2>4, <2>5, <2>6, <2>7, <2>8 DEF Send
  <1> QED BY <1>1, <1>2

\* A step of the network or of the thread that runs response.
LEMMA AnswerKeeps ==
  ASSUME IInv, NEW i \in Id, Reply(i) \/ response(i) \/ unlock
  PROVE  IInv'
  <1> USE IdIsNat
  <1>1. UNCHANGED <<channelRequestIDCounter, id, sender, keySemaphoreMap, result>>
    BY DEF Reply, response, unlock, semVars
  <1>2. Ids' /\ Keys'
    BY <1>1 DEF IInv, Ids, Numbered, Keys, WaitsOn
  <1>3. \A r \in Request : sender[r] # "idle" => id[r] \in Id
    BY DEF IInv, TypeOK, Ids
  <1>4. CASE Reply(i)
    <2>1. TypeOK'
      BY <1>4 DEF IInv, TypeOK, Reply, semVars, channelVars, endVars
    <2>2. Once'
      BY <1>3, <1>4 DEF IInv, Once, Reply, semVars
    <2>3. OwnAnswer'
      BY <1>4 DEF IInv, OwnAnswer, Reply, semVars
    <2> QED BY <1>2, <2>1, <2>2, <2>3 DEF IInv
  <1>5. CASE response(i)
    <2>1. TypeOK'
      <3>1. /\ objecForWait' \in [Id -> Id \cup {NULL}] /\ responding' \in Id \cup {NULL}
            /\ replies' \subseteq Id
        BY <1>5 DEF IInv, TypeOK, response
      <3>2. handled' \subseteq Id /\ deleted' \subseteq Id
        BY <1>5 DEF IInv, TypeOK, response, endVars
      <3> QED BY <1>1, <1>5, <3>1, <3>2 DEF IInv, TypeOK, response, channelVars
    <2>2. Once'
      BY <1>3, <1>5 DEF IInv, Once, response
    <2>3. OwnAnswer'
      BY <1>5 DEF IInv, TypeOK, OwnAnswer, response
    <2> QED BY <1>2, <2>1, <2>2, <2>3 DEF IInv
  <1>6. CASE unlock
    <2>1. TypeOK'
      BY <1>6 DEF IInv, TypeOK, unlock, Flag, channelVars, netVars, endVars
    <2>2. Once'
      BY <1>3, <1>6 DEF IInv, TypeOK, Once, unlock, Flag, netVars
    <2>3. OwnAnswer'
      BY <1>6 DEF IInv, OwnAnswer, unlock
    <2> QED BY <1>2, <2>1, <2>2, <2>3 DEF IInv
  <1> QED BY <1>4, <1>5, <1>6

LEMMA Inductive ==
  /\ Init => IInv
  /\ IInv /\ [Next]_vars => IInv'
  <1> USE IdIsNat
  <1>1. Init => IInv
    <2> SUFFICES ASSUME Init PROVE IInv
      OBVIOUS
    <2>1. Numbered = {}
      BY DEF Init, Numbered
    <2>2. Ids
      BY <2>1, FS_EmptySet DEF Init, Ids
    <2>3. TypeOK /\ Once /\ OwnAnswer
      BY DEF Init, TypeOK, Once, OwnAnswer
    <2>4. Keys
      BY DEF Init, Keys, WaitsOn, Waits
    <2> QED BY <2>2, <2>3, <2>4 DEF IInv
  <1>2. ASSUME IInv, [Next]_vars PROVE IInv'
    <2>1. ASSUME NEW r \in Request, pollAnswer(r) PROVE IInv'
      <3>1. id[r] \in Id
        BY <1>2, <2>1 DEF IInv, TypeOK, Ids, pollAnswer
      <3>2. TypeOK'
        BY <1>2, <2>1, <3>1 DEF IInv, TypeOK, pollAnswer, channelVars, netVars, endVars
      <3>3. Ids' /\ Once' /\ OwnAnswer'
        BY <1>2, <2>1 DEF IInv, Ids, Numbered, Once, OwnAnswer, pollAnswer, netVars
      <3>4. \A q \in Request : ~WaitsOn(q, id[r])
        BY <1>2, <2>1, <3>1 DEF IInv, Ids, WaitsOn, Waits, pollAnswer
      <3>5. Keys'
        BY <1>2, <2>1, <3>1, <3>4 DEF IInv, TypeOK, Keys, WaitsOn, pollAnswer
      <3> QED BY <3>2, <3>3, <3>5 DEF IInv
    <2>2. CASE UNCHANGED <<channelRequestIDCounter, id, sender, result, semVars, responding,
                           netVars, endVars>> /\ channelVars' \in BOOLEAN \X BOOLEAN
      <3>1. TypeOK'
        BY <1>2, <2>2 DEF IInv, TypeOK, semVars, channelVars, netVars, endVars
      <3>2. Ids' /\ Once' /\ OwnAnswer'
        BY <1>2, <2>2 DEF IInv, Ids, Numbered, Once, OwnAnswer, semVars, netVars
      <3>3. Keys'
        BY <1>2, <2>2 DEF IInv, Keys, WaitsOn, semVars
      <3> QED BY <3>1, <3>2, <3>3 DEF IInv
    <2>3. ASSUME NEW set \in BOOLEAN, setHandler(set) PROVE IInv'
      BY <1>2, <2>2, <2>3 DEF setHandler, IInv, TypeOK, channelVars
    <2>4. CASE deinit
      BY <1>2, <2>2, <2>4 DEF deinit, IInv, TypeOK, channelVars
    <2>5. CASE UNCHANGED vars
      BY <1>2, <2>2, <2>5 DEF vars, IInv, TypeOK, channelVars
    <2>6. CASE unlock
      <3>1. responding \in Id
        BY <1>2, <2>6 DEF IInv, TypeOK, unlock
      <3> QED BY <1>2, <2>6, <3>1, AnswerKeeps
    <2> QED BY <1>2, <2>1, <2>3, <2>4, <2>5, <2>6, SendKeeps, AnswerKeeps DEF Next
  <1> QED BY <1>1, <1>2

\* Every variable keeps its type: the ids do not exceed the number of requests.
THEOREM TypeCorrect == Spec => []TypeOK
  <1>1. IInv => TypeOK
    BY DEF IInv
  <1> QED BY <1>1, Inductive, PTL DEF Spec

\* A request returns its own answer or none.
THEOREM AnswersNotMixed == Spec => []OwnAnswer
  <1>1. IInv => OwnAnswer
    BY DEF IInv
  <1> QED BY <1>1, Inductive, PTL DEF Spec

\* The keys in the map are those of the requests that wait.
THEOREM NoKeyLeftBehind == Spec => []KeysOfWaiters
  <1>1. IInv => KeysOfWaiters
    BY KeysAreWaiters DEF IInv
  <1> QED BY <1>1, Inductive, PTL DEF Spec

\* The semaphore deleted at the end of a wait is not in use by response, though
\* after an untimed wait no mutex protects it.
THEOREM DeletesWhatIsUnused == Spec => DeletesUnused
  <1>1. IInv /\ [Next]_vars => [\A r \in Request : Erase(r) => responding # id[r]]_vars
    <2> SUFFICES ASSUME IInv, NEW r \in Request, Erase(r) PROVE responding # id[r]
      OBVIOUS
    <2>1. sender[r] = "erase" /\ id[r] # NULL /\ Mode[r] # "async"
      BY DEF Erase, Step, IInv, Ids, Once
    <2>2. CASE Mode[r] = "timed"
      BY <2>1, <2>2 DEF Erase, MapLocked
    <2>3. CASE Mode[r] = "untimed"
      BY <2>1, <2>3 DEF IInv, Once
    <2> QED BY <2>1, <2>2, <2>3, RequestAssumption
  <1> QED BY <1>1, Inductive, PTL DEF Spec, DeletesUnused

-----------------------------------------------------------------------------
(* Where the answers are *)

WithThread(i) == \E r \in Request : result[r] = i

Somewhere(i) ==
    i \in replies \cup handled \cup deleted \/ objecForWait[i] = i \/ WithThread(i)

\* The request i is not sent, or nobody has answered it.
Unanswered(i) ==
    \/ i \in requests \/ i > channelRequestIDCounter
    \/ \E r \in Request : id[r] = i /\ sender[r] \in {"key", "send"}

\* An answer is in one place, and nowhere before it is given; a thread has
\* taken it only when it has waited.
Held ==
    /\ \A i \in Id :
          /\ i \in replies =>
               objecForWait[i] # i /\ ~WithThread(i) /\ i \notin handled \cup deleted
          /\ objecForWait[i] = i => ~WithThread(i) /\ i \notin handled \cup deleted
          /\ WithThread(i) => i \notin handled \cup deleted
          /\ i \notin handled \cap deleted
          /\ Unanswered(i) => ~Somewhere(i)
    /\ \A r \in Request : result[r] # NULL => sender[r] \in {"erase", "returned"}

\* No answer moves.
LEMMA HeldKept ==
  ASSUME Held, UNCHANGED <<replies, handled, deleted, result>>,
         \A i \in Id : objecForWait'[i] = objecForWait[i],
         \A i \in Id : Unanswered(i)' => Unanswered(i),
         \A r \in Request : sender[r] \in {"erase", "returned"} => sender'[r] = sender[r]
  PROVE  Held' /\ \A i \in Id : Somewhere(i) => Somewhere(i)'
  <1>1. \A i \in Id : WithThread(i)' <=> WithThread(i)
    BY DEF WithThread
  <1>2. \A i \in Id : Somewhere(i)' <=> Somewhere(i)
    BY <1>1 DEF Somewhere
  <1> QED BY <1>1, <1>2 DEF Held

\* The answer k moves, out of the network or on its way from the semaphore.
LEMMA HeldMoves ==
  ASSUME Held, NEW k \in Id,
         \A i \in Id \ {k} :
            /\ i \in replies' <=> i \in replies
            /\ i \in handled' <=> i \in handled
            /\ i \in deleted' <=> i \in deleted
            /\ objecForWait'[i] = objecForWait[i]
            /\ WithThread(i)' <=> WithThread(i),
         \A i \in Id : Unanswered(i)' => Unanswered(i),
         \A r \in Request : result'[r] # NULL => sender'[r] \in {"erase", "returned"},
         ~Unanswered(k)',
         Somewhere(k) => Somewhere(k)',
         /\ k \in replies' =>
              objecForWait'[k] # k /\ ~WithThread(k)' /\ k \notin handled' \cup deleted'
         /\ objecForWait'[k] = k => ~WithThread(k)' /\ k \notin handled' \cup deleted'
         /\ WithThread(k)' => k \notin handled' \cup deleted'
         /\ k \notin handled' \cap deleted'
  PROVE  Held' /\ \A i \in Id : Somewhere(i) => Somewhere(i)'
  <1>1. \A i \in Id \ {k} : Somewhere(i)' <=> Somewhere(i)
    BY DEF Somewhere
  <1> QED BY <1>1 DEF Held

\* The steps of a request.
LEMMA SendHeld ==
  ASSUME IInv, Held, NEW r \in Request, Send(r)
  PROVE  Held' /\ \A i \in Id : Somewhere(i) => Somewhere(i)'
  <1> USE IdIsNat
  <1>1. sender[r] # "idle" => id[r] \in Id
    BY DEF IInv, TypeOK, Ids
  <1>2. \A q \in Request \ {r} : sender'[q] = sender[q]
    BY DEF Send, NewId, initKey, Submit, Find, Enter, Wake, Erase, Step, IInv, TypeOK
  <1>3. \A q \in Request : id[q] = id[r] /\ id[r] # NULL => q = r
    BY DEF IInv, Ids
  <1>4. CASE NewId(r)
    <2> DEFINE n == channelRequestIDCounter + 1
    <2>1. /\ UNCHANGED <<requests, replies, handled, deleted, result, objecForWait>>
          /\ id' = [id EXCEPT ![r] = n] /\ channelRequestIDCounter' = n
          /\ sender[r] = "idle"
      BY <1>4 DEF NewId, Advance, Step, semVars, netVars, endVars
    <2>2. channelRequestIDCounter \in Nat
      BY DEF IInv, TypeOK
    <2>3. ASSUME NEW i \in Id, Unanswered(i)' PROVE Unanswered(i)
      <3>1. i > n => i > channelRequestIDCounter
        BY <2>2
      <3>2. n > channelRequestIDCounter
        BY <2>2
      <3>3. id'[r] = n /\ \A q \in Request \ {r} : id'[q] = id[q]
        BY <2>1 DEF IInv, TypeOK
      <3> HIDE DEF n
      <3> QED BY Zenon, <1>2, <2>1, <2>3, <3>1, <3>2, <3>3 DEF Unanswered
    <2> QED BY <1>2, <2>1, <2>3, HeldKept
  <1>5. CASE initKey(r)
    <2>1. /\ UNCHANGED <<requests, replies, handled, deleted, result, id,
                         channelRequestIDCounter>>
          /\ sender[r] = "key" /\ id[r] \in Id
      BY <1>1, <1>5 DEF initKey, Step, netVars, endVars
    <2>2. \A i \in Id : Unanswered(i)' => Unanswered(i)
      BY <1>2, <2>1 DEF Unanswered
    <2>3. objecForWait[id[r]] = NULL
      <3>1. Unanswered(id[r])
        BY <2>1 DEF Unanswered
      <3> QED BY <2>1, <3>1 DEF Held, Somewhere, IInv, OwnAnswer
    <2>4. \A i \in Id : objecForWait'[i] = objecForWait[i]
      BY <1>5, <2>1, <2>3 DEF initKey, semVars, IInv, TypeOK
    <2> QED BY <1>2, <2>1, <2>2, <2>4, HeldKept
  <1>6. CASE Submit(r)
    <2>1. /\ UNCHANGED <<replies, handled, deleted, result, objecForWait, id,
                         channelRequestIDCounter>>
          /\ sender[r] = "send" /\ requests' = requests \cup {id[r]}
      BY <1>6 DEF Submit, Step, semVars, endVars
    <2>2. \A i \in Id : Unanswered(i)' => Unanswered(i)
      <3>1. sender'[r] \notin {"key", "send"}
        BY <1>6 DEF Submit, Step, IInv, TypeOK
      <3> QED BY <1>2, <2>1, <3>1 DEF Unanswered
    <2> QED BY <1>2, <2>1, <2>2, HeldKept
  <1>7. CASE Find(r) \/ Enter(r)
    <2>1. /\ UNCHANGED <<requests, replies, handled, deleted, result,
                         objecForWait, id, channelRequestIDCounter>>
          /\ sender[r] \in {"find", "enter"} /\ sender'[r] \in {"enter", "wait"}
      BY <1>7 DEF Find, Enter, Step, semVars, netVars, endVars, IInv, TypeOK
    <2>2. \A i \in Id : Unanswered(i)' => Unanswered(i)
      BY <1>2, <2>1 DEF Unanswered
    <2> QED BY <1>2, <2>1, <2>2, HeldKept
  <1>8. CASE Wake(r)
    <2>0. PICK k \in Id : k = id[r]
      BY <1>1, <1>8 DEF Wake, Step
    <2>1. /\ UNCHANGED <<requests, replies, handled, deleted, id,
                         channelRequestIDCounter>>
          /\ sender[r] = "wait" /\ sender'[r] = "erase"
      BY <1>1, <1>8 DEF Wake, Step, netVars, endVars, IInv, TypeOK
    <2>2. /\ result' = [result EXCEPT ![r] = objecForWait[k]]
          /\ objecForWait' = [objecForWait EXCEPT ![k] = NULL]
      BY <1>8, <2>0 DEF Wake, TakeObject
    <2>3. /\ result'[r] = objecForWait[k] /\ objecForWait'[k] = NULL
          /\ \A q \in Request \ {r} : result'[q] = result[q]
          /\ \A i \in Id \ {k} : objecForWait'[i] = objecForWait[i]
      BY <2>1, <2>2 DEF IInv, TypeOK
    <2>4. /\ result[r] = NULL /\ objecForWait[k] \in {NULL, k} /\ k # NULL
          /\ \A q \in Request \ {r} : result[q] # k
      BY <1>3, <2>0, <2>1 DEF Held, IInv, OwnAnswer
    <2>5. \A i \in Id \ {k} : WithThread(i)' <=> WithThread(i)
      BY <2>3, <2>4 DEF WithThread
    <2>6. (WithThread(k)' <=> objecForWait[k] = k) /\ ~WithThread(k)
      BY <2>3, <2>4 DEF WithThread
    <2>7. \A i \in Id : Unanswered(i)' => Unanswered(i)
      BY <1>2, <2>1 DEF Unanswered
    <2>8. \A q \in Request : result'[q] # NULL => sender'[q] \in {"erase", "returned"}
      BY <1>2, <2>1, <2>3 DEF Held
    <2>9. CASE objecForWait[k] = NULL
      <3>1. result' = result /\ objecForWait' = objecForWait
        BY <2>1, <2>2, <2>4, <2>9 DEF IInv, TypeOK
      <3> QED BY <1>2, <2>1, <2>7, <3>1, HeldKept
    <2>10. CASE objecForWait[k] = k
      <3>1. ~Unanswered(k) /\ k \notin replies \cup handled \cup deleted
        BY <2>1, <2>10 DEF Held, Somewhere
      <3>2. Somewhere(k)'
        BY <2>6, <2>10 DEF Somewhere
      <3> QED BY <2>1, <2>3, <2>4, <2>5, <2>6, <2>7, <2>8, <2>10, <3>1, <3>2,
                 HeldMoves
    <2> QED BY <2>4, <2>9, <2>10
  <1>9. CASE Erase(r)
    <2>0. PICK k \in Id : k = id[r]
      BY <1>1, <1>9 DEF Erase, Step
    <2>1. /\ UNCHANGED <<requests, replies, handled, result, id,
                         channelRequestIDCounter>>
          /\ sender[r] = "erase" /\ sender'[r] = "returned"
      BY <1>1, <1>9 DEF Erase, Step, netVars, IInv, TypeOK
    <2>2. /\ deleted' = deleted \cup ({objecForWait[k]} \ {NULL})
          /\ objecForWait'[k] = NULL
          /\ \A i \in Id \ {k} : objecForWait'[i] = objecForWait[i]
      BY <1>9, <2>0 DEF Erase, IInv, TypeOK
    <2>3. objecForWait[k] \in {NULL, k} /\ k # NULL
      BY <2>1 DEF IInv, OwnAnswer
    <2>4. \A i \in Id : WithThread(i)' <=> WithThread(i)
      BY <2>1 DEF WithThread
    <2>5. \A i \in Id : Unanswered(i)' => Unanswered(i)
      BY <1>2, <2>1 DEF Unanswered
    <2>6. \A q \in Request : result'[q] # NULL => sender'[q] \in {"erase", "returned"}
      BY <1>2, <2>1 DEF Held
    <2>7. CASE objecForWait[k] = NULL
      <3>1. deleted' = deleted /\ \A i \in Id : objecForWait'[i] = objecForWait[i]
        BY <2>2, <2>7
      <3>2. \A i \in Id : Somewhere(i)' <=> Somewhere(i)
        BY <2>1, <2>4, <3>1 DEF Somewhere
      <3> QED BY <2>1, <2>4, <2>5, <2>6, <3>1, <3>2 DEF Held
    <2>8. CASE objecForWait[k] = k
      <3>1. /\ ~Unanswered(k) /\ ~WithThread(k)
            /\ k \notin replies \cup handled \cup deleted
        BY <2>1, <2>8 DEF Held, Somewhere
      <3>2. Somewhere(k)'
        BY <2>2, <2>3, <2>8 DEF Somewhere
      <3>3. \A i \in Id \ {k} : i \in deleted' <=> i \in deleted
        BY <2>2, <2>8
      <3> QED BY <2>1, <2>2, <2>3, <2>4, <2>5, <2>6, <3>1, <3>2, <3>3, HeldMoves
    <2> QED BY <2>3, <2>7, <2>8
  <1> QED BY <1>4, <1>5, <1>6, <1>7, <1>8, <1>9 DEF Send

\* The steps of the network and of the thread that runs response.
LEMMA AnswerHeld ==
  ASSUME IInv, Held, NEW k \in Id, Reply(k) \/ response(k)
  PROVE  Held' /\ \A i \in Id : Somewhere(i) => Somewhere(i)'
  <1> USE IdIsNat
  <1>1. /\ UNCHANGED <<channelRequestIDCounter, id, sender, result>>
        /\ requests' \in {requests, requests \ {k}}
    BY DEF Reply, response
  <1>2. \A i \in Id : WithThread(i)' <=> WithThread(i)
    BY <1>1 DEF WithThread
  <1>3. \A i \in Id : Unanswered(i)' => Unanswered(i)
    BY <1>1 DEF Unanswered
  <1>4. \A r \in Request : result'[r] # NULL => sender'[r] \in {"erase", "returned"}
    BY <1>1 DEF Held
  <1>5. k # NULL
    OBVIOUS
  <1>6. CASE Reply(k)
    <2>1. /\ k \in requests /\ requests' = requests \ {k}
          /\ UNCHANGED <<objecForWait, handled, deleted>>
      BY <1>6 DEF Reply, semVars, endVars
    <2>2. ~Somewhere(k)
      BY <2>1 DEF Held, Unanswered
    <2>3. CASE UNCHANGED replies
      BY <1>1, <1>3, <2>1, <2>3, HeldKept
    <2>4. CASE replies' = replies \cup {k}
      <3>1. ~Unanswered(k)'
        <4>1. channelRequestIDCounter \in Nat /\ k <= channelRequestIDCounter
          BY <2>1 DEF IInv, TypeOK, Once
        <4>2. \A r \in Request : id[r] = k => sender[r] \notin {"key", "send"}
          BY <2>1 DEF IInv, Once
        <4> QED BY <1>1, <2>1, <4>1, <4>2 DEF Unanswered
      <3> QED BY <1>2, <1>3, <1>4, <2>1, <2>2, <2>4, <3>1, HeldMoves DEF Somewhere
    <2> QED BY <1>6, <2>3, <2>4 DEF Reply
  <1>7. CASE response(k)
    <2>1. k \in replies /\ replies' = replies \ {k}
      BY <1>7 DEF response
    <2>2. /\ ~Unanswered(k) /\ ~WithThread(k) /\ objecForWait[k] # k
          /\ k \notin handled \cup deleted
      BY <2>1 DEF Held, Somewhere
    <2>3. CASE /\ objecForWait' = [objecForWait EXCEPT ![k] = k]
               /\ UNCHANGED endVars
      <3>1. objecForWait'[k] = k /\ \A i \in Id \ {k} : objecForWait'[i] = objecForWait[i]
        BY <2>3 DEF IInv, TypeOK
      <3>2. Somewhere(k)'
        BY <3>1 DEF Somewhere
      <3> QED BY <1>2, <1>3, <1>4, <2>1, <2>2, <2>3, <3>1, <3>2, HeldMoves DEF endVars
    <2>4. CASE /\ handled' = handled \cup {k}
               /\ UNCHANGED <<objecForWait, deleted>>
      <3>1. Somewhere(k)'
        BY <2>4 DEF Somewhere
      <3> QED BY <1>2, <1>3, <1>4, <2>1, <2>2, <2>4, <3>1, HeldMoves
    <2>5. CASE /\ deleted' = deleted \cup {k}
               /\ UNCHANGED <<objecForWait, handled>>
      <3>1. Somewhere(k)'
        BY <2>5 DEF Somewhere
      <3> QED BY <1>2, <1>3, <1>4, <2>1, <2>2, <2>5, <3>1, HeldMoves
    <2> QED BY <1>7, <2>3, <2>4, <2>5 DEF response
  <1> QED BY <1>6, <1>7

LEMMA HeldInductive ==
  /\ Init => Held
  /\ IInv /\ Held /\ [Next]_vars =>
        Held' /\ \A i \in Id : Somewhere(i) => Somewhere(i)'
  <1>1. Init => Held
    BY IdIsNat DEF Init, Held, WithThread, Somewhere
  <1>2. ASSUME IInv, Held, [Next]_vars
        PROVE  Held' /\ \A i \in Id : Somewhere(i) => Somewhere(i)'
    <2>1. ASSUME UNCHANGED <<replies, handled, deleted, result, objecForWait,
                             requests, channelRequestIDCounter, id, sender>>
          PROVE  Held' /\ \A i \in Id : Somewhere(i) => Somewhere(i)'
      <3>1. \A i \in Id : Unanswered(i)' => Unanswered(i)
        BY <2>1 DEF Unanswered
      <3> QED BY <1>2, <2>1, <3>1, HeldKept
    <2>2. CASE \E r \in Request : pollAnswer(r)
      BY <2>1, <2>2 DEF pollAnswer, netVars, endVars
    <2>3. CASE unlock \/ deinit \/ \E set \in BOOLEAN : setHandler(set)
      BY <2>1, <2>3 DEF unlock, deinit, setHandler, semVars, netVars, endVars
    <2>4. CASE UNCHANGED vars
      BY <2>1, <2>4 DEF vars, semVars, netVars, endVars
    <2> QED BY <1>2, <2>2, <2>3, <2>4, SendHeld, AnswerHeld DEF Next
  <1> QED BY <1>1, <1>2

OnePlace ==
    \A i \in Id : /\ Holders(i) # {} => Somewhere(i)
                  /\ Somewhere(i) => Cardinality(Holders(i)) = 1

\* What Held says of an answer is that it has one holder at most.
LEMMA HeldOnePlace == IInv /\ Held => OnePlace
  <1> SUFFICES ASSUME IInv, Held, NEW i \in Id
               PROVE  /\ Holders(i) # {} => Somewhere(i)
                      /\ Somewhere(i) => Cardinality(Holders(i)) = 1
    BY DEF OnePlace
  <1> USE IdIsNat
  <1>1. \A j \in Id : objecForWait[j] = i => j = i
    BY DEF IInv, OwnAnswer
  <1>2. \A q, r \in Request : result[q] = i /\ result[r] = i => q = r
    BY DEF IInv, OwnAnswer
  <1>3. Holders(i) # {} => Somewhere(i)
    BY <1>1 DEF Holders, Somewhere, WithThread
  <1>4. ASSUME Somewhere(i) PROVE \E p : Holders(i) = {p}
    <2>1. CASE i \in replies
      <3>1. Holders(i) = {<<"network", i>>}
        BY <1>1, <2>1 DEF Holders, Held, WithThread
      <3> QED BY <3>1
    <2>2. CASE i \in handled
      <3>1. Holders(i) = {<<"handler", i>>}
        BY <1>1, <2>2 DEF Holders, Held, WithThread
      <3> QED BY <3>1
    <2>3. CASE i \in deleted
      <3>1. Holders(i) = {<<"deleted", i>>}
        BY <1>1, <2>3 DEF Holders, Held, WithThread
      <3> QED BY <3>1
    <2>4. CASE objecForWait[i] = i
      <3>1. Holders(i) = {<<"semaphore", i>>}
        BY <1>1, <2>4 DEF Holders, Held, WithThread
      <3> QED BY <3>1
    <2>5. CASE WithThread(i)
      <3>1. PICK r \in Request : result[r] = i
        BY <2>5 DEF WithThread
      <3>2. Holders(i) = {<<"result", r>>}
        BY <1>1, <1>2, <2>5, <3>1 DEF Holders, Held
      <3> QED BY <3>2
    <2> QED BY <1>4, <2>1, <2>2, <2>3, <2>4, <2>5 DEF Somewhere
  <1> QED BY <1>3, <1>4, FS_Singleton

\* An answer that has come is in one place from then on, whatever the timeouts,
\* the late answers, the handler and deinit do: with the thread that waited,
\* in its semaphore, with the handler, in the network, or freed.
THEOREM AnswerKept == Spec => AnswerHeldOnce
  <1>1. Spec => [](IInv /\ Held)
    BY Inductive, HeldInductive, PTL DEF Spec
  <1>2. IInv /\ Held /\ OnePlace /\ OnePlace' /\ [Next]_vars
          => [\A i \in Id : Holders(i) # {} => Cardinality(Holders(i)') = 1]_vars
    <2> SUFFICES ASSUME IInv, Held, OnePlace, OnePlace', [Next]_vars,
                        NEW i \in Id, Holders(i) # {}
                 PROVE  Cardinality(Holders(i)') = 1
      OBVIOUS
    <2>1. Somewhere(i)'
      BY HeldInductive DEF OnePlace
    <2> QED BY <2>1 DEF OnePlace
  <1> QED BY <1>1, <1>2, HeldOnePlace, PTL DEF Spec, AnswerHeldOnce
=============================================================================
