--------------------------- MODULE StageAreaProofs ---------------------------
(***************************************************************************)
(* Theorems about the stage area: its types, the size of its blocks, and    *)
(* what is copied and indexed when they are processed.                     *)
(***************************************************************************)
EXTENDS StageArea, TLAPS

\* What TypeOK needs to be inductive: the file of an open block holds no more
\* than was written; who has read a header or a pack is past it.
OpenFile ==
    /\ \A b \in Block : b = current_data_block => size[b] <= Unit * len[b]
    /\ \A b \in Block : state[b] = "absent" =>
            len[b] = 0 /\ size[b] = 0 /\ b # current_data_block
    /\ worker \in {"write", "mantain"} => current_data_block # NoBlock
    /\ worker = "open" => current_data_block = NoBlock

Past ==
    \A s \in Scanner :
        /\ scan[s] = "body" => pos[s] >= Header
        /\ scan[s] \in {"index", "write"} => pos[s] >= Unit

Types == TypeOK /\ OpenFile /\ Past

Work == write \/ mantain \/ deinit \/ closeBlock \/ getNewDataBlock \/ WorkerCrash

LEMMA NoBlockIsNone == NoBlock \notin Block
  BY DEF NoBlock, Block

\* The whole packs of a file.
LEMMA WholePacks ==
  ASSUME NEW x \in Nat
  PROVE  /\ x \div Unit \in Nat
         /\ Unit * (x \div Unit) <= x /\ x <= Unit * (x \div Unit) + 2
  BY DEF Unit

\* What a write to a stream does to its block and to no other.
LEMMA AppendBlock ==
  ASSUME NEW b \in Block, BlockTypes, size[b] <= Unit * len[b], Append(b)
  PROVE  /\ len' \in [Block -> 0 .. MaxLen] /\ size' \in [Block -> 0 .. Unit * MaxLen]
         /\ size'[b] <= Unit * len'[b]
         /\ \A c \in Block \ {b} : len'[c] = len[c] /\ size'[c] = size[c]
  <1>1. PICK n \in size[b] .. Unit * (len[b] + 1) : size' = [size EXCEPT ![b] = n]
    BY DEF Append
  <1>2. len[b] \in Nat /\ size[b] \in Nat /\ len[b] + 1 <= MaxLen
    BY SizeAssumption DEF BlockTypes, Append, Unit
  <1>3. n \in Nat /\ n <= Unit * (len[b] + 1) /\ n <= Unit * MaxLen
    BY <1>2, SizeAssumption DEF Unit
  <1> QED BY <1>1, <1>2, <1>3, SizeAssumption DEF BlockTypes, Append, Unit

\* The worker does not touch what the scanners have, and keeps the blocks' types.
LEMMA WorkBlocks ==
  ASSUME BlockTypes, WorkerTypes, OpenFile, Work
  PROVE  BlockTypes' /\ OpenFile'
  <1> USE SizeAssumption, NoBlockIsNone DEF BlockTypes, OpenFile, Unit
  <1>1. CASE write
    <2>1. CASE isDataBlockValid /\ Append(current_data_block)
               /\ UNCHANGED <<journal, state, current_data_block, worker, age>>
      <3>1. current_data_block \in Block
        BY <2>1 DEF isDataBlockValid, WorkerTypes
      <3>2. size[current_data_block] <= Unit * len[current_data_block]
        BY <3>1
      <3> HIDE DEF OpenFile
      <3>3. BlockTypes'
        BY <2>1, <3>1, <3>2, AppendBlock
      <3>4. OpenFile'
        BY <2>1, <3>1, <3>2, AppendBlock DEF OpenFile
      <3> QED BY <3>3, <3>4
    <2>2. CASE current_data_block = NoBlock /\ worker' = "open"
               /\ UNCHANGED <<journal, state, len, size, current_data_block, age>>
      BY <2>2
    <2>3. CASE current_data_block # NoBlock /\ releaseDataBlock("write")
               /\ UNCHANGED <<journal, len, size, current_data_block, age>>
      BY <2>3 DEF releaseDataBlock, SetState, WorkerTypes
    <2> QED BY <1>1, <2>1, <2>2, <2>3 DEF write
  <1>2. CASE mantain
    BY <1>2 DEF mantain, releaseDataBlock, SetState, WorkerTypes
  <1>3. CASE deinit
    BY <1>3 DEF deinit, releaseDataBlock, SetState, WorkerTypes
  <1>4. CASE closeBlock
    <2>1. current_data_block \in Block
      BY <1>4 DEF closeBlock, WorkerTypes
    <2>2. Unit * len[current_data_block] \in 0 .. Unit * MaxLen
      BY <2>1
    <2> QED BY <1>4, <2>1, <2>2 DEF closeBlock
  <1>5. CASE getNewDataBlock
    <2>1. age' = age /\ journal' = journal /\ worker' = "idle"
      BY <1>5 DEF getNewDataBlock
    <2>2. CASE UNCHANGED <<state, current_data_block, len, size>>
      BY <2>1, <2>2
    <2>3. ASSUME NEW b \in Block, state[b] = "absent", Append(b), current_data_block' = b,
                 state' = [state EXCEPT ![b] = "AquiringData"]
          PROVE  BlockTypes' /\ OpenFile'
      <3>1. size[b] <= Unit * len[b]
        BY <2>3
      <3> HIDE DEF OpenFile
      <3>2. BlockTypes'
        BY <2>1, <2>3, <3>1, AppendBlock
      <3>3. OpenFile'
        BY <2>1, <2>3, <3>1, AppendBlock DEF OpenFile
      <3> QED BY <3>2, <3>3
    <2> QED BY <1>5, <2>2, <2>3 DEF getNewDataBlock
  <1>6. CASE WorkerCrash
    <2>1. current_data_block \in Block
      BY <1>6 DEF WorkerCrash, WorkerTypes
    <2> DEFINE n == size[current_data_block] \div Unit
    <2>2. n \in 0 .. len[current_data_block] /\ size[current_data_block] <= Unit * n + 2
      <3>1. size[current_data_block] \in Nat /\ len[current_data_block] \in Nat
        BY <2>1
      <3>2. size[current_data_block] <= Unit * len[current_data_block]
        BY <2>1
      <3>3. n \in Nat /\ Unit * n <= size[current_data_block]
               /\ size[current_data_block] <= Unit * n + 2
        BY <3>1, WholePacks
      <3> HIDE DEF n, BlockTypes, OpenFile
      <3> QED BY <3>1, <3>2, <3>3
    <2>3. n \in 0 .. MaxLen
      BY <2>1, <2>2
    <2>4. len' = [len EXCEPT ![current_data_block] = n]
      BY <1>6 DEF WorkerCrash
    <2>5. UNCHANGED <<journal, state, age, size>> /\ current_data_block' = NoBlock /\ worker' = "idle"
      BY <1>6 DEF WorkerCrash
    <2>6. state[current_data_block] = "absent" => n = 0
      BY <2>1, <2>2
    <2> HIDE DEF n
    <2> QED BY <2>1, <2>2, <2>3, <2>4, <2>5, <2>6
  <1> QED BY <1>1, <1>2, <1>3, <1>4, <1>5, <1>6 DEF Work

LEMMA WorkTypes ==
  ASSUME Types, Work
  PROVE  Types'
  <1> USE NoBlockIsNone
  <1>1. BlockTypes' /\ OpenFile'
    BY WorkBlocks DEF Types, TypeOK
  <1>2. UNCHANGED <<scanVars, storeVars>>
    BY DEF Work, write, mantain, deinit, closeBlock, getNewDataBlock, WorkerCrash
  <1>3. ScanTypes' /\ StoreTypes' /\ Past'
    BY <1>2 DEF Types, TypeOK, ScanTypes, StoreTypes, Past, scanVars, storeVars
  <1>4. WorkerTypes'
    <2> USE SizeAssumption DEF Types, TypeOK, WorkerTypes
    <2>1. Counted \in 0 .. CheckEvery - 1
      BY DEF Counted
    <2>2. CASE write
      BY <2>1, <2>2 DEF write, releaseDataBlock
    <2>3. CASE mantain
      BY <2>1, <2>3 DEF mantain, releaseDataBlock
    <2>4. CASE deinit
      BY <2>4 DEF deinit, releaseDataBlock
    <2>5. CASE closeBlock
      BY <2>5 DEF closeBlock
    <2>6. CASE getNewDataBlock
      BY <2>6 DEF getNewDataBlock
    <2>7. CASE WorkerCrash
      BY <2>7 DEF WorkerCrash
    <2> QED BY <2>2, <2>3, <2>4, <2>5, <2>6, <2>7 DEF Work
  <1> QED BY <1>1, <1>3, <1>4 DEF Types, TypeOK

Time(b) == Expire(b) \/ Overdue(b)

LEMMA TimeTypes ==
  ASSUME Types, NEW b \in Block, Time(b)
  PROVE  Types'
  <1>1. UNCHANGED <<journal, state, len, size, writerVars, scanVars, storeVars, faults>>
    BY DEF Time, Expire, Overdue
  <1>2. age' \in [Block -> {"valid", "expired", "overdue"}]
    BY DEF Time, Expire, Overdue, Types, TypeOK, BlockTypes
  <1> QED
    BY <1>1, <1>2 DEF Types, TypeOK, BlockTypes, WorkerTypes, ScanTypes, StoreTypes,
        OpenFile, Past, writerVars, scanVars, storeVars

Scanning(s) ==
    \/ changeStateToTimeoutedDatablock(s)
    \/ vfsFindSinceTimeDataBlock(s) \/ getNextAvailbaleBlock(s)
    \/ readHeader(s) \/ readBody(s)
    \/ idxAddDataPackIndex(s) \/ writeData(s) \/ processFails(s)
    \/ deleteBlock(s) \/ releaseFile(s) \/ ScannerCrash(s)

\* The scanners only change the states of blocks that exist.
LEMMA ScanBlocks ==
  ASSUME Types, NEW s \in Scanner, Scanning(s)
  PROVE  BlockTypes' /\ OpenFile' /\ UNCHANGED <<age, len, size, writerVars>>
  <1> DEFINE States == {"absent", "AquiringData", "None", "Processing", "Processed", "deleted"}
  <1>1. UNCHANGED <<age, len, size, writerVars>>
    BY DEF Scanning, changeStateToTimeoutedDatablock, vfsFindSinceTimeDataBlock,
        getNextAvailbaleBlock, readHeader, readBody, read, idxAddDataPackIndex, writeData,
        processFails, deleteBlock, releaseFile, ScannerCrash
  <1>2. state' \in [Block -> States]
    BY DEF Scanning, changeStateToTimeoutedDatablock, vfsFindSinceTimeDataBlock,
        getNextAvailbaleBlock, readHeader, readBody, read, idxAddDataPackIndex, writeData,
        processFails, deleteBlock, releaseFile, ScannerCrash, SetState, Types, TypeOK, BlockTypes
  <1>3. \A b \in Block : state'[b] = "absent" => state[b] = "absent"
    BY DEF Scanning, changeStateToTimeoutedDatablock, vfsFindSinceTimeDataBlock,
        getNextAvailbaleBlock, readHeader, readBody, read, idxAddDataPackIndex, writeData,
        processFails, deleteBlock, releaseFile, ScannerCrash, SetState, Types, TypeOK, BlockTypes
  <1>4. journal' \subseteq Block
    <2>1. CASE UNCHANGED journal
      BY <2>1 DEF Types, TypeOK, BlockTypes
    <2>2. CASE getNextAvailbaleBlock(s)
      <3>1. work[s] \in Block
        BY <2>2 DEF getNextAvailbaleBlock, Types, TypeOK, ScanTypes
      <3> QED BY <2>1, <2>2, <3>1 DEF getNextAvailbaleBlock, Types, TypeOK, BlockTypes
    <2>3. CASE deleteBlock(s)
      BY <2>1, <2>3 DEF deleteBlock, Types, TypeOK, BlockTypes
    <2> QED
      BY <2>1, <2>2, <2>3 DEF Scanning, changeStateToTimeoutedDatablock,
        vfsFindSinceTimeDataBlock, readHeader, readBody, read, idxAddDataPackIndex, writeData,
        processFails, releaseFile, ScannerCrash
  <1> QED BY <1>1, <1>2, <1>3, <1>4 DEF Types, TypeOK, BlockTypes, OpenFile, writerVars

\* The end of an iteration forgets the block.
LEMMA LeaveTypes ==
  ASSUME ScanTypes, Past, NEW s \in Scanner, Leave(s)
  PROVE  ScanTypes' /\ Past'
  <1>1. 0 \in 0 .. Unit * MaxLen
    BY SizeAssumption DEF Unit
  <1>2. /\ scan' \in [Scanner -> Held \cup {"idle", "claim"}]
        /\ work' \in [Scanner -> Block \cup {NoBlock}]
        /\ \A r \in Scanner : scan'[r] # "idle" <=> work'[r] # NoBlock
    BY DEF ScanTypes, Leave
  <1>3. reach' \in [Scanner -> 0 .. Unit * MaxLen] /\ pos' \in [Scanner -> 0 .. Unit * MaxLen]
    BY <1>1 DEF ScanTypes, Leave
  <1>4. Past'
    BY DEF ScanTypes, Past, Leave
  <1> QED BY <1>2, <1>3, <1>4 DEF ScanTypes

\* A scan that ends keeps its block until the file is deleted.
LEMMA StepTypes ==
  ASSUME ScanTypes, Past, NEW s \in Scanner, Step(s, "release"), scan[s] # "idle",
         UNCHANGED <<work, reach, pos>>
  PROVE  ScanTypes' /\ Past'
  BY DEF ScanTypes, Past, Step, Held

LEMMA readTypes ==
  ASSUME Types, NEW s \in Scanner, NEW n \in 1 .. 2, NEW next \in {"body", "index"},
         scan[s] \in {"header", "body"}, read(s, n, next),
         next = "body" => n >= Header, next = "index" => pos[s] + n >= Unit
  PROVE  ScanTypes' /\ Past'
  <1> USE SizeAssumption, NoBlockIsNone DEF Types, TypeOK, ScanTypes, Past, Held, Step
  <1>1. work[s] \in Block /\ pos[s] \in Nat /\ pos[s] <= Unit * MaxLen
    BY DEF Unit
  <1>2. size[work[s]] \in Nat /\ size[work[s]] <= Unit * MaxLen
    BY <1>1 DEF BlockTypes, Unit
  <1>3. UNCHANGED <<work, reach>>
    BY DEF read
  <1>4. CASE Step(s, "delete") /\ UNCHANGED pos
    BY <1>3, <1>4
  <1>5. CASE /\ pos[s] + n <= size[work[s]] /\ Step(s, next)
             /\ pos' = [pos EXCEPT ![s] = @ + n]
    <2>1. pos[s] + n \in 0 .. Unit * MaxLen
      BY <1>1, <1>2, <1>5 DEF Unit
    <2> QED BY <1>1, <1>3, <1>5, <2>1 DEF Header, Unit
  <1>6. CASE Step(s, "release") /\ UNCHANGED pos
    BY <1>3, <1>6
  <1> QED BY <1>4, <1>5, <1>6 DEF read

\* The pack a scanner has read is one of the block's.
LEMMA ReadPackIsPack ==
  ASSUME Types, NEW s \in Scanner, scan[s] \in {"index", "write"}
  PROVE  ReadPack(s) \in Pack
  <1>1. work[s] \in Block /\ pos[s] \in Nat /\ pos[s] <= Unit * MaxLen /\ pos[s] >= Unit
    BY SizeAssumption, NoBlockIsNone DEF Types, TypeOK, ScanTypes, Past, Unit
  <1>2. pos[s] \div Unit \in 1 .. MaxLen
    BY <1>1, WholePacks, SizeAssumption DEF Unit
  <1> QED BY <1>1, <1>2 DEF ReadPack, Pack

LEMMA ScanningTypes ==
  ASSUME Types, NEW s \in Scanner, Scanning(s)
  PROVE  Types'
  <1> USE NoBlockIsNone
  <1>1. BlockTypes' /\ OpenFile'
    BY ScanBlocks
  <1>2. WorkerTypes'
    <2>1. UNCHANGED writerVars
      BY DEF Scanning, changeStateToTimeoutedDatablock, vfsFindSinceTimeDataBlock,
        getNextAvailbaleBlock, readHeader, readBody, read, idxAddDataPackIndex, writeData,
        processFails, deleteBlock, releaseFile, ScannerCrash
    <2>2. faults' = faults \/ (faults < MaxFaults /\ faults' = faults + 1)
      BY DEF Scanning, changeStateToTimeoutedDatablock, vfsFindSinceTimeDataBlock,
        getNextAvailbaleBlock, readHeader, readBody, read, idxAddDataPackIndex, writeData,
        processFails, deleteBlock, releaseFile, ScannerCrash
    <2> QED BY <2>1, <2>2, SizeAssumption DEF Types, TypeOK, WorkerTypes, writerVars
  <1>3. StoreTypes'
    <2> USE DEF Types, TypeOK, StoreTypes
    <2>1. CASE UNCHANGED storeVars
      BY <2>1 DEF storeVars
    <2>2. CASE idxAddDataPackIndex(s)
      BY <2>2, ReadPackIsPack DEF idxAddDataPackIndex
    <2>3. CASE writeData(s)
      <3>1. ReadPack(s) \in Pack
        BY <2>3, ReadPackIsPack DEF writeData
      <3> QED BY <2>3, <3>1 DEF writeData
    <2> QED
      BY <2>1, <2>2, <2>3 DEF Scanning, changeStateToTimeoutedDatablock,
        vfsFindSinceTimeDataBlock, getNextAvailbaleBlock, readHeader, readBody, read,
        processFails, deleteBlock, releaseFile, ScannerCrash
  <1>4. ScanTypes' /\ Past'
    <2> USE DEF Types, TypeOK
    <2>1. CASE changeStateToTimeoutedDatablock(s)
      BY <2>1 DEF changeStateToTimeoutedDatablock, ScanTypes, Past
    <2>2. CASE vfsFindSinceTimeDataBlock(s)
      BY <2>2 DEF vfsFindSinceTimeDataBlock, ScanTypes, Past, Step
    <2>3. CASE getNextAvailbaleBlock(s)
      <3>1. CASE /\ Step(s, "header") \/ Step(s, "release")
                 /\ reach' = [reach EXCEPT ![s] = size[work[s]]]
                 /\ pos' = [pos EXCEPT ![s] = 0] /\ UNCHANGED work
        <4>1. work[s] \in Block
          BY <2>3 DEF getNextAvailbaleBlock, ScanTypes
        <4>2. /\ reach' \in [Scanner -> 0 .. Unit * MaxLen]
              /\ pos' \in [Scanner -> 0 .. Unit * MaxLen]
          BY <3>1, <4>1, SizeAssumption DEF ScanTypes, Unit, BlockTypes
        <4> QED BY <3>1, <4>1, <4>2 DEF ScanTypes, Past, Step, Held
      <3>2. CASE Leave(s)
        BY <3>2, LeaveTypes
      <3> QED BY <2>3, <3>1, <3>2 DEF getNextAvailbaleBlock
    <2>4. CASE readHeader(s)
      BY <2>4, readTypes DEF readHeader, Header
    <2>5. CASE readBody(s)
      <3>1. pos[s] \in Nat /\ pos[s] >= Header
        BY <2>5, SizeAssumption DEF readBody, ScanTypes, Past, Unit
      <3>2. Unit - Header \in 1 .. 2 /\ pos[s] + (Unit - Header) >= Unit
        BY <3>1 DEF Unit, Header
      <3> QED BY <2>5, <3>2, readTypes DEF readBody
    <2>6. CASE idxAddDataPackIndex(s) \/ writeData(s)
      BY <2>6 DEF idxAddDataPackIndex, writeData, ScanTypes, Past, Step, Held
    <2>7. CASE processFails(s)
      BY <2>7, StepTypes DEF processFails
    <2>8. CASE deleteBlock(s)
      BY <2>8, LeaveTypes, StepTypes DEF deleteBlock
    <2>9. CASE releaseFile(s) \/ ScannerCrash(s)
      BY <2>9, LeaveTypes DEF releaseFile, ScannerCrash
    <2> QED BY <2>1, <2>2, <2>3, <2>4, <2>5, <2>6, <2>7, <2>8, <2>9 DEF Scanning
  <1> QED BY <1>1, <1>2, <1>3, <1>4 DEF Types, TypeOK

LEMMA TypesInductive ==
  /\ Init => Types
  /\ Types /\ [Next]_vars => Types'
  <1>1. Init => Types
    <2> SUFFICES ASSUME Init PROVE Types
      OBVIOUS
    <2>1. BlockTypes /\ OpenFile
      BY SizeAssumption, NoBlockIsNone DEF Init, BlockTypes, OpenFile, Unit
    <2>2. WorkerTypes
      BY SizeAssumption DEF Init, WorkerTypes
    <2>3. ScanTypes /\ Past
      BY SizeAssumption DEF Init, ScanTypes, Past, Unit
    <2> QED BY <2>1, <2>2, <2>3 DEF Init, Types, TypeOK, StoreTypes
  <1>2. Types /\ [Next]_vars => Types'
    <2> SUFFICES ASSUME Types, [Next]_vars PROVE Types'
      OBVIOUS
    <2>1. CASE UNCHANGED vars
      BY <2>1 DEF Types, TypeOK, BlockTypes, WorkerTypes, ScanTypes, StoreTypes,
        OpenFile, Past, vars, writerVars, scanVars, storeVars
    <2>2. CASE Work
      BY <2>2, WorkTypes
    <2>3. ASSUME NEW b \in Block, Time(b) PROVE Types'
      BY <2>3, TimeTypes
    <2>4. ASSUME NEW s \in Scanner, Scanning(s) PROVE Types'
      BY <2>4, ScanningTypes
    <2> QED BY <2>1, <2>2, <2>3, <2>4 DEF Next, Work, Time, Scanning
  <1> QED BY <1>1, <1>2

\* Every variable keeps its type, and no file holds more than was written to it.
THEOREM TypeCorrect == Spec => []TypeOK
  <1>1. Types => TypeOK
    BY DEF Types
  <1> QED BY <1>1, TypesInductive, PTL DEF Spec

-----------------------------------------------------------------------------
\* Between two checks a block grows by no more than the counter tells.
Bounded ==
    /\ BlockBounded
    /\ current_data_block # NoBlock /\ worker = "idle" =>
        len[current_data_block] <= MaxSize + check_validity_counter

\* A stage block may outgrow max_block_size, but by less than the calls between
\* two checks of it by isDataBlockValid.
THEOREM BlocksBounded == Spec => []BlockBounded
  <1> USE SizeAssumption, NoBlockIsNone DEF Bounded, BlockBounded
  <1>1. Init => Bounded
    BY DEF Init
  <1>2. Types /\ Bounded /\ [Next]_vars => Bounded'
    <2> SUFFICES ASSUME Types, Bounded, [Next]_vars PROVE Bounded'
      OBVIOUS
    <2>0. /\ len \in [Block -> Nat] /\ current_data_block \in Block \cup {NoBlock}
          /\ check_validity_counter \in 0 .. CheckEvery - 1
      BY DEF Types, TypeOK, BlockTypes, WorkerTypes
    <2>1. CASE UNCHANGED <<len, current_data_block, worker, check_validity_counter>>
      BY <2>1
    <2>2. CASE write
      <3>1. CASE isDataBlockValid /\ Append(current_data_block)
                 /\ check_validity_counter' = Counted /\ UNCHANGED <<current_data_block, worker>>
        BY <2>0, <2>2, <3>1 DEF write, isDataBlockValid, Append, Counted
      <3>2. CASE worker' \in {"open", "write"} /\ UNCHANGED len
        BY <3>2
      <3> QED BY <2>2, <3>1, <3>2 DEF write, releaseDataBlock
    <2>3. CASE mantain
      BY <2>0, <2>3 DEF mantain, isDataBlockValid, Counted, releaseDataBlock
    <2>4. CASE deinit \/ closeBlock
      BY <2>4 DEF deinit, closeBlock, releaseDataBlock
    <2>5. CASE getNewDataBlock
      <3>1. CASE UNCHANGED <<current_data_block, len>>
        <4>1. current_data_block = NoBlock
          BY <2>5 DEF getNewDataBlock, Types, OpenFile
        <4> QED BY <3>1, <4>1
      <3>2. ASSUME NEW b \in Block, state[b] = "absent", Append(b), current_data_block' = b
            PROVE  Bounded'
        <4>1. len[b] = 0
          BY <3>2 DEF Types, OpenFile
        <4>2. len' = [len EXCEPT ![b] = len[b] + 1]
          BY <3>2 DEF Append
        <4>3. len'[b] = 1 /\ \A c \in Block \ {b} : len'[c] = len[c]
          BY <2>0, <4>1, <4>2
        <4> QED BY <2>0, <2>5, <3>2, <4>3 DEF getNewDataBlock
      <3> QED BY <2>5, <3>1, <3>2 DEF getNewDataBlock
    <2>6. CASE WorkerCrash
      <3>1. current_data_block \in Block
        BY <2>0, <2>6 DEF WorkerCrash
      <3> DEFINE n == size[current_data_block] \div Unit
      <3>2. size[current_data_block] \in Nat
        BY <3>1 DEF Types, TypeOK, BlockTypes, Unit
      <3>3. size[current_data_block] <= Unit * len[current_data_block]
        BY <3>1 DEF Types, OpenFile
      <3>4. n \in Nat /\ Unit * n <= size[current_data_block]
        BY <3>2, WholePacks
      <3> HIDE DEF n
      <3>5. n <= len[current_data_block]
        BY <2>0, <3>1, <3>2, <3>3, <3>4 DEF Unit
      <3>6. len' = [len EXCEPT ![current_data_block] = n] /\ current_data_block' = NoBlock
        BY <2>6 DEF WorkerCrash, n
      <3> QED BY <2>0, <3>1, <3>4, <3>5, <3>6
    <2>7. ASSUME NEW b \in Block, Time(b) PROVE Bounded'
      BY <2>1, <2>7 DEF Time, Expire, Overdue, writerVars
    <2>8. ASSUME NEW s \in Scanner, Scanning(s) PROVE Bounded'
      <3>1. UNCHANGED <<age, len, size, writerVars>>
        BY <2>8, ScanBlocks
      <3> QED BY <2>1, <3>1 DEF writerVars
    <2>9. CASE UNCHANGED vars
      BY <2>1, <2>9 DEF vars, writerVars
    <2> QED BY <2>2, <2>3, <2>4, <2>5, <2>6, <2>7, <2>8, <2>9 DEF Next, Time, Scanning
  <1>3. Bounded => BlockBounded
    OBVIOUS
  <1> QED BY <1>1, <1>2, <1>3, TypesInductive, PTL DEF Spec

-----------------------------------------------------------------------------
\* A pack is indexed, and its write to a data file was made.
Kept(p) == p \in index /\ p \in stored \cup lost

\* The first n packs of its block are a scanner's work so far.
Progress(s, n) ==
    /\ scan[s] \in Held \ {"release"} => \A i \in 1 .. n : Kept(<<work[s], i>>)
    /\ scan[s] = "header" => pos[s] = Unit * n
    /\ scan[s] = "body" => pos[s] = Unit * n + Header
    /\ scan[s] \in {"index", "write"} => pos[s] = Unit * n + Unit
    /\ scan[s] = "write" => ReadPack(s) \in index
    /\ scan[s] = "delete" => reach[s] \div Unit = n

Copied == \A s \in Scanner : \E n \in Nat : Progress(s, n)

LEMMA PacksPassed ==
  ASSUME NEW n \in Nat, NEW x \in Nat, NEW k \in {0, Header, Unit}, x = Unit * n + k
  PROVE  /\ k # Unit => x \div Unit = n
         /\ k = Unit => x \div Unit = n + 1
  BY DEF Unit, Header

\* What is indexed, and what was written, stays so.
LEMMA KeptStays ==
  ASSUME NEW s \in Scanner, Scanning(s)
  PROVE  index \subseteq index' /\ stored \cup lost \subseteq stored' \cup lost'
  <1>1. CASE UNCHANGED storeVars
    BY <1>1 DEF storeVars
  <1>2. CASE idxAddDataPackIndex(s) \/ writeData(s)
    BY <1>2 DEF idxAddDataPackIndex, writeData
  <1> QED
    BY <1>1, <1>2 DEF Scanning, changeStateToTimeoutedDatablock,
      vfsFindSinceTimeDataBlock, getNextAvailbaleBlock, readHeader, readBody, read,
      processFails, deleteBlock, releaseFile, ScannerCrash

LEMMA ScanCopied ==
  ASSUME Types, Copied, NEW s \in Scanner, Scanning(s)
  PROVE  Copied'
  <1>0. Types'
    BY ScanningTypes
  <1>1. ASSUME NEW r \in Scanner, NEW n \in Nat, Progress(r, n), scan[r] \in Held \ {"release"}
        PROVE  work'[r] = work[r] => \A i \in 1 .. n : Kept(<<work[r], i>>)'
    <2>1. \A i \in 1 .. n : Kept(<<work[r], i>>)
      BY <1>1 DEF Progress
    <2>2. \A i \in 1 .. n : <<work[r], i>> \in index' /\ <<work[r], i>> \in stored' \cup lost'
      BY <2>1, KeptStays DEF Kept
    <2> QED BY <2>2 DEF Kept
  <1>2. ASSUME NEW r \in Scanner, r # s
        PROVE  \E n \in Nat : Progress(r, n)'
    <2>1. /\ scan'[r] = scan[r] /\ work'[r] = work[r]
          /\ pos'[r] = pos[r] /\ reach'[r] = reach[r]
      <3>1. /\ scan \in [Scanner -> Held \cup {"idle", "claim"}]
            /\ work \in [Scanner -> Block \cup {NoBlock}]
            /\ pos \in [Scanner -> 0 .. Unit * MaxLen] /\ reach \in [Scanner -> 0 .. Unit * MaxLen]
        BY DEF Types, TypeOK, ScanTypes
      <3> QED
        BY <1>2, <3>1 DEF Scanning, changeStateToTimeoutedDatablock, vfsFindSinceTimeDataBlock,
          getNextAvailbaleBlock, readHeader, readBody, read, idxAddDataPackIndex, writeData,
          processFails, deleteBlock, releaseFile, ScannerCrash, Leave, Step
    <2>2. PICK n \in Nat : Progress(r, n)
      BY <1>2 DEF Copied
    <2>3. scan[r] = "write" => ReadPack(r) \in index'
      BY <2>2, KeptStays DEF Progress
    <2>4. scan[r] \in Held \ {"release"} => \A i \in 1 .. n : Kept(<<work[r], i>>)'
      BY <1>1, <1>2, <2>1, <2>2
    <2>5. Progress(r, n)'
      BY <2>1, <2>2, <2>3, <2>4 DEF Progress, Kept, ReadPack
    <2> QED BY <2>5
  <1>3. \E n \in Nat : Progress(s, n)'
    <2>0. /\ scan \in [Scanner -> Held \cup {"idle", "claim"}]
          /\ pos \in [Scanner -> Nat] /\ reach \in [Scanner -> Nat]
      BY SizeAssumption DEF Types, TypeOK, ScanTypes, Unit
    <2>1. PICK n \in Nat : Progress(s, n)
      BY DEF Copied
    <2>2. CASE scan'[s] \in {"idle", "claim", "release"}
      <3>1. Progress(s, 0)'
        BY <2>2 DEF Progress, Held
      <3> QED BY <3>1
    <2>3. CASE getNextAvailbaleBlock(s) /\ scan'[s] = "header"
      <3>1. pos'[s] = 0
        BY <2>0, <2>3 DEF getNextAvailbaleBlock, Leave
      <3>2. Progress(s, 0)'
        BY <2>3, <3>1, SMTT(30) DEF Progress, Held, Unit
      <3> QED BY <3>2
    <2>4. CASE readHeader(s) /\ scan'[s] # "release"
      <3>1. scan[s] = "header" /\ pos[s] = Unit * n /\ UNCHANGED <<work, reach>>
        BY <2>1, <2>4 DEF readHeader, read, Progress
      <3>2. \A i \in 1 .. n : Kept(<<work[s], i>>)'
        BY <1>1, <2>1, <3>1 DEF Held
      <3>3. \/ scan'[s] = "delete" /\ reach[s] = pos[s]
            \/ scan'[s] = "body" /\ pos'[s] = pos[s] + Header
        BY <2>0, <2>4 DEF readHeader, read, AllRead, Step
      <3>4. scan'[s] = "delete" => reach[s] \div Unit = n
        BY <2>0, <3>1, <3>3 DEF Unit
      <3>5. Progress(s, n)'
        BY <3>1, <3>2, <3>3, <3>4 DEF Progress, Kept
      <3> QED BY <3>5
    <2>5. CASE readBody(s) /\ scan'[s] # "release"
      <3>1. scan[s] = "body" /\ pos[s] = Unit * n + Header /\ UNCHANGED <<work, reach>>
        BY <2>1, <2>5 DEF readBody, read, Progress
      <3>2. \A i \in 1 .. n : Kept(<<work[s], i>>)'
        BY <1>1, <2>1, <3>1 DEF Held
      <3>3. \/ scan'[s] = "delete" /\ reach[s] = pos[s]
            \/ scan'[s] = "index" /\ pos'[s] = pos[s] + (Unit - Header)
        BY <2>0, <2>5 DEF readBody, read, AllRead, Step
      <3>4. scan'[s] = "delete" => reach[s] \div Unit = n
        BY <2>0, <3>1, <3>3 DEF Unit, Header
      <3>5. scan'[s] = "index" => pos'[s] = Unit * n + Unit
        BY <3>1, <3>3 DEF Unit, Header
      <3>6. Progress(s, n)'
        BY <3>1, <3>2, <3>3, <3>4, <3>5 DEF Progress, Kept
      <3> QED BY <3>6
    <2>6. CASE idxAddDataPackIndex(s)
      <3>1. scan[s] = "index" /\ scan'[s] = "write" /\ UNCHANGED <<work, reach, pos>>
        BY <2>0, <2>6 DEF idxAddDataPackIndex, Step
      <3>2. \A i \in 1 .. n : Kept(<<work[s], i>>)'
        BY <1>1, <2>1, <3>1 DEF Held
      <3>3. ReadPack(s) \in index'
        BY <2>6 DEF idxAddDataPackIndex
      <3>4. Progress(s, n)'
        BY <2>1, <3>1, <3>2, <3>3 DEF Progress, Kept, ReadPack
      <3> QED BY <3>4
    <2>7. CASE writeData(s)
      <3>1. scan[s] = "write" /\ scan'[s] = "header" /\ UNCHANGED <<work, reach, pos>>
        BY <2>0, <2>7 DEF writeData, Step
      <3>2. \A i \in 1 .. n : Kept(<<work[s], i>>)'
        BY <1>1, <2>1, <3>1 DEF Held
      <3>3. pos[s] = Unit * n + Unit /\ ReadPack(s) \in index
        BY <2>1, <3>1 DEF Progress
      <3>4. pos[s] = Unit * (n + 1) /\ ReadPack(s) = <<work[s], n + 1>>
        BY <2>0, <3>3 DEF ReadPack, Unit
      <3>5. Kept(<<work[s], n + 1>>)'
        <4>1. ReadPack(s) \in index' /\ ReadPack(s) \in stored' \cup lost'
          BY <2>7, <3>3 DEF writeData
        <4> QED BY <3>1, <3>4, <4>1 DEF Kept
      <3>6. \A i \in 1 .. n + 1 : Kept(<<work[s], i>>)'
        BY <3>2, <3>5
      <3>7. Progress(s, n + 1)'
        BY <3>1, <3>4, <3>6 DEF Progress, Kept
      <3> QED BY <3>7
    <2>8. CASE changeStateToTimeoutedDatablock(s)
      BY <2>2, <2>8 DEF changeStateToTimeoutedDatablock
    <2>9. CASE vfsFindSinceTimeDataBlock(s) \/ processFails(s)
      BY <2>0, <2>2, <2>9 DEF vfsFindSinceTimeDataBlock, processFails, Step
    <2>10. CASE deleteBlock(s) \/ releaseFile(s) \/ ScannerCrash(s)
      BY <2>0, <2>2, <2>10 DEF deleteBlock, releaseFile, ScannerCrash, Leave, Step
    <2>11. CASE getNextAvailbaleBlock(s)
      BY <2>0, <2>2, <2>3, <2>11 DEF getNextAvailbaleBlock, Leave, Step
    <2> QED
      BY <2>2, <2>4, <2>5, <2>6, <2>7, <2>8, <2>9, <2>10, <2>11 DEF Scanning
  <1> QED BY <1>2, <1>3 DEF Copied

\* When checkForBlockChange finds a block processed, each whole pack the scanner
\* saw in its file is indexed and was given to a data file: it is there unless
\* that write failed, which processDataPack does not report.
THEOREM ProcessedIsStored == Spec => []ScannedStored
  <1>1. Init => Copied
    <2> SUFFICES ASSUME Init, NEW s \in Scanner PROVE \E n \in Nat : Progress(s, n)
      BY DEF Copied
    <2>1. Progress(s, 0)
      BY DEF Init, Progress, Held
    <2> QED BY <2>1
  <1>2. Types /\ Copied /\ [Next]_vars => Copied'
    <2> SUFFICES ASSUME Types, Copied, [Next]_vars PROVE Copied'
      OBVIOUS
    <2>1. CASE UNCHANGED <<scanVars, storeVars>>
      BY <2>1, SMTT(30) DEF Copied, Progress, Kept, ReadPack, scanVars, storeVars
    <2>2. CASE Work
      BY <2>1, <2>2 DEF Work, write, mantain, deinit, closeBlock, getNewDataBlock, WorkerCrash
    <2>3. ASSUME NEW b \in Block, Time(b) PROVE Copied'
      BY <2>1, <2>3 DEF Time, Expire, Overdue
    <2>4. CASE UNCHANGED vars
      BY <2>1, <2>4 DEF vars
    <2> QED BY <2>2, <2>3, <2>4, ScanCopied DEF Next, Work, Time, Scanning
  <1>3. Copied => ScannedStored
    BY DEF Copied, Progress, Kept, Held, ScannedStored
  <1> QED BY <1>1, <1>2, <1>3, TypesInductive, PTL DEF Spec
=============================================================================
