------------------------------ MODULE StageArea ------------------------------
(***************************************************************************)
(* From acquisition to storage (ChaosDataService): a worker appends data   *)
(* packs to the blocks of its stage file (DeviceSharedDataWorker,          *)
(* VFSStageWriteableFile), scanners copy them to data files and index them *)
(* (StageDataConsumer, VFSStageReadableFile, DataPackScanner,              *)
(* StageDataVFileScanner).  They meet only in the states of the blocks,    *)
(* which the database keeps, and in the files.                             *)
(*                                                                         *)
(* A block's packs are <<b, 1>>, <<b, 2>>, ...  len packs have been        *)
(* written to the stream of a block, of which size units are in its file:  *)
(* a pack is three units, of which the header is one, so that a file may   *)
(* end within a pack.  Times are abstracted to the age of a block: valid,  *)
(* expired, or overdue, that is more than the 60 seconds of scanStage past *)
(* its valid_until.  The journal of a block is only written, never read:   *)
(* what matters is whether its file is there to be deleted.  A pack is in  *)
(* a data file and in the index, or not: which block of the data file it   *)
(* went to, and the location its index entry gives, are left out.          *)
(*                                                                         *)
(* Nothing makes a scanner the only one of its block, and nothing makes a  *)
(* writer give its block up before it is overdue.                          *)
(***************************************************************************)
EXTENDS Naturals

CONSTANTS
    Scanner,
    CheckEvery,     \* calls between two checks of a stage block: 16
    MaxSize,        \* max_block_size of a stage block, in packs
    MaxBlock,       \* bound: stage blocks
    MaxLen,         \* bound: packs in a stage block
    MaxFaults       \* bound: crashes and errors

ASSUME SizeAssumption ==
    /\ CheckEvery \in Nat \ {0} /\ MaxSize \in Nat \ {0}
    /\ MaxBlock \in Nat \ {0} /\ MaxLen \in Nat \ {0}
    /\ MaxFaults \in Nat

Block == 1 .. MaxBlock
NoBlock == 0
Pack == Block \X (1 .. MaxLen)
Header == 1
Unit == 3

VARIABLES
    state,          \* of each block; "absent" before, "deleted" at the end
    age,            \* of each block
    len, size,      \* of each block
    current_data_block,     \* the writer's, NoBlock without one
    check_validity_counter, \* modulo CheckEvery
    worker,         \* "idle", or the part of a call still to run
    scan,           \* where each scanner is
    work,           \* the block it works on
    reach, pos,     \* max_reacheable_size and current_work_position of it
    journal,        \* the blocks with a journal file
    index,          \* the packs with an index entry
    stored,         \* the packs written to the stream of a data file
    lost,           \* the others whose write to a data file failed
    faults

writerVars == <<current_data_block, check_validity_counter, worker>>
scanVars == <<scan, work, reach, pos>>
storeVars == <<index, stored, lost>>
vars == <<state, age, len, size, journal, writerVars, scanVars, storeVars, faults>>

Held == {"header", "body", "index", "write", "delete", "release"}

BlockTypes ==
    /\ state \in [Block -> {"absent", "AquiringData", "None", "Processing",
                            "Processed", "deleted"}]
    /\ age \in [Block -> {"valid", "expired", "overdue"}]
    /\ len \in [Block -> 0 .. MaxLen]
    /\ size \in [Block -> 0 .. Unit * MaxLen]
    /\ \A b \in Block : size[b] <= Unit * len[b] + 2
    /\ journal \subseteq Block

WorkerTypes ==
    /\ current_data_block \in Block \cup {NoBlock}
    /\ check_validity_counter \in 0 .. CheckEvery - 1
    /\ worker \in {"idle", "write", "mantain", "open"}
    /\ faults \in 0 .. MaxFaults

ScanTypes ==
    /\ scan \in [Scanner -> Held \cup {"idle", "claim"}]
    /\ work \in [Scanner -> Block \cup {NoBlock}]
    /\ \A s \in Scanner : scan[s] # "idle" <=> work[s] # NoBlock
    /\ reach \in [Scanner -> 0 .. Unit * MaxLen]
    /\ pos \in [Scanner -> 0 .. Unit * MaxLen]

StoreTypes ==
    index \subseteq Pack /\ stored \subseteq Pack /\ lost \subseteq Pack

\* The types; the file of a block holds what was written to it, or ends within
\* a pack that a crash cut off; a scanner has a block unless it is idle.
TypeOK == BlockTypes /\ WorkerTypes /\ ScanTypes /\ StoreTypes

Init ==
    /\ state = [b \in Block |-> "absent"]
    /\ age = [b \in Block |-> "valid"]
    /\ len = [b \in Block |-> 0]
    /\ size = [b \in Block |-> 0]
    /\ current_data_block = NoBlock
    \* The constructor leaves the counter uninitialised.
    /\ check_validity_counter \in 0 .. CheckEvery - 1
    /\ worker = "idle"
    /\ scan = [s \in Scanner |-> "idle"]
    /\ work = [s \in Scanner |-> NoBlock]
    /\ reach = [s \in Scanner |-> 0]
    /\ pos = [s \in Scanner |-> 0]
    /\ journal = {}
    /\ index = {} /\ stored = {} /\ lost = {}
    /\ faults = 0

-----------------------------------------------------------------------------
\* The worker thread, which writes, and the maintenance of its file, under
\* mantainance_mutex.

\* The counter after the increment of isDataBlockValid.
Counted ==
    IF check_validity_counter + 1 = CheckEvery THEN 0 ELSE check_validity_counter + 1

\* Slip: a block is never checked.
isDataBlockValid_Never == current_data_block # NoBlock

isDataBlockValid ==
    /\ current_data_block # NoBlock
    /\ Counted = 0 =>
        /\ age[current_data_block] = "valid"
        /\ len[current_data_block] < MaxSize

\* The update of the database selects the block by its path: it changes
\* whatever state it finds, and nothing when the block was deleted.
SetState(b, st) ==
    state' = [state EXCEPT ![b] = IF @ = "deleted" THEN @ ELSE st]

\* A stream writes to the file what does not fit in its buffer.
Append(b) ==
    /\ len[b] < MaxLen
    /\ len' = [len EXCEPT ![b] = @ + 1]
    /\ \E n \in size[b] .. Unit * (len[b] + 1) : size' = [size EXCEPT ![b] = n]

\* The state is set before the stream is closed.
releaseDataBlock(call) == worker' = call /\ SetState(current_data_block, "None")

write ==
    /\ worker = "idle"
    /\ check_validity_counter' = Counted
    /\ \/ /\ isDataBlockValid
          /\ Append(current_data_block)
          /\ UNCHANGED <<state, current_data_block, worker>>
       \/ /\ current_data_block = NoBlock
          /\ worker' = "open"
          /\ UNCHANGED <<state, len, size, current_data_block>>
       \/ /\ current_data_block # NoBlock /\ ~isDataBlockValid
          /\ releaseDataBlock("write")
          /\ UNCHANGED <<len, size, current_data_block>>
    /\ UNCHANGED <<journal, age, scanVars, storeVars, faults>>

mantain ==
    /\ worker = "idle"
    /\ check_validity_counter' = Counted
    /\ \/ /\ current_data_block = NoBlock \/ isDataBlockValid
          /\ UNCHANGED <<state, worker>>
       \/ /\ current_data_block # NoBlock /\ ~isDataBlockValid
          /\ releaseDataBlock("mantain")
    /\ UNCHANGED <<journal, age, len, size, current_data_block, scanVars,
                   storeVars, faults>>

\* The worker is deinitialised: its file is deleted, and releases its block.
deinit ==
    /\ worker = "idle" /\ current_data_block # NoBlock
    /\ releaseDataBlock("mantain")
    /\ UNCHANGED <<journal, age, len, size, current_data_block,
                   check_validity_counter, scanVars, storeVars, faults>>

\* The stream is flushed and closed.
closeBlock ==
    /\ worker \in {"write", "mantain"}
    /\ size' = [size EXCEPT ![current_data_block] = Unit * len[current_data_block]]
    /\ current_data_block' = NoBlock
    /\ worker' = IF worker = "write" THEN "open" ELSE "idle"
    /\ UNCHANGED <<journal, state, age, len, check_validity_counter, scanVars,
                   storeVars, faults>>

\* A write goes on with a new block, or fails without one.
getNewDataBlock ==
    /\ worker = "open"
    /\ \/ /\ \E b \in Block :
                /\ state[b] = "absent" /\ \A c \in 1 .. b - 1 : state[c] # "absent"
                /\ state' = [state EXCEPT ![b] = "AquiringData"]
                /\ current_data_block' = b
                /\ Append(b)
          /\ UNCHANGED faults
       \/ /\ faults < MaxFaults /\ faults' = faults + 1
          /\ UNCHANGED <<state, current_data_block, len, size>>
    /\ worker' = "idle"
    /\ UNCHANGED <<journal, age, check_validity_counter, scanVars, storeVars>>

\* The process of the worker ends: what its stream buffers is gone.
WorkerCrash ==
    /\ faults < MaxFaults /\ faults' = faults + 1
    /\ current_data_block # NoBlock
    /\ len' = [len EXCEPT ![current_data_block] = size[current_data_block] \div Unit]
    /\ current_data_block' = NoBlock /\ worker' = "idle"
    /\ check_validity_counter' \in 0 .. CheckEvery - 1
    /\ UNCHANGED <<journal, state, age, size, scanVars, storeVars>>

-----------------------------------------------------------------------------
\* Time, which matters for the blocks that acquire data.

Expire(b) ==
    /\ state[b] = "AquiringData" /\ age[b] = "valid"
    /\ age' = [age EXCEPT ![b] = "expired"]
    /\ UNCHANGED <<journal, state, len, size, writerVars, scanVars, storeVars,
                   faults>>

Overdue(b) ==
    /\ state[b] = "AquiringData" /\ age[b] = "expired"
    /\ age' = [age EXCEPT ![b] = "overdue"]
    /\ UNCHANGED <<journal, state, len, size, writerVars, scanVars, storeVars,
                   faults>>
-----------------------------------------------------------------------------
\* A scanner thread.

Step(s, where) == scan' = [scan EXCEPT ![s] = where]

\* The end of the iteration of scanStage.
Leave(s) ==
    /\ scan' = [scan EXCEPT ![s] = "idle"]
    /\ work' = [work EXCEPT ![s] = NoBlock]
    /\ reach' = [reach EXCEPT ![s] = 0]
    /\ pos' = [pos EXCEPT ![s] = 0]

\* Slip: the blocks of the data area are looked up.
TimedOut_DataArea == {}

TimedOut == {b \in Block : state[b] = "AquiringData" /\ age[b] = "overdue"}

\* Once a minute, blocks that were not closed in time are given to the
\* scanners.
changeStateToTimeoutedDatablock(s) ==
    /\ scan[s] = "idle"
    /\ state' = [b \in Block |-> IF b \in TimedOut THEN "None" ELSE state[b]]
    /\ UNCHANGED <<journal, age, len, size, writerVars, scan, work, reach,
                   pos, storeVars, faults>>

vfsFindSinceTimeDataBlock(s) ==
    /\ scan[s] = "idle"
    /\ \E b \in Block :
        /\ state[b] = "None"
        /\ work' = [work EXCEPT ![s] = b]
    /\ Step(s, "claim")
    /\ UNCHANGED <<journal, state, age, len, size, writerVars, reach, pos,
                   storeVars, faults>>

\* findAndModify of the database: from None only.
Claimable(b) == state[b] = "None"

\* The answer to findAndModify is never empty and counts as success whatever
\* the state was, so that the block is opened in any case.  A file that was
\* deleted or cannot be opened, or an error of the database, ends the iteration;
\* a block whose journal cannot be opened is given back.
getNextAvailbaleBlock(s) ==
    LET b == work[s]
        claimed == [state EXCEPT ![b] = IF Claimable(b) THEN "Processing" ELSE @]
    IN
    /\ scan[s] = "claim"
    /\ \/ /\ state[b] # "deleted" /\ state' = claimed
          /\ reach' = [reach EXCEPT ![s] = size[b]]
          /\ pos' = [pos EXCEPT ![s] = 0]
          /\ \/ /\ Step(s, "header") /\ journal' = journal \cup {b}
                /\ UNCHANGED faults
             \/ /\ Step(s, "release") /\ UNCHANGED journal
                /\ faults < MaxFaults /\ faults' = faults + 1
          /\ UNCHANGED work
       \/ /\ state[b] = "deleted"
          /\ Leave(s) /\ UNCHANGED <<state, journal, faults>>
       \/ /\ faults < MaxFaults /\ faults' = faults + 1
          /\ state' \in {state, claimed}
          /\ Leave(s) /\ UNCHANGED journal
    /\ UNCHANGED <<age, len, size, writerVars, storeVars>>

\* Slip: the last pack is left out.
AllRead_Early(s) == pos[s] + Unit >= reach[s]

\* checkForBlockChange: all that was in the file when it was opened is read.
AllRead(s) == pos[s] = reach[s]

\* A read of n units, which are in the file, or end the scan.
read(s, n, next) ==
    /\ \/ /\ AllRead(s)
          /\ SetState(work[s], "Processed")
          /\ Step(s, "delete") /\ UNCHANGED pos
       \/ /\ ~AllRead(s) /\ pos[s] + n <= size[work[s]]
          /\ pos' = [pos EXCEPT ![s] = @ + n]
          /\ Step(s, next) /\ UNCHANGED state
       \/ /\ ~AllRead(s) /\ pos[s] + n > size[work[s]]
          /\ Step(s, "release") /\ UNCHANGED <<state, pos>>
    /\ UNCHANGED <<journal, age, len, size, writerVars, work, reach,
                   storeVars, faults>>

readHeader(s) == scan[s] = "header" /\ read(s, Header, "body")

readBody(s) == scan[s] = "body" /\ read(s, Unit - Header, "index")

-----------------------------------------------------------------------------
\* processDataPack.

ReadPack(s) == <<work[s], pos[s] \div Unit>>

\* An entry that exists stays.
idxAddDataPackIndex(s) ==
    /\ scan[s] = "index"
    /\ index' = index \cup {ReadPack(s)}
    /\ Step(s, "write")
    /\ UNCHANGED <<journal, state, age, len, size, writerVars, work, reach,
                   pos, stored, lost, faults>>

\* A write that fails is logged, or not even noticed, and the scan goes on.
writeData(s) ==
    LET p == ReadPack(s) IN
    /\ scan[s] = "write"
    /\ \/ stored' = stored \cup {p} /\ lost' = lost \ {p}
       \/ lost' = lost \cup ({p} \ stored) /\ UNCHANGED stored
    /\ Step(s, "header")
    /\ UNCHANGED <<journal, state, age, len, size, writerVars, work, reach,
                   pos, index, faults>>

\* An error of the database or of the journal ends the scan: in processDataPack
\* before the data is written, or a heartbeat that fails after it.
processFails(s) ==
    /\ scan[s] \in {"header", "index", "write"}
    /\ scan[s] = "header" => pos[s] > 0
    /\ faults < MaxFaults /\ faults' = faults + 1
    /\ Step(s, "release")
    /\ UNCHANGED <<journal, state, age, len, size, writerVars, work, reach,
                   pos, storeVars>>

\* checkForBlockChange deletes the journal of a processed block, its entry in
\* the database and its file.  A journal that cannot be deleted, as when another
\* scanner of the block did so, ends the scan; so does the end of the file when
\* the database has not deleted the block.
deleteBlock(s) ==
    LET b == work[s] IN
    /\ scan[s] = "delete"
    /\ \/ /\ b \in journal
          /\ journal' = journal \ {b}
          /\ state' = [state EXCEPT ![b] = "deleted"]
          /\ Leave(s)
          /\ UNCHANGED faults
       \/ /\ Step(s, "release")
          /\ \/ /\ b \notin journal
                /\ UNCHANGED <<journal, faults>>
             \/ /\ faults < MaxFaults /\ faults' = faults + 1
                /\ journal' \in {journal, journal \ {b}}
          /\ UNCHANGED <<state, work, reach, pos>>
    /\ UNCHANGED <<age, len, size, writerVars, storeVars>>

\* The file is deleted, and releases the block it has open.
releaseFile(s) ==
    /\ scan[s] = "release"
    /\ SetState(work[s], "None")
    /\ Leave(s)
    /\ UNCHANGED <<journal, age, len, size, writerVars, storeVars, faults>>

\* The process of the scanner ends; another takes its place.
ScannerCrash(s) ==
    /\ scan[s] # "idle"
    /\ faults < MaxFaults /\ faults' = faults + 1
    /\ Leave(s)
    /\ UNCHANGED <<journal, state, age, len, size, writerVars, storeVars>>

-----------------------------------------------------------------------------
Scan(s) ==
    \/ vfsFindSinceTimeDataBlock(s) \/ getNextAvailbaleBlock(s)
    \/ readHeader(s) \/ readBody(s)
    \/ idxAddDataPackIndex(s) \/ writeData(s)
    \/ deleteBlock(s) \/ releaseFile(s)

Next ==
    \/ write \/ mantain \/ deinit \/ closeBlock \/ getNewDataBlock \/ WorkerCrash
    \/ \E b \in Block : Expire(b) \/ Overdue(b)
    \/ \E s \in Scanner :
        \/ changeStateToTimeoutedDatablock(s)
        \/ vfsFindSinceTimeDataBlock(s) \/ getNextAvailbaleBlock(s)
        \/ readHeader(s) \/ readBody(s)
        \/ idxAddDataPackIndex(s) \/ writeData(s) \/ processFails(s)
        \/ deleteBlock(s) \/ releaseFile(s) \/ ScannerCrash(s)

Spec == Init /\ [][Next]_vars

\* Time passes, the maintainer's timer fires, the threads of the worker and of
\* the scanners run.
FairSpec ==
    /\ Spec
    /\ WF_vars(mantain) /\ WF_vars(closeBlock)
    /\ \A b \in Block : WF_vars(Expire(b)) /\ WF_vars(Overdue(b))
    /\ \A s \in Scanner :
        WF_vars(changeStateToTimeoutedDatablock(s)) /\ WF_vars(Scan(s))

-----------------------------------------------------------------------------
Holds(s, b) == scan[s] \in Held /\ work[s] = b

\* What a scanner saw in the file of a block is indexed before the block is
\* processed, and so before it is deleted, and is in a data file unless the very
\* write of it failed; whatever else failed and was tried again before, whoever
\* else scans the block, and whatever its writer adds meanwhile.
ScannedStored ==
    \A s \in Scanner : scan[s] = "delete" =>
        \A i \in 1 .. reach[s] \div Unit :
            <<work[s], i>> \in index \cap (stored \cup lost)

\* A block outgrows max_block_size, "the max size that a block can reach" by
\* main.cpp, only by what is written between two checks of it: fewer than
\* CheckEvery packs.
BlockBounded ==
    \A b \in Block : len[b] < MaxSize + CheckEvery

\* A closed block that ends within the body of a pack.
Torn ==
    \E b \in Block \ {current_data_block} :
        size[b] % Unit > Header /\ state[b] # "deleted"

Abandoned(b) == state[b] = "Processing" /\ \A s \in Scanner : ~Holds(s, b)

\* A block gets processed, whether its worker fills it, leaves it
\* idle, stops or crashes; unless a scanner lost it in Processing, or there is
\* a block that ends within a pack, which is scanned over and over.
AcquiredProcessed ==
    \A b \in Block :
        state[b] = "AquiringData" ~>
            state[b] \in {"Processed", "deleted"} \/ Abandoned(b) \/ Torn

\* A block that has been processed has all the packs written to it copied, but
\* for those whose copy failed.
ProcessedWhole ==
    \A b \in Block : state[b] \in {"Processed", "deleted"} =>
        \A i \in 1 .. len[b] : <<b, i>> \in stored \cup lost
=============================================================================
