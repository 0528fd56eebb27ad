------------------------------ MODULE ShmQueue -------------------------------
(***************************************************************************)
(* shm_queue.c: one writer hands commands to all readers of its NUMA node  *)
(* through a ring of slots.  The writer owns write_pos, each reader its    *)
(* readers_pos; both are plain words that the other side polls.  The       *)
(* Makefile compiles without optimisation and stores become visible in     *)
(* program order (x86), so each access is one step in program order.       *)
(*                                                                         *)
(* The writer looks at the readers only when it is about to write slot 0:  *)
(* then it waits until each of them stands at position 0.  That is where a *)
(* reader stands that has finished the lap, and also one that has not      *)
(* begun it.                                                               *)
(*                                                                         *)
(* Commands are numbered in the order in which they are written, from 1.   *)
(***************************************************************************)
EXTENDS Integers, Sequences

CONSTANTS
  NumReaders, \* num_readers
  NumSlots,   \* num_slots
  MaxWrites,  \* bound: commands written
  Paced       \* whether the callers of shm_write keep to KeepsUp, see below

ASSUME ReadersAssumption == NumReaders \in Nat \ {0}
ASSUME SlotsAssumption   == NumSlots \in Nat /\ NumSlots >= 2
ASSUME WritesAssumption  == MaxWrites \in Nat
ASSUME PacedAssumption   == Paced \in BOOLEAN

Readers   == 0 .. NumReaders - 1
Positions == 0 .. NumSlots - 1

(* A slot that is cleared (calloc) or half way through memcpy. *)
Incomplete == 0

VARIABLES
  shm,         \* the slots
  write_pos,
  readers_pos,
  written,     \* the number of commands the writer has published
  wpc,         \* writer: "idle" between two calls, or its place in shm_write
  scan,        \* writer: loop variable i of check_readers_end
  rpc,         \* per reader: its place in poll_and_execute
  slot,        \* per reader: the slot of the pointer shm_read returned
  executed     \* history: per reader, what it found in the slots

writerVars == <<shm, write_pos, written, wpc, scan>>
readerVars == <<readers_pos, rpc, slot, executed>>
vars == <<writerVars, readerVars>>

TypeOK ==
  /\ shm \in [Positions -> Nat]
  /\ write_pos \in Positions
  /\ readers_pos \in [Readers -> Positions]
  /\ written \in Nat
  /\ wpc \in {"idle", "scan", "copy", "copying", "advance"}
  /\ scan \in Readers
  /\ rpc \in [Readers -> {"poll", "take", "execute"}]
  /\ slot \in [Readers -> Positions]
  /\ executed \in [Readers -> Seq(Nat)]

Init ==
  /\ shm = [p \in Positions |-> Incomplete]
  /\ write_pos = 0
  /\ readers_pos = [r \in Readers |-> 0]
  /\ written = 0
  /\ wpc = "idle"
  /\ scan = 0
  /\ rpc = [r \in Readers |-> "poll"]
  /\ slot = [r \in Readers |-> 0]
  /\ executed = [r \in Readers |-> << >>]

(* (p + 1) % num_slots *)
Advance(p) == IF p + 1 = NumSlots THEN 0 ELSE p + 1

------------------------------------------------------------------------------
(* The writer. *)

(***************************************************************************)
(* What the callers would have to guarantee and do not: a reader that      *)
(* stands at position 0, where the writer cannot tell whether it has       *)
(* finished the lap or not yet begun it, is less than a lap behind, the    *)
(* command about to be written included.                                   *)
(***************************************************************************)
KeepsUp(r) ==
  readers_pos[r] = 0 => written + 1 - Len(executed[r]) < NumSlots

(* The call: only a write to slot 0 is synchronised. *)
shm_write ==
  /\ wpc = "idle"
  /\ written < MaxWrites
  /\ Paced => \A r \in Readers : KeepsUp(r)
  /\ wpc' = IF write_pos = 0 THEN "scan" ELSE "copy"
  /\ scan' = 0
  /\ UNCHANGED <<shm, write_pos, written, readerVars>>

check_readers_end_mut ==
  /\ wpc = "scan"
  /\ wpc' = "copy"
  /\ UNCHANGED <<shm, write_pos, written, scan, readerVars>>

check_readers_end_exact ==
  /\ wpc = "scan"
  /\ IF readers_pos[scan] = NumSlots - 1
     THEN IF scan = NumReaders - 1
          THEN wpc' = "copy" /\ UNCHANGED scan
          ELSE scan' = scan + 1 /\ UNCHANGED wpc
     ELSE scan' = 0 /\ UNCHANGED wpc
  /\ UNCHANGED <<shm, write_pos, written, readerVars>>

(* One turn of the loop: a reader elsewhere than at 0 starts it over. *)
check_readers_end ==
  /\ wpc = "scan"
  /\ IF readers_pos[scan] = 0
     THEN IF scan = NumReaders - 1
          THEN wpc' = "copy" /\ UNCHANGED scan
          ELSE scan' = scan + 1 /\ UNCHANGED wpc
     ELSE scan' = 0 /\ UNCHANGED wpc
  /\ UNCHANGED <<shm, write_pos, written, readerVars>>

(* memcpy to the slot, in two steps: meanwhile it holds no whole command. *)
shm_write_copy ==
  /\ wpc = "copy"
  /\ shm' = [shm EXCEPT ![write_pos] = Incomplete]
  /\ wpc' = "copying"
  /\ UNCHANGED <<write_pos, written, scan, readerVars>>

shm_write_copied ==
  /\ wpc = "copying"
  /\ shm' = [shm EXCEPT ![write_pos] = written + 1]
  /\ wpc' = "advance"
  /\ UNCHANGED <<write_pos, written, scan, readerVars>>

(* The store to write_pos publishes the command. *)
shm_write_advance ==
  /\ wpc = "advance"
  /\ write_pos' = Advance(write_pos)
  /\ written' = written + 1
  /\ wpc' = "idle"
  /\ UNCHANGED <<shm, scan, readerVars>>

------------------------------------------------------------------------------
(* A reader. *)

shm_read_free(r) ==
  /\ rpc[r] = "poll"
  /\ written > 0
  /\ rpc' = [rpc EXCEPT ![r] = "take"]
  /\ UNCHANGED <<readers_pos, slot, executed, writerVars>>

(* shm_read up to the comparison of the two positions. *)
shm_read(r) ==
  /\ rpc[r] = "poll"
  /\ readers_pos[r] # write_pos
  /\ rpc' = [rpc EXCEPT ![r] = "take"]
  /\ UNCHANGED <<readers_pos, slot, executed, writerVars>>

(* Its other half: the position is advanced before the caller has looked. *)
shm_read_advance(r) ==
  /\ rpc[r] = "take"
  /\ slot' = [slot EXCEPT ![r] = readers_pos[r]]
  /\ readers_pos' = [readers_pos EXCEPT ![r] = Advance(@)]
  /\ rpc' = [rpc EXCEPT ![r] = "execute"]
  /\ UNCHANGED <<executed, writerVars>>

(* poll_and_execute runs the command in the slot, and polls again. *)
execute(r) ==
  /\ rpc[r] = "execute"
  /\ executed' = [executed EXCEPT ![r] = Append(@, shm[slot[r]])]
  /\ rpc' = [rpc EXCEPT ![r] = "poll"]
  /\ UNCHANGED <<readers_pos, slot, writerVars>>

------------------------------------------------------------------------------

WriterContinues ==
  \/ check_readers_end
  \/ shm_write_copy
  \/ shm_write_copied
  \/ shm_write_advance

ReaderStep(r) == shm_read(r) \/ shm_read_advance(r) \/ execute(r)

(* All MaxWrites commands are written, and every reader polls in vain. *)
Terminated ==
  /\ wpc = "idle" /\ written = MaxWrites
  /\ \A r \in Readers : rpc[r] = "poll" /\ readers_pos[r] = write_pos
  /\ UNCHANGED vars

Next ==
  \/ shm_write
  \/ WriterContinues
  \/ \E r \in Readers : ReaderStep(r)
  \/ Terminated

Spec == Init /\ [][Next]_vars

(***************************************************************************)
(* Writer and readers are threads pinned to cores of their own that poll   *)
(* all the time.  Nothing makes the writer's caller call.                  *)
(***************************************************************************)
Fairness ==
  /\ WF_vars(WriterContinues)
  /\ \A r \in Readers : WF_vars(ReaderStep(r))

FairSpec == Spec /\ Fairness

------------------------------------------------------------------------------
(* Correctness *)

(***************************************************************************)
(* Every reader executes the commands 1, 2, 3, ...: none is lost, repeated *)
(* or torn.  It is what test/main.c counts: result == previous + 1.        *)
(***************************************************************************)
ResultsConsecutive ==
  \A r \in Readers : \A i \in 1 .. Len(executed[r]) : executed[r][i] = i

(***************************************************************************)
(* shm_read gives up its hold on the slot before the caller has run the    *)
(* command: the pointer must still lead to it when it is run.              *)
(***************************************************************************)
PointerStable ==
  \A r \in Readers :
    rpc[r] = "execute" => shm[slot[r]] = Len(executed[r]) + 1

(* The commands reader r has taken out of the queue, executed or in hand. *)
Taken(r) == Len(executed[r]) + IF rpc[r] = "execute" THEN 1 ELSE 0

(* The commands written in the laps before the writer's current one. *)
LapStart == written - write_pos

(* Below write_pos the slots hold the current lap, above it the one before. *)
SlotsInLaps ==
  /\ write_pos <= written
  /\ LapStart = 0 \/ LapStart >= NumSlots
  /\ \A p \in Positions :
       IF p < write_pos \/ (p = write_pos /\ wpc = "advance")
       THEN shm[p] = LapStart + p + 1
       ELSE (LapStart # 0 /\ ~(p = write_pos /\ wpc = "copying"))
              => shm[p] = LapStart - NumSlots + p + 1

(***************************************************************************)
(* A reader is in the writer's lap, or the writer still stands before slot *)
(* 0 and the reader is on its way through the lap before.                  *)
(***************************************************************************)
ReaderInLaps(r) ==
  LET t == Taken(r)
  IN  /\ t <= written
      /\ \/ /\ t >= LapStart
            /\ readers_pos[r] = t - LapStart
         \/ /\ write_pos = 0 /\ wpc \in {"idle", "scan"}
            /\ LapStart - NumSlots < t /\ t < LapStart
            /\ readers_pos[r] = t - (LapStart - NumSlots)
      /\ rpc[r] = "take" => t < written
      /\ rpc[r] = "execute" =>
           slot[r] = t - 1 - (IF t > LapStart THEN LapStart ELSE LapStart - NumSlots)
      /\ (write_pos = NumSlots - 1 /\ wpc # "idle") => t > LapStart

(* The readers the scan has passed have finished the lap. *)
ScanInLaps ==
  wpc = "scan" =>
    /\ write_pos = 0
    /\ \A r \in Readers : r < scan => Taken(r) = written

(***************************************************************************)
(* The writer synchronises once per lap and then writes on without looking *)
(* at the readers: so the wait before slot 0 must leave every reader at    *)
(* the start of the lap, with no slot unread that is written next.         *)
(***************************************************************************)
InLaps == SlotsInLaps /\ ScanInLaps /\ \A r \in Readers : ReaderInLaps(r)

(* The inductive invariant, for callers that keep to KeepsUp. *)
IInv == TypeOK /\ InLaps /\ ResultsConsecutive

(* A call of shm_write returns: a reader in mid lap does not block it. *)
WriterReturns == wpc = "scan" ~> wpc = "idle"

(* Every reader executes as many commands as were written. *)
ReadersCatchUp ==
  \A r \in Readers, k \in 1 .. MaxWrites :
    written >= k ~> Len(executed[r]) >= k

(***************************************************************************)
(* Neither side waits forever for the other: the writer, which starts over *)
(* whenever it finds a reader elsewhere than at 0, nor any reader.         *)
(***************************************************************************)
Progress == WriterReturns /\ ReadersCatchUp

Abstract == INSTANCE BroadcastQueue WITH
  Commands  <- 1 .. MaxWrites,
  published <- [i \in 1 .. written |-> i]

(* The queue hands every command to every reader, in order. *)
ImplementsBroadcastQueue == Abstract!Spec
==============================================================================
