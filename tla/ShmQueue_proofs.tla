--------------------------- MODULE ShmQueue_proofs ---------------------------
(***************************************************************************)
(* Proofs about ShmQueue: its types for all callers, and for callers that  *)
(* keep to KeepsUp that every reader executes every command, in order.     *)
(***************************************************************************)
EXTENDS ShmQueue, TLAPS

USE ReadersAssumption, SlotsAssumption

(* A position moves on inside of the ring: the "% num_slots" of the code. *)
LEMMA AdvanceFacts ==
  ASSUME NEW p \in Positions
  PROVE  /\ Advance(p) \in Positions
         /\ p < NumSlots - 1 => Advance(p) = p + 1
         /\ p = NumSlots - 1 => Advance(p) = 0
BY DEF Advance, Positions

(* The queue is set up (setup_memory, calloc) with values of the types. *)
LEMMA InitType == Init => TypeOK
BY DEF Init, TypeOK, Positions, Readers, Incomplete

(* Every step of writer and readers keeps the types. *)
LEMMA TypeStep == TypeOK /\ [Next]_vars => TypeOK'
<1> SUFFICES ASSUME TypeOK, [Next]_vars
             PROVE  TypeOK'
  OBVIOUS
<1> USE DEF TypeOK, writerVars, readerVars
<1>1. CASE shm_write
  <2>1. 0 \in Readers
    BY DEF Readers
  <2> QED BY <1>1, <2>1 DEF shm_write
<1>2. CASE check_readers_end
  <2>1. scan' \in Readers
    <3>1. scan' = scan \/ scan' = 0 \/ (scan # NumReaders - 1 /\ scan' = scan + 1)
      BY <1>2 DEF check_readers_end
    <3>2. scan \in Int /\ 0 <= scan /\ scan <= NumReaders - 1
      BY DEF Readers
    <3> QED BY <3>1, <3>2 DEF Readers
  <2>2. wpc' \in {"scan", "copy"}
    BY <1>2 DEF check_readers_end
  <2>3. UNCHANGED <<shm, write_pos, written, readers_pos, rpc, slot, executed>>
    BY <1>2 DEF check_readers_end
  <2> QED BY <2>1, <2>2, <2>3
<1>3. CASE shm_write_copy
  BY <1>3 DEF shm_write_copy, Incomplete
<1>4. CASE shm_write_copied
  BY <1>4 DEF shm_write_copied
<1>5. CASE shm_write_advance
  BY <1>5, AdvanceFacts DEF shm_write_advance
<1>6. ASSUME NEW r \in Readers, shm_read(r)
      PROVE  TypeOK'
  BY <1>6 DEF shm_read
<1>7. ASSUME NEW r \in Readers, shm_read_advance(r)
      PROVE  TypeOK'
  BY <1>7, AdvanceFacts DEF shm_read_advance
<1>8. ASSUME NEW r \in Readers, execute(r)
      PROVE  TypeOK'
  <2>1. shm[slot[r]] \in Nat
    OBVIOUS
  <2>2. Append(executed[r], shm[slot[r]]) \in Seq(Nat)
    BY <2>1
  <2> QED BY <1>8, <2>2 DEF execute
<1>9. CASE UNCHANGED vars
  BY <1>9 DEF vars
<1> QED
  BY <1>1, <1>2, <1>3, <1>4, <1>5, <1>6, <1>7, <1>8, <1>9
     DEF Next, WriterContinues, ReaderStep, Terminated

(***************************************************************************)
(* Types: positions and slot pointers stay inside of the ring, whatever    *)
(* the callers of shm_write do.                                            *)
(***************************************************************************)
THEOREM TypeCorrect == Spec => []TypeOK
<1>1. Init => TypeOK
  BY InitType
<1>2. TypeOK /\ [Next]_vars => TypeOK'
  BY TypeStep
<1> QED BY <1>1, <1>2, PTL DEF Spec

------------------------------------------------------------------------------

(* The arithmetic of commands taken and laps begun is that of integers. *)
LEMMA CountFacts ==
  ASSUME TypeOK
  PROVE  /\ written \in Nat /\ LapStart \in Int /\ LapStart = written - write_pos
         /\ write_pos \in Nat /\ write_pos <= NumSlots - 1 /\ NumSlots \in Nat
         /\ \A r \in Readers :
              /\ readers_pos[r] \in Nat /\ readers_pos[r] <= NumSlots - 1
              /\ Len(executed[r]) \in Nat /\ Taken(r) \in Nat
              /\ Taken(r) = Len(executed[r]) \/ Taken(r) = Len(executed[r]) + 1
<1>1. \A r \in Readers : Len(executed[r]) \in Nat
  BY DEF TypeOK
<1>2. /\ written \in Nat /\ write_pos \in Positions
      /\ \A r \in Readers : readers_pos[r] \in Positions
  BY DEF TypeOK
<1>3. /\ LapStart \in Int /\ LapStart = written - write_pos
      /\ write_pos \in Nat /\ write_pos <= NumSlots - 1 /\ NumSlots \in Nat
  BY <1>2 DEF LapStart, Positions
<1>4. ASSUME NEW r \in Readers
      PROVE  /\ readers_pos[r] \in Nat /\ readers_pos[r] <= NumSlots - 1
             /\ Len(executed[r]) \in Nat /\ Taken(r) \in Nat
             /\ Taken(r) = Len(executed[r]) \/ Taken(r) = Len(executed[r]) + 1
  <2>1. Taken(r) = Len(executed[r]) \/ Taken(r) = Len(executed[r]) + 1
    <3>1. Len(executed[r]) \in Nat
      BY <1>1
    <3>2. CASE rpc[r] = "execute"
      BY <3>1, <3>2 DEF Taken
    <3>3. CASE rpc[r] # "execute"
      BY <3>1, <3>3 DEF Taken
    <3> QED BY <3>2, <3>3
  <2> QED BY <1>1, <1>2, <2>1 DEF Positions
<1> QED BY <1>2, <1>3, <1>4

(* Before the first command all positions are those of an empty first lap. *)
LEMMA InitInLaps == Init => InLaps
<1> SUFFICES ASSUME Init
             PROVE  InLaps
  OBVIOUS
<1>1. SlotsInLaps
  BY DEF Init, SlotsInLaps, LapStart, Positions
<1>2. ScanInLaps
  BY DEF Init, ScanInLaps
<1>3. \A r \in Readers : ReaderInLaps(r)
  BY DEF Init, ReaderInLaps, Taken, LapStart
<1> QED BY <1>1, <1>2, <1>3 DEF InLaps

(* The pointer shm_read returned still leads to the command to be run. *)
LEMMA FoundInSlot ==
  ASSUME TypeOK, InLaps, NEW r \in Readers, rpc[r] = "execute"
  PROVE  shm[slot[r]] = Len(executed[r]) + 1
<1> DEFINE t == Taken(r)
<1>1. t = Len(executed[r]) + 1 /\ t \in Nat /\ t >= 1
  BY DEF TypeOK, Taken
<1>2. ReaderInLaps(r) /\ SlotsInLaps
  BY DEF InLaps
<1>3. slot[r] \in Positions /\ LapStart \in Int /\ write_pos \in 0 .. NumSlots - 1
  BY DEF TypeOK, LapStart, Positions
<1>4. CASE t > LapStart
  <2>1. slot[r] < write_pos /\ slot[r] = t - 1 - LapStart
    BY <1>1, <1>2, <1>3, <1>4 DEF ReaderInLaps, LapStart, TypeOK
  <2> QED BY <1>1, <1>2, <1>3, <2>1 DEF SlotsInLaps
<1>5. CASE ~(t > LapStart)
  <2>1. slot[r] = t - 1 - (LapStart - NumSlots)
    BY <1>2, <1>5 DEF ReaderInLaps
  <2>2. /\ LapStart # 0
        /\ ~(slot[r] < write_pos)
        /\ slot[r] = write_pos => wpc \in {"idle", "scan"}
    BY <1>1, <1>2, <1>3, <1>5, <2>1 DEF ReaderInLaps, LapStart, TypeOK
  <2> QED BY <1>1, <1>2, <1>3, <2>1, <2>2 DEF SlotsInLaps
<1> QED BY <1>4, <1>5

(* What a step leaves alone of the readers' places. *)
LEMMA ReaderFrame ==
  ASSUME TypeOK, NEW r \in Readers, ReaderInLaps(r),
         UNCHANGED <<write_pos, written>>,
         readers_pos'[r] = readers_pos[r], rpc'[r] = rpc[r],
         slot'[r] = slot[r], executed'[r] = executed[r],
         \/ wpc' = wpc
         \/ Taken(r) >= LapStart /\ (write_pos # NumSlots - 1 \/ wpc # "idle")
         \/ wpc = "idle" /\ wpc' = "scan" /\ write_pos # NumSlots - 1
         \/ Taken(r) > LapStart
  PROVE  ReaderInLaps(r)' /\ Taken(r)' = Taken(r)
BY DEF ReaderInLaps, Taken, LapStart, TypeOK

(* The steps of the writer, for callers that keep to KeepsUp. *)
LEMMA WriterInLaps ==
  ASSUME TypeOK, InLaps, Paced, shm_write \/ WriterContinues
  PROVE  InLaps'
<1>1. CASE shm_write
  <2>1. ASSUME NEW r \in Readers
        PROVE  ReaderInLaps(r)'
    <3>1. ReaderInLaps(r) /\ KeepsUp(r)
      BY <1>1 DEF InLaps, shm_write
    <3>2. CASE write_pos = NumSlots - 1
      <4>1. Taken(r) > LapStart
        <5>1. /\ Taken(r) >= LapStart
              /\ readers_pos[r] = Taken(r) - LapStart
          BY <3>1, <3>2 DEF ReaderInLaps
        <5>2. ASSUME Taken(r) = LapStart
              PROVE  FALSE
          <6>1. written + 1 - Len(executed[r]) < NumSlots
            BY <3>1, <5>1, <5>2, CountFacts DEF KeepsUp
          <6>2. written = Taken(r) + NumSlots - 1 /\ Taken(r) >= Len(executed[r])
            BY <3>2, <5>2, CountFacts
          <6> QED BY <6>1, <6>2, CountFacts
        <5> QED BY <5>1, <5>2, CountFacts
      <4> QED BY <1>1, <3>1, <4>1, ReaderFrame DEF shm_write, readerVars
    <3>3. CASE write_pos # NumSlots - 1 /\ write_pos = 0
      BY <1>1, <3>1, <3>3, ReaderFrame DEF shm_write, readerVars
    <3>4. CASE write_pos # NumSlots - 1 /\ write_pos # 0
      <4>1. Taken(r) >= LapStart
        BY <3>1, <3>4 DEF ReaderInLaps
      <4> QED BY <1>1, <3>1, <3>4, <4>1, ReaderFrame DEF shm_write, readerVars
    <3> QED BY <3>2, <3>3, <3>4
  <2>2. SlotsInLaps'
    BY <1>1 DEF InLaps, SlotsInLaps, LapStart, shm_write
  <2>3. ScanInLaps'
    BY <1>1 DEF ScanInLaps, shm_write, Readers
  <2> QED BY <2>1, <2>2, <2>3 DEF InLaps
<1>2. CASE check_readers_end
  <2>1. ScanInLaps /\ write_pos = 0 /\ wpc = "scan" /\ scan \in Readers
    BY <1>2 DEF InLaps, ScanInLaps, check_readers_end, TypeOK
  <2>2. LapStart = written
    BY <2>1 DEF LapStart, TypeOK
  <2>3. ASSUME NEW r \in Readers, readers_pos[r] = 0
        PROVE  Taken(r) = written
    <3>1. ReaderInLaps(r)
      BY DEF InLaps
    <3> QED BY <2>1, <2>2, <2>3, <3>1, CountFacts DEF ReaderInLaps
  <2>4. ASSUME NEW r \in Readers
        PROVE  ReaderInLaps(r)' /\ Taken(r)' = Taken(r)
    <3>1. wpc' = wpc \/ Taken(r) >= LapStart
      <4>1. ASSUME wpc' # wpc
            PROVE  scan = NumReaders - 1 /\ readers_pos[scan] = 0
        BY <1>2, <4>1 DEF check_readers_end
      <4>2. ASSUME wpc' # wpc
            PROVE  Taken(r) = written
        <5>1. r < scan \/ r = scan
          BY <4>1, <4>2 DEF Readers
        <5> QED BY <2>1, <2>3, <4>1, <4>2, <5>1 DEF ScanInLaps
      <4> QED BY <2>2, <4>2 DEF TypeOK
    <3>2. wpc # "idle"
      BY <2>1
    <3> QED
      BY <1>2, <3>1, <3>2, ReaderFrame DEF InLaps, check_readers_end, readerVars
  <2>5. SlotsInLaps'
    BY <1>2 DEF InLaps, SlotsInLaps, LapStart, check_readers_end
  <2>6. ScanInLaps'
    <3>1. ASSUME wpc' = "scan", NEW r \in Readers, r < scan'
          PROVE  Taken(r)' = written'
      <4>2. r < scan \/ (r = scan /\ readers_pos[scan] = 0)
        BY <1>2, <2>1, <3>1 DEF check_readers_end, Readers
      <4>3. Taken(r) = written
        BY <2>1, <2>3, <4>2 DEF ScanInLaps
      <4> QED BY <1>2, <2>4, <4>3 DEF check_readers_end
    <3> QED BY <1>2, <2>1, <3>1 DEF ScanInLaps, check_readers_end
  <2> QED BY <2>4, <2>5, <2>6 DEF InLaps
<1>3. CASE shm_write_copy \/ shm_write_copied
  <2>1. wpc \in {"copy", "copying"} /\ wpc' \in {"copying", "advance"}
    BY <1>3 DEF shm_write_copy, shm_write_copied
  <2>2. UNCHANGED <<write_pos, written, scan, readerVars>>
    BY <1>3 DEF shm_write_copy, shm_write_copied
  <2>3. ASSUME NEW r \in Readers
        PROVE  ReaderInLaps(r)'
    <3>1. Taken(r) >= LapStart
      BY <2>1 DEF InLaps, ReaderInLaps
    <3> QED BY <2>1, <2>2, <3>1, ReaderFrame DEF InLaps, readerVars
  <2>4. SlotsInLaps'
    <3>0. shm \in [Positions -> Nat] /\ written + 1 \in Nat
      BY CountFacts DEF TypeOK
    <3>1. \E v \in Nat : shm' = [shm EXCEPT ![write_pos] = v]
                       /\ (wpc' = "copying" \/ (wpc' = "advance" /\ v = written + 1))
      BY <1>3, <3>0 DEF shm_write_copy, shm_write_copied, Incomplete
    <3>2. PICK v \in Nat :
            /\ \A p \in Positions : shm'[p] = IF p = write_pos THEN v ELSE shm[p]
            /\ wpc' = "copying" \/ (wpc' = "advance" /\ v = written + 1)
      BY <3>0, <3>1
    <3>3. SlotsInLaps /\ LapStart' = LapStart /\ wpc # "advance"
      BY <2>1, <2>2 DEF InLaps, LapStart
    <3>4. ASSUME NEW p \in Positions
          PROVE  IF p < write_pos' \/ (p = write_pos' /\ wpc' = "advance")
                 THEN shm'[p] = LapStart' + p + 1
                 ELSE (LapStart' # 0 /\ ~(p = write_pos' /\ wpc' = "copying"))
                        => shm'[p] = LapStart' - NumSlots + p + 1
      <4>1. CASE p = write_pos
        <5>1. v = written + 1 => v = LapStart + p + 1
          BY <4>1, CountFacts
        <5>2. ~(p < write_pos)
          BY <4>1, CountFacts
        <5>3. shm'[p] = v /\ write_pos' = write_pos
          BY <2>2, <3>2, <4>1
        <5>4. wpc' = "copying" \/ (wpc' = "advance" /\ v = written + 1)
          BY <3>2
        <5> QED BY <3>3, <4>1, <5>1, <5>2, <5>3, <5>4
      <4>2. CASE p # write_pos
        BY <2>2, <3>2, <3>3, <4>2 DEF SlotsInLaps
      <4> QED BY <4>1, <4>2
    <3> QED BY <2>2, <3>3, <3>4 DEF SlotsInLaps
  <2>5. ScanInLaps'
    BY <2>1 DEF ScanInLaps
  <2> QED BY <2>3, <2>4, <2>5 DEF InLaps
<1>4. CASE shm_write_advance
  <2>1. /\ wpc = "advance" /\ wpc' = "idle"
        /\ written' = written + 1 /\ write_pos' = Advance(write_pos)
        /\ UNCHANGED <<shm, readerVars>>
    BY <1>4 DEF shm_write_advance
  <2>2. write_pos \in Positions /\ written \in Nat /\ NumSlots \in Nat
    BY DEF TypeOK
  <2>3. \/ write_pos < NumSlots - 1 /\ write_pos' = write_pos + 1 /\ LapStart' = LapStart
        \/ write_pos = NumSlots - 1 /\ write_pos' = 0 /\ LapStart' = LapStart + NumSlots
    BY <2>1, <2>2, AdvanceFacts DEF LapStart, Positions
  <2>4. ASSUME NEW r \in Readers
        PROVE  ReaderInLaps(r)'
    <3>1. Taken(r)' = Taken(r) /\ Taken(r) \in Nat
      BY <2>1 DEF Taken, readerVars, TypeOK
    <3>2. /\ Taken(r) <= written /\ Taken(r) >= LapStart
          /\ readers_pos[r] = Taken(r) - LapStart
          /\ write_pos = NumSlots - 1 => Taken(r) > LapStart
          /\ rpc[r] = "execute" =>
               slot[r] = Taken(r) - 1
                           - (IF Taken(r) > LapStart THEN LapStart ELSE LapStart - NumSlots)
      BY <2>1 DEF InLaps, ReaderInLaps
    <3>3. LapStart \in Int /\ readers_pos[r] \in Int /\ LapStart = written - write_pos
      BY <2>2 DEF LapStart, TypeOK, Positions
    <3>4. CASE write_pos < NumSlots - 1
      BY <2>1, <2>2, <2>3, <3>1, <3>2, <3>3, <3>4
         DEF InLaps, ReaderInLaps, readerVars, Positions
    <3>5. CASE write_pos = NumSlots - 1
      BY <2>1, <2>2, <2>3, <3>1, <3>2, <3>3, <3>5
         DEF InLaps, ReaderInLaps, readerVars, Positions
    <3> QED BY <2>2, <3>4, <3>5 DEF Positions
  <2>5. SlotsInLaps'
    <3>1. SlotsInLaps /\ LapStart \in Int /\ LapStart = written - write_pos
      BY <2>2 DEF InLaps, LapStart, Positions
    <3>2. shm \in [Positions -> Nat] /\ shm' = shm
      BY <2>1 DEF TypeOK
    <3>3. LapStart' \in Int /\ LapStart' = written' - write_pos'
      BY <2>1, <2>2, AdvanceFacts DEF LapStart, Positions
    <3>4. CASE write_pos < NumSlots - 1
      <4>1. write_pos' = write_pos + 1 /\ LapStart' = LapStart
        BY <2>2, <2>3, <3>4 DEF Positions
      <4>2. ASSUME NEW p \in Positions
            PROVE  IF p < write_pos'
                   THEN shm[p] = LapStart + p + 1
                   ELSE LapStart # 0 => shm[p] = LapStart - NumSlots + p + 1
        <5>1. p < write_pos' <=> p < write_pos \/ p = write_pos
          BY <2>2, <4>1 DEF Positions
        <5> QED BY <2>1, <3>1, <5>1 DEF SlotsInLaps
      <4> QED BY <2>1, <2>2, <3>1, <4>1, <4>2, CountFacts DEF SlotsInLaps
    <3>5. CASE write_pos = NumSlots - 1
      BY <2>1, <2>2, <2>3, <3>1, <3>2, <3>3, <3>5 DEF SlotsInLaps, Positions
    <3> QED BY <2>2, <3>4, <3>5 DEF Positions
  <2>6. ScanInLaps'
    BY <2>1 DEF ScanInLaps
  <2> QED BY <2>4, <2>5, <2>6 DEF InLaps
<1> QED BY <1>1, <1>2, <1>3, <1>4 DEF WriterContinues

(* The steps of a reader. *)
LEMMA ReaderInLapsStep ==
  ASSUME TypeOK, InLaps, NEW r \in Readers, ReaderStep(r)
  PROVE  InLaps'
<1>1. UNCHANGED writerVars
  BY DEF ReaderStep, shm_read, shm_read_advance, execute
<1>2. SlotsInLaps'
  BY <1>1 DEF InLaps, SlotsInLaps, LapStart, writerVars
<1>3. ASSUME NEW q \in Readers, q # r
      PROVE  ReaderInLaps(q)' /\ Taken(q)' = Taken(q)
  <2>1. /\ readers_pos'[q] = readers_pos[q] /\ rpc'[q] = rpc[q]
        /\ slot'[q] = slot[q] /\ executed'[q] = executed[q]
    BY <1>3 DEF ReaderStep, shm_read, shm_read_advance, execute, TypeOK
  <2>2. ReaderInLaps(q) /\ UNCHANGED <<write_pos, written, wpc>>
    BY <1>1 DEF InLaps, writerVars
  <2> QED BY <2>1, <2>2, ReaderFrame
<1>4. ReaderInLaps(r) /\ readers_pos[r] \in Positions /\ Len(executed[r]) \in Nat
  BY DEF InLaps, TypeOK
<1>5. LapStart' = LapStart /\ UNCHANGED <<write_pos, written, wpc, scan>>
  BY <1>1 DEF LapStart, writerVars
<1>6. write_pos \in Positions /\ written \in Nat /\ LapStart = written - write_pos
  BY DEF TypeOK, LapStart
<1>7. ReaderInLaps(r)' /\ Taken(r)' >= Taken(r)
  <2>1. CASE shm_read(r)
    <3>1. Taken(r)' = Taken(r)
      BY <2>1 DEF shm_read, Taken, TypeOK
    <3>2. Taken(r) # written
      BY <2>1, <1>4, <1>6 DEF shm_read, ReaderInLaps, Positions
    <3>3. Taken(r) \in Nat
      BY CountFacts
    <3> QED
      BY <2>1, <1>4, <1>5, <1>6, <3>1, <3>2, <3>3 DEF shm_read, ReaderInLaps, TypeOK, Positions
  <2>2. CASE shm_read_advance(r)
    <3>1. Taken(r)' = Taken(r) + 1 /\ Taken(r) \in Nat /\ Taken(r) < written
      BY <2>2, <1>4 DEF shm_read_advance, Taken, ReaderInLaps, TypeOK
    <3>2. /\ slot'[r] = readers_pos[r] /\ rpc'[r] = "execute"
          /\ readers_pos'[r] = Advance(readers_pos[r])
      BY <2>2 DEF shm_read_advance, TypeOK
    <3>3. \/ readers_pos[r] < NumSlots - 1 /\ readers_pos'[r] = readers_pos[r] + 1
          \/ readers_pos[r] = NumSlots - 1 /\ readers_pos'[r] = 0
      BY <1>4, <3>2, AdvanceFacts DEF Positions
    <3>4. readers_pos[r] = NumSlots - 1 => Taken(r) < LapStart
      BY <1>4, <3>1, CountFacts DEF ReaderInLaps
    <3>5. CASE Taken(r) >= LapStart
      <4>1. /\ readers_pos[r] = Taken(r) - LapStart
            /\ readers_pos'[r] = readers_pos[r] + 1
            /\ Taken(r)' > LapStart
        BY <1>4, <3>1, <3>3, <3>4, <3>5, CountFacts DEF ReaderInLaps
      <4> QED
        BY <1>5, <1>6, <3>1, <3>2, <3>5, <4>1, CountFacts DEF ReaderInLaps
    <3>6. CASE Taken(r) < LapStart
      <4>1. /\ readers_pos[r] = Taken(r) - (LapStart - NumSlots)
            /\ write_pos = 0 /\ wpc \in {"idle", "scan"}
            /\ LapStart - NumSlots < Taken(r)
        BY <1>4, <3>1, <3>6, CountFacts DEF ReaderInLaps
      <4>2. \/ Taken(r)' = LapStart /\ readers_pos'[r] = 0
            \/ /\ Taken(r)' < LapStart
               /\ readers_pos'[r] = Taken(r)' - (LapStart - NumSlots)
        BY <3>1, <3>3, <3>6, <4>1, CountFacts
      <4>3. ~(Taken(r)' > LapStart)
        BY <3>1, <4>2, CountFacts
      <4>4. slot'[r] = Taken(r)' - 1 - (LapStart - NumSlots)
        BY <3>1, <3>2, <4>1, CountFacts
      <4> QED
        BY <1>5, <1>6, <3>1, <3>2, <4>1, <4>2, <4>3, <4>4, CountFacts DEF ReaderInLaps
    <3> QED BY <3>1, <3>5, <3>6, CountFacts
  <2>3. CASE execute(r)
    <3>1. Len(executed'[r]) = Len(executed[r]) + 1
      BY <2>3 DEF execute, TypeOK
    <3>2. /\ Taken(r)' = Taken(r) /\ Taken(r) \in Nat
          /\ rpc'[r] = "poll" /\ readers_pos'[r] = readers_pos[r]
      BY <2>3, <1>4, <3>1 DEF execute, Taken, TypeOK
    <3> QED
      BY <1>4, <1>5, <1>6, <3>2 DEF ReaderInLaps, Positions
  <2> QED BY <2>1, <2>2, <2>3 DEF ReaderStep
<1>8. ScanInLaps'
  <2>1. ASSUME wpc = "scan", NEW q \in Readers, q < scan
        PROVE  Taken(q)' = written
    <3>1. Taken(q) = written /\ write_pos = 0
      BY <2>1 DEF InLaps, ScanInLaps
    <3>2. Taken(r)' \in Nat /\ Taken(r)' <= written
      <4>1. TypeOK'
        BY TypeStep DEF Next
      <4>2. Taken(r)' \in Nat
        <5>1. Len(executed'[r]) \in Nat
          BY <4>1 DEF TypeOK
        <5>2. CASE rpc'[r] = "execute"
          BY <5>1, <5>2 DEF Taken
        <5>3. CASE rpc'[r] # "execute"
          BY <5>1, <5>3 DEF Taken
        <5> QED BY <5>2, <5>3
      <4> QED BY <1>5, <1>7, <4>2 DEF ReaderInLaps
    <3> QED
      BY <1>3, <1>6, <1>7, <3>1, <3>2
  <2> QED BY <1>5, <2>1 DEF InLaps, ScanInLaps
<1> QED BY <1>2, <1>3, <1>7, <1>8 DEF InLaps

(* A reader that runs a command runs the one after its last. *)
LEMMA ResultsStep ==
  ASSUME TypeOK, InLaps, ResultsConsecutive, [Next]_vars
  PROVE  ResultsConsecutive'
<1>1. ASSUME NEW r \in Readers, execute(r)
      PROVE  ResultsConsecutive'
  <2>1. executed' = [executed EXCEPT ![r] = Append(@, shm[slot[r]])] /\ rpc[r] = "execute"
    BY <1>1 DEF execute
  <2>2. shm[slot[r]] = Len(executed[r]) + 1
    BY <2>1, FoundInSlot
  <2>3. ASSUME NEW q \in Readers, NEW i \in 1 .. Len(executed'[q])
        PROVE  executed'[q][i] = i
    <3>1. CASE q = r
      <4>1. executed[r] \in Seq(Nat) /\ executed'[r] = Append(executed[r], Len(executed[r]) + 1)
        BY <2>1, <2>2 DEF TypeOK
      <4>2. i \in 1 .. Len(executed[r]) \/ i = Len(executed[r]) + 1
        BY <2>3, <3>1, <4>1
      <4> QED BY <3>1, <4>1, <4>2 DEF ResultsConsecutive
    <3>2. CASE q # r
      BY <2>1, <2>3, <3>2 DEF ResultsConsecutive, TypeOK
    <3> QED BY <3>1, <3>2
  <2> QED BY <2>3 DEF ResultsConsecutive
<1>2. CASE UNCHANGED executed
  BY <1>2 DEF ResultsConsecutive
<1>3. UNCHANGED executed \/ \E r \in Readers : execute(r)
  BY DEF Next, WriterContinues, ReaderStep, Terminated, vars, writerVars, readerVars,
         shm_write, check_readers_end, shm_write_copy, shm_write_copied,
         shm_write_advance, shm_read, shm_read_advance
<1> QED BY <1>1, <1>2, <1>3

(***************************************************************************)
(* For callers that keep to KeepsUp: slots and positions are in laps, and  *)
(* what the readers have executed is 1, 2, 3, ...                          *)
(***************************************************************************)
THEOREM InductiveInvariant == Paced => (Spec => []IInv)
<1> SUFFICES ASSUME Paced
             PROVE  Spec => []IInv
  OBVIOUS
<1>1. Init => IInv
  <2>1. Init => ResultsConsecutive
    BY DEF Init, ResultsConsecutive
  <2> QED BY <2>1, InitType, InitInLaps DEF IInv
<1>2. IInv /\ [Next]_vars => IInv'
  <2> SUFFICES ASSUME IInv, [Next]_vars
               PROVE  IInv'
    OBVIOUS
  <2>1. TypeOK /\ InLaps /\ ResultsConsecutive
    BY DEF IInv
  <2>2. TypeOK'
    BY <2>1, TypeStep
  <2>3. ResultsConsecutive'
    BY <2>1, ResultsStep
  <2>4. InLaps'
    <3>1. CASE shm_write \/ WriterContinues
      BY <2>1, <3>1, WriterInLaps
    <3>2. CASE \E r \in Readers : ReaderStep(r)
      BY <2>1, <3>2, ReaderInLapsStep
    <3>3. CASE UNCHANGED vars
      BY <2>1, <3>3
         DEF vars, writerVars, readerVars, InLaps, SlotsInLaps, ScanInLaps,
             ReaderInLaps, Taken, LapStart
    <3> QED BY <3>1, <3>2, <3>3 DEF Next, Terminated
  <2> QED BY <2>2, <2>3, <2>4 DEF IInv
<1> QED BY <1>1, <1>2, PTL DEF Spec

(***************************************************************************)
(* For callers that keep to KeepsUp, the one synchronisation per lap       *)
(* leaves every unread slot whole.                                         *)
(***************************************************************************)
THEOREM InLapsCorrect == Paced => (Spec => []InLaps)
<1>1. IInv => InLaps
  BY DEF IInv
<1> QED BY <1>1, InductiveInvariant, PTL

(***************************************************************************)
(* For callers that keep to KeepsUp, every reader runs every command that  *)
(* was written, once and in order.                                         *)
(***************************************************************************)
THEOREM ResultsConsecutiveCorrect == Paced => (Spec => []ResultsConsecutive)
<1>1. IInv => ResultsConsecutive
  BY DEF IInv
<1> QED BY <1>1, InductiveInvariant, PTL

(***************************************************************************)
(* For callers that keep to KeepsUp, a pointer that shm_read returned is   *)
(* good until the command is run.                                          *)
(***************************************************************************)
THEOREM PointerStableCorrect == Paced => (Spec => []PointerStable)
<1>1. IInv => PointerStable
  BY FoundInSlot DEF IInv, PointerStable
<1> QED BY <1>1, InductiveInvariant, PTL

------------------------------------------------------------------------------
(* The queue implements BroadcastQueue. *)

(* The guard of shm_write holds until the command is published. *)
WritesBounded == wpc # "idle" => written < MaxWrites

(* The writer alone counts the commands, one per call. *)
LEMMA WritesStep ==
  ASSUME TypeOK, WritesBounded, [Next]_vars
  PROVE  WritesBounded'
<1> USE DEF WritesBounded
<1>1. CASE shm_write
  BY <1>1 DEF shm_write
<1>2. CASE WriterContinues
  BY <1>2 DEF WriterContinues, check_readers_end, shm_write_copy, shm_write_copied,
              shm_write_advance
<1>3. CASE UNCHANGED writerVars
  BY <1>3 DEF writerVars
<1>4. UNCHANGED writerVars \/ shm_write \/ WriterContinues
  BY DEF Next, ReaderStep, shm_read, shm_read_advance, execute, Terminated, vars
<1> QED BY <1>1, <1>2, <1>3, <1>4

(* The commands published so far, in order: the sequence 1, ..., n. *)
LEMMA PublishedFacts ==
  ASSUME NEW n \in Nat
  PROVE  /\ [i \in 1 .. n |-> i] \in Seq(Nat)
         /\ Len([i \in 1 .. n |-> i]) = n
         /\ [i \in 1 .. n + 1 |-> i] = Append([i \in 1 .. n |-> i], n + 1)
<1> DEFINE s(m) == [i \in 1 .. m |-> i]
<1>1. \A m \in Nat : s(m) \in Seq(Nat) /\ Len(s(m)) = m
  OBVIOUS
<1>2. n + 1 \in Nat
  OBVIOUS
<1>3. Append(s(n), n + 1) \in Seq(Nat) /\ Len(Append(s(n), n + 1)) = n + 1
  BY <1>1, <1>2
<1>4. \A i \in 1 .. n + 1 : Append(s(n), n + 1)[i] = s(n + 1)[i]
  BY <1>1, <1>2
<1>5. s(n + 1) = Append(s(n), n + 1)
  BY <1>1, <1>2, <1>3, <1>4
<1> QED BY <1>1, <1>5

(* The ring is set up with nothing published. *)
LEMMA InitRefines == Init => Abstract!Init
<1> SUFFICES ASSUME Init
             PROVE  Abstract!Init
  OBVIOUS
<1>1. written = 0 /\ executed = [r \in Readers |-> << >>]
  BY DEF Init
<1>2. [i \in 1 .. written |-> i] = << >>
  BY <1>1
<1> QED BY <1>1, <1>2 DEF Abstract!Init

(* The store to write_pos publishes, a command that is run is executed. *)
LEMMA StepRefines ==
  ASSUME IInv, WritesBounded, [Next]_vars
  PROVE  [Abstract!Next]_(Abstract!vars)
<1>1. TypeOK /\ InLaps /\ written \in Nat /\ MaxWrites \in Nat
  BY WritesAssumption DEF IInv, TypeOK
<1>2. CASE shm_write_advance
  <2>1. written' = written + 1 /\ executed' = executed /\ written < MaxWrites
    BY <1>2 DEF shm_write_advance, readerVars, WritesBounded
  <2>2. written + 1 \in 1 .. MaxWrites
    BY <1>1, <2>1
  <2>3. [i \in 1 .. written' |-> i] = Append([i \in 1 .. written |-> i], written + 1)
    BY <1>1, <2>1, PublishedFacts
  <2> QED BY <2>1, <2>2, <2>3 DEF Abstract!Next, Abstract!Publish
<1>3. ASSUME NEW r \in Readers, execute(r)
      PROVE  Abstract!Next
  <2> DEFINE n == Len(executed[r])
  <2>1. /\ rpc[r] = "execute" /\ written' = written
        /\ executed' = [executed EXCEPT ![r] = Append(@, shm[slot[r]])]
    BY <1>3 DEF execute, writerVars
  <2>2. shm[slot[r]] = n + 1
    BY <1>1, <2>1, FoundInSlot
  <2>3. n \in Nat /\ n < written
    <3>1. ReaderInLaps(r) /\ Taken(r) <= written
      BY <1>1 DEF InLaps, ReaderInLaps
    <3>2. n \in Nat /\ Taken(r) = n + 1
      BY <1>1, <2>1, CountFacts DEF Taken
    <3> QED BY <1>1, <3>1, <3>2
  <2> HIDE DEF n
  <2>4. n < Len([i \in 1 .. written |-> i]) /\ [i \in 1 .. written |-> i][n + 1] = n + 1
    BY <1>1, <2>3, PublishedFacts
  <2>5. executed' = [executed EXCEPT ![r] =
                       Append(@, [i \in 1 .. written |-> i][Len(@) + 1])]
    BY <2>1, <2>2, <2>4 DEF n
  <2>6. Abstract!Execute(r)
    BY <2>1, <2>4, <2>5 DEF Abstract!Execute, n
  <2> QED BY <2>6 DEF Abstract!Next
<1>4. CASE UNCHANGED <<written, executed>>
  BY <1>4 DEF Abstract!vars
<1>5. \/ shm_write_advance
      \/ \E r \in Readers : execute(r)
      \/ UNCHANGED <<written, executed>>
  BY DEF Next, WriterContinues, ReaderStep, Terminated, vars, writerVars, readerVars,
         shm_write, check_readers_end, shm_write_copy, shm_write_copied,
         shm_read, shm_read_advance
<1> QED BY <1>2, <1>3, <1>4, <1>5

(***************************************************************************)
(* For callers that keep to KeepsUp, the ring with its two sets of         *)
(* positions is a queue that hands every command to every reader, in the   *)
(* order of publication.                                                   *)
(***************************************************************************)
THEOREM Refinement == Paced => (Spec => ImplementsBroadcastQueue)
<1> SUFFICES ASSUME Paced
             PROVE  Spec => ImplementsBroadcastQueue
  OBVIOUS
<1>1. Spec => []IInv
  BY InductiveInvariant
<1>2. Init => WritesBounded
  BY DEF Init, WritesBounded
<1>3. IInv /\ WritesBounded /\ [Next]_vars => WritesBounded'
  BY WritesStep DEF IInv
<1>4. Spec => []WritesBounded
  BY <1>1, <1>2, <1>3, PTL DEF Spec
<1>5. IInv /\ WritesBounded /\ [Next]_vars => [Abstract!Next]_(Abstract!vars)
  BY StepRefines
<1>6. Init => Abstract!Init
  BY InitRefines
<1> QED
  BY <1>1, <1>4, <1>5, <1>6, PTL DEF Spec, ImplementsBroadcastQueue, Abstract!Spec
==============================================================================
