----------------------------- MODULE Terminal_proofs -----------------------------
(***************************************************************************)
(* The reader of standard input gets what was written, for any number of   *)
(* writers, any size of the ring and any number of characters; the         *)
(* terminal and its key tasks use standard input in that way; and what is  *)
(* typed arrives, as it was meant if the tasks keep up with the keyboard.  *)
(***************************************************************************)
EXTENDS Terminal, SequenceTheorems, FiniteSetTheorems, TLAPS

\* A writer within putchar holds the lock, so there is one at most, and it may store.
WriterHolds ==
  \A w \in Writers : wpc[w] # "idle" => lock = w /\ Len(sent) < MaxChars

\* When the reader goes to scan, there is a character, or the writer that has resumed it
\* is about to store one before it lets go of the lock.
Waiting == (rpc = "park" /\ ~ended) \/ rpc \in {"clear", "scan"}
NextChar ==
  ~lapped /\ Waiting => readOffset # offset \/ \E w \in Writers : wpc[w] = "store"

\* An offset wraps around once at most.
Wrap(x) == IF x < Size THEN x ELSE x - Size

\* The characters that are kept and not read, fewer than Size, are in the ring from
\* readOffset on.
Stored(i) == pData[Wrap(readOffset + i)]
RingHolds ==
  /\ Len(received) <= Len(kept) /\ Len(kept) - Len(received) < Size
  /\ offset = Wrap(readOffset + (Len(kept) - Len(received)))
  /\ \A i \in 1 .. Len(received) : received[i] = kept[i]
  /\ \A i \in 0 .. Len(kept) - Len(received) - 1 : Stored(i) = kept[Len(received) + i + 1]
NothingLost == ~lapped => kept = sent

StdinInv == StdinTypeOK /\ WriterHolds /\ NextChar /\ RingHolds /\ NothingLost

LEMMA Wraps ==
  ASSUME NEW x \in Nat, x < Size + Size
  PROVE  x % Size = Wrap(x)
BY StdinAssumption DEF Wrap

\* What scanchar and putchar make of an offset.
LEMMA NextOffset ==
  ASSUME NEW x \in 0 .. Size - 1
  PROVE  (x + 1) % Size = Wrap(x + 1) /\ Wrap(x + 1) \in 0 .. Size - 1
<1>1. x + 1 \in Nat /\ x + 1 < Size + Size
  BY StdinAssumption
<1>2. (x + 1) % Size = Wrap(x + 1)
  BY <1>1, Wraps
<1>3. Wrap(x + 1) \in 0 .. Size - 1
  BY StdinAssumption DEF Wrap
<1> QED  BY <1>2, <1>3

LEMMA StdinInitLemma == StdinInit => StdinInv
<1> SUFFICES ASSUME StdinInit PROVE StdinInv
  OBVIOUS
<1> USE StdinAssumption DEF StdinInit
<1>1. StdinTypeOK
  <2>1. pData \in [0 .. Size - 1 -> 0 .. MaxChars] /\ 0 \in 0 .. Size - 1 /\ queued \in Nat
    OBVIOUS
  <2>2. sent \in Seq(1 .. MaxChars) /\ received \in Seq(0 .. MaxChars) /\ kept \in Seq(0 .. MaxChars)
    OBVIOUS
  <2>3. wpc \in [Writers -> {"idle", "query", "check", "resume", "store"}]
    OBVIOUS
  <2>4. /\ offset = 0 /\ readOffset = 0 /\ originOffset = 0 /\ lock = Free /\ rpc = "test"
        /\ {taskResumeHandle, ended, listed, lapped, fault} \subseteq BOOLEAN
    OBVIOUS
  <2> QED  BY <2>1, <2>2, <2>3, <2>4, Zenon DEF StdinTypeOK
<1>2. WriterHolds /\ NextChar
  BY DEF WriterHolds, NextChar, Waiting
<1>3. RingHolds /\ NothingLost
  BY Wraps DEF RingHolds, NothingLost
<1> QED  BY <1>1, <1>2, <1>3 DEF StdinInv

\* Steps that leave the ring and the lock alone.
LEMMA QuietLemma ==
  StdinInv /\ UNCHANGED <<ring, lock>> /\ UNCHANGED wpc /\ StdinTypeOK'
  /\ (Waiting' => Waiting) => StdinInv'
BY DEF StdinInv, WriterHolds, NextChar, RingHolds, Stored, NothingLost, ring

LEMMA SchedulerLemma == StdinInv /\ (Reap \/ Activate) => StdinInv'
<1> SUFFICES ASSUME StdinInv, Reap \/ Activate PROVE StdinInv'
  OBVIOUS
<1>1. StdinTypeOK'
  <2>1. queued' \in Nat
    BY DEF StdinInv, StdinTypeOK, Reap, Activate
  <2>2. /\ UNCHANGED <<pData, offset, readOffset, originOffset, sent, received, kept, lapped>>
        /\ UNCHANGED <<lock, taskResumeHandle, ended, rpc, wpc>>
        /\ listed' \in BOOLEAN /\ fault' \in BOOLEAN
    BY DEF StdinInv, StdinTypeOK, Reap, Activate, ring
  <2> QED  BY <2>1, <2>2, Zenon DEF StdinInv, StdinTypeOK
<1>2. Waiting' => Waiting
  BY DEF Waiting, Reap, Activate
<1> QED  BY <1>1, <1>2, QuietLemma DEF Reap, Activate

LEMMA TestLemma == StdinInv /\ TestFlushed => StdinInv'
<1> SUFFICES ASSUME StdinInv, TestFlushed PROVE StdinInv'
  OBVIOUS
<1> USE DEF TestFlushed, Step, stdinFlushed, ring, task
<1>1. StdinTypeOK'
  BY DEF StdinInv, StdinTypeOK
<1>2. WriterHolds' /\ RingHolds' /\ NothingLost'
  BY DEF StdinInv, WriterHolds, RingHolds, Stored, NothingLost
<1>3. NextChar'
  BY DEF StdinInv, NextChar, Waiting
<1> QED  BY <1>1, <1>2, <1>3 DEF StdinInv

LEMMA SleepLemma ==
  StdinInv /\ (MarkHandle \/ SuspendReader \/ WakeReader \/ ClearHandle) => StdinInv'
<1> SUFFICES ASSUME StdinInv, MarkHandle \/ SuspendReader \/ WakeReader \/ ClearHandle
             PROVE  StdinInv'
  OBVIOUS
<1> USE DEF MarkHandle, SuspendReader, WakeReader, ClearHandle, Step, ring, task
<1>1. StdinTypeOK'
  BY DEF StdinInv, StdinTypeOK
<1>2. Waiting' => Waiting
  BY DEF Waiting
<1> QED  BY <1>1, <1>2, QuietLemma

LEMMA ScanLemma == StdinInv /\ ScanChar => StdinInv'
<1> SUFFICES ASSUME StdinInv, ScanChar PROVE StdinInv'
  OBVIOUS
<1> USE StdinAssumption DEF StdinInv, Step, stdinFlushed
<1> DEFINE c == IF stdinFlushed THEN 0 ELSE pData[readOffset]
           n == Len(kept) - Len(received)
<1>1. c \in 0 .. MaxChars /\ received' = Append(received, c)
  BY DEF ScanChar, StdinTypeOK
<1>2. /\ Len(kept) \in Nat /\ Len(received) \in Nat
      /\ readOffset \in 0 .. Size - 1 /\ offset \in 0 .. Size - 1
  BY DEF StdinTypeOK
<1>3. n \in 0 .. Size - 1 /\ offset = Wrap(readOffset + n)
  BY <1>2 DEF RingHolds
<1>4. StdinTypeOK'
  <2>1. readOffset' \in 0 .. Size - 1
    BY DEF ScanChar, StdinTypeOK
  <2>2. received' \in Seq(0 .. MaxChars)
    BY <1>1 DEF StdinTypeOK
  <2>3. kept' = Append(kept, 0) \/ kept' = kept
    BY DEF ScanChar
  <2>4. kept' \in Seq(0 .. MaxChars)
    <3>1. kept \in Seq(0 .. MaxChars) /\ 0 \in 0 .. MaxChars
      BY DEF StdinTypeOK
    <3> QED  BY <2>3, <3>1, AppendProperties
  <2> QED  BY <2>1, <2>2, <2>4 DEF ScanChar, StdinTypeOK, task
<1>5. WriterHolds'
  BY DEF WriterHolds, ScanChar
<1>6. NextChar'
  BY DEF NextChar, Waiting, ScanChar
<1>7. NothingLost'
  <2> SUFFICES ASSUME ~lapped PROVE kept' = kept
    BY DEF NothingLost, ScanChar
  <2>1. \A w \in Writers : wpc[w] = "idle"
    BY DEF WriterHolds, ScanChar
  <2>2. readOffset # offset
    BY <2>1 DEF NextChar, Waiting, ScanChar
  <2> QED  BY <2>2 DEF ScanChar
<1>8. Len(received') = Len(received) + 1 /\ pData' = pData /\ offset' = offset
  BY <1>1 DEF StdinTypeOK, ScanChar
<1>9. CASE readOffset = offset
  <2>1. n = 0
    BY <1>2, <1>3, <1>9 DEF Wrap
  <2>2. c = 0 /\ kept' = Append(kept, 0) /\ readOffset' = readOffset
    BY <1>9 DEF ScanChar
  <2>3. Len(kept') = Len(kept) + 1 /\ Len(kept') - Len(received') = 0
    BY <1>2, <1>8, <2>1, <2>2 DEF StdinTypeOK
  <2>4. \A i \in 1 .. Len(received') : received'[i] = kept'[i]
    <3> TAKE i \in 1 .. Len(received')
    <3>1. CASE i = Len(received) + 1
      BY <1>1, <1>2, <2>1, <2>2, <3>1 DEF StdinTypeOK
    <3>2. CASE i # Len(received) + 1
      <4>1. i \in 1 .. Len(received)
        BY <1>2, <1>8, <3>2
      <4>2. received[i] = kept[i]
        BY <4>1 DEF RingHolds
      <4>3. received'[i] = received[i] /\ kept'[i] = kept[i]
        BY <1>1, <1>2, <2>1, <2>2, <4>1 DEF StdinTypeOK
      <4> QED  BY <4>2, <4>3
    <3> QED  BY <3>1, <3>2
  <2>5. offset' = Wrap(readOffset' + 0)
    BY <1>2, <1>8, <1>9, <2>2 DEF Wrap
  <2>6. Len(received') <= Len(kept') /\ Len(kept') - Len(received') < Size
    BY <1>2, <1>8, <2>3
  <2>7. \A i \in 0 .. Len(kept') - Len(received') - 1 : Stored(i)' = kept'[Len(received') + i + 1]
    BY <2>3
  <2>8. RingHolds'
    BY <2>3, <2>4, <2>5, <2>6, <2>7 DEF RingHolds
  <2> QED  BY <1>4, <1>5, <1>6, <1>7, <2>8
<1>10. CASE readOffset # offset
  <2>1. n > 0
    BY <1>2, <1>3, <1>10 DEF Wrap
  <2>2. readOffset' = Wrap(readOffset + 1) /\ kept' = kept
    BY <1>2, <1>10, NextOffset DEF ScanChar
  <2>3. \A k \in 0 .. n - 1 : Wrap(readOffset' + k) = Wrap(readOffset + (k + 1))
    BY <1>2, <1>3, <2>2 DEF Wrap
  <2>4. offset' = Wrap(readOffset' + (n - 1))
    <3>1. n - 1 \in 0 .. n - 1 /\ (n - 1) + 1 = n
      BY <1>2, <2>1
    <3>2. Wrap(readOffset' + (n - 1)) = Wrap(readOffset + n)
      BY <2>3, <3>1
    <3> QED  BY <1>3, <1>8, <3>2
  <2>5. \A i \in 1 .. Len(received') : received'[i] = kept'[i]
    <3>1. c = kept[Len(received) + 1]
      <4>1. 0 \in 0 .. n - 1 /\ Stored(0) = kept[Len(received) + 0 + 1]
        BY <1>2, <2>1 DEF RingHolds
      <4>2. Wrap(readOffset + 0) = readOffset
        BY <1>2 DEF Wrap
      <4> QED  BY <1>2, <1>10, <4>1, <4>2 DEF Stored
    <3>2. \A i \in 1 .. Len(received) : received[i] = kept[i]
      BY DEF RingHolds
    <3> TAKE i \in 1 .. Len(received')
    <3>3. CASE i = Len(received) + 1
      BY <1>1, <1>2, <2>2, <3>1, <3>3 DEF StdinTypeOK
    <3>4. CASE i # Len(received) + 1
      <4>1. i \in 1 .. Len(received)
        BY <1>2, <1>8, <3>4
      <4>2. received'[i] = received[i]
        BY <1>1, <1>2, <4>1 DEF StdinTypeOK
      <4> QED  BY <2>2, <3>2, <4>1, <4>2
    <3> QED  BY <3>3, <3>4
  <2>6. \A i \in 0 .. n - 2 : Stored(i)' = kept'[Len(received') + i + 1]
    <3> TAKE i \in 0 .. n - 2
    <3>1. Stored(i)' = Stored(i + 1)
      BY <1>2, <1>8, <2>2, <2>3 DEF Stored
    <3>2. i + 1 \in 0 .. n - 1 /\ Stored(i + 1) = kept[Len(received) + (i + 1) + 1]
      BY <1>2 DEF RingHolds
    <3> QED  BY <1>2, <1>8, <2>2, <3>1, <3>2
  <2>7. Len(kept') - Len(received') = n - 1
    BY <1>2, <1>8, <2>2
  <2>8. RingHolds'
    BY <1>2, <1>3, <1>8, <2>1, <2>2, <2>4, <2>5, <2>6, <2>7 DEF RingHolds
  <2> QED  BY <1>4, <1>5, <1>6, <1>7, <2>8
<1> QED  BY <1>9, <1>10

LEMMA PutLemma ==
  ASSUME StdinInv, NEW w \in Writers, Lock(w) \/ QueryTask(w) \/ CheckHandle(w) \/ ResumeReader(w)
  PROVE  StdinInv'
<1> USE DEF StdinInv, Lock, QueryTask, CheckHandle, ResumeReader, ring, task
<1>1. StdinTypeOK'
  <2>1. queued' \in Nat
    BY DEF StdinTypeOK
  <2>2. UNCHANGED <<pData, offset, readOffset, originOffset, sent, received, kept, lapped, rpc>>
    OBVIOUS
  <2>3. UNCHANGED <<taskResumeHandle, listed>> /\ ended' \in {ended, FALSE} /\ fault' \in {fault, TRUE}
    OBVIOUS
  <2>4. lock' \in Writers \cup {Free}
    BY DEF StdinTypeOK
  <2>5. wpc' \in [Writers -> {"idle", "query", "check", "resume", "store"}]
    BY DEF StdinTypeOK
  <2> QED  BY <2>1, <2>2, <2>3, <2>4, <2>5, Zenon DEF StdinTypeOK
<1>2. WriterHolds'
  BY StdinAssumption DEF WriterHolds, StdinTypeOK
<1>3. NextChar'
  <2> SUFFICES ASSUME ~lapped, Waiting', readOffset = offset
               PROVE  \E u \in Writers : wpc'[u] = "store"
    BY DEF NextChar
  <2>1. CASE ResumeReader(w) /\ taskResumeHandle
    BY <2>1 DEF StdinTypeOK
  <2>2. CASE Lock(w) \/ QueryTask(w) \/ CheckHandle(w) \/ (ResumeReader(w) /\ ~taskResumeHandle)
    <3>1. Waiting
      BY <2>2 DEF Waiting
    <3>2. PICK u \in Writers : wpc[u] = "store"
      BY <3>1 DEF NextChar
    <3>3. u # w
      BY <2>2, <3>2
    <3> QED  BY <2>2, <3>2, <3>3 DEF StdinTypeOK
  <2> QED  BY <2>1, <2>2
<1>4. RingHolds' /\ NothingLost'
  BY DEF RingHolds, Stored, NothingLost
<1> QED  BY <1>1, <1>2, <1>3, <1>4

LEMMA StoreLemma ==
  ASSUME StdinInv, NEW w \in Writers, Store(w)
  PROVE  StdinInv'
<1> USE StdinAssumption DEF StdinInv
<1> DEFINE c == Len(sent) + 1
           next == (offset + 1) % Size
<1>1. c \in 1 .. MaxChars
  <2>1. Len(sent) \in Nat
    BY DEF StdinTypeOK
  <2>2. Len(sent) < MaxChars
    <3>1. wpc[w] # "idle"
      BY DEF Store
    <3> QED  BY <3>1 DEF WriterHolds
  <2> QED  BY <2>1, <2>2
<1>2. /\ sent' = Append(sent, c) /\ received' = received
      /\ pData' = [pData EXCEPT ![offset] = c] /\ offset' = next /\ readOffset' = readOffset
      /\ lapped' = (lapped \/ next = readOffset)
      /\ kept' = IF next = readOffset THEN received ELSE Append(kept, c)
  BY DEF Store
<1>3. next = Wrap(offset + 1) /\ next \in 0 .. Size - 1
  BY NextOffset DEF StdinTypeOK
<1> HIDE DEF next
<1>4. StdinTypeOK'
  <2>1. sent' \in Seq(1 .. MaxChars)
    BY <1>1, <1>2 DEF StdinTypeOK
  <2>5. kept' = received \/ kept' = Append(kept, c)
    BY <1>2
  <2>6. kept' \in Seq(0 .. MaxChars)
    <3>1. kept \in Seq(0 .. MaxChars) /\ received \in Seq(0 .. MaxChars) /\ c \in 0 .. MaxChars
      BY <1>1 DEF StdinTypeOK
    <3>2. Append(kept, c) \in Seq(0 .. MaxChars)
      BY <3>1, AppendProperties
    <3> QED  BY <2>5, <3>1, <3>2
  <2>2. pData' \in [0 .. Size - 1 -> 0 .. MaxChars]
    BY <1>1, <1>2 DEF StdinTypeOK
  <2>3. originOffset' \in 0 .. Size - 1
    <3>1. originOffset \in 0 .. Size - 1 /\ Wrap(originOffset + 1) = (originOffset + 1) % Size
      BY NextOffset DEF StdinTypeOK
    <3>2. Wrap(originOffset + 1) \in 0 .. Size - 1
      BY <3>1, NextOffset
    <3>3. originOffset' \in {originOffset, (originOffset + 1) % Size}
      BY DEF Store
    <3> QED  BY <3>1, <3>2, <3>3
  <2>4. lapped' \in BOOLEAN /\ lock' = Free /\ wpc' = [wpc EXCEPT ![w] = "idle"]
    BY DEF Store
  <2> QED  BY <1>2, <1>3, <2>1, <2>2, <2>3, <2>4, <2>6 DEF Store, StdinTypeOK, task
<1>5. \A u \in Writers : wpc'[u] = "idle"
  BY DEF Store, WriterHolds, StdinTypeOK
<1>6. WriterHolds'
  BY <1>5 DEF WriterHolds
<1>7. NextChar'
  BY <1>2 DEF NextChar
<1>8. /\ Len(kept) \in Nat /\ Len(received) \in Nat
      /\ readOffset \in 0 .. Size - 1 /\ offset \in 0 .. Size - 1
  BY DEF StdinTypeOK
<1>9. NothingLost'
  BY <1>2 DEF NothingLost
<1>10. CASE next = readOffset
  <2>1. Len(kept') = Len(received') /\ Len(received') \in Nat
    BY <1>2, <1>8, <1>10
  <2>2. offset' = Wrap(readOffset' + 0)
    BY <1>2, <1>8, <1>10 DEF Wrap
  <2>3. kept' = received' /\ Len(kept') - Len(received') = 0 /\ 0 < Size
    BY <1>2, <1>10, <2>1
  <2>4. \A i \in 0 .. Len(kept') - Len(received') - 1 : Stored(i)' = kept'[Len(received') + i + 1]
    BY <2>3
  <2>5. RingHolds'
    BY <2>1, <2>2, <2>3, <2>4 DEF RingHolds
  <2> QED  BY <1>4, <1>6, <1>7, <1>9, <2>5
<1>11. CASE next # readOffset
  <2> DEFINE n == Len(kept) - Len(received)
  <2>1. kept' = Append(kept, c)
    BY <1>2, <1>11
  <2>2. n \in 0 .. Size - 1 /\ offset = Wrap(readOffset + n)
    BY <1>8 DEF RingHolds
  <2>11. \A i \in 0 .. n - 1 : Stored(i) = kept[Len(received) + i + 1]
    BY DEF RingHolds
  <2>12. \A k \in 1 .. Len(kept) : kept'[k] = kept[k]
    BY <1>1, <2>1, AppendProperties DEF StdinTypeOK
  <2>3. next = Wrap(readOffset + (n + 1)) /\ n + 1 < Size
    BY <1>3, <1>8, <1>11, <2>2 DEF Wrap
  <2>4. Len(kept') = Len(kept) + 1
    BY <1>1, <2>1 DEF StdinTypeOK
  <2>5. \A i \in 1 .. Len(received) : received[i] = kept'[i]
    BY <1>1, <1>8, <2>1 DEF RingHolds, StdinTypeOK
  <2>6. \A i \in 0 .. n : Stored(i)' = kept'[Len(received) + i + 1]
    <3> TAKE i \in 0 .. n
    <3>1. Wrap(readOffset + i) \in 0 .. Size - 1
      BY <1>8, <2>2 DEF Wrap
    <3>2. CASE i = n
      <4>1. Len(received) + i + 1 = Len(kept) + 1
        BY <1>8, <3>2
      <4>2. kept'[Len(kept) + 1] = c
        BY <1>1, <2>1, AppendProperties DEF StdinTypeOK
      <4>3. Stored(i)' = c
        BY <1>1, <1>2, <1>8, <2>2, <3>2 DEF Stored, StdinTypeOK
      <4> QED  BY <4>1, <4>2, <4>3
    <3>3. CASE i # n
      <4>1. Wrap(readOffset + i) # offset
        BY <1>8, <2>2, <3>3 DEF Wrap
      <4>2. Stored(i)' = Stored(i)
        BY <1>2, <3>1, <4>1 DEF Stored, StdinTypeOK
      <4>3. i \in 0 .. n - 1 /\ Stored(i) = kept[Len(received) + i + 1]
        BY <1>8, <2>2, <2>11, <3>3
      <4>4. Len(received) + i + 1 \in 1 .. Len(kept)
        BY <1>8, <4>3
      <4>5. kept'[Len(received) + i + 1] = kept[Len(received) + i + 1]
        BY <2>12, <4>4
      <4> QED  BY <4>2, <4>3, <4>5
    <3> QED  BY <3>2, <3>3
  <2>7. /\ Len(received') = Len(received) /\ Len(received') \in Nat
        /\ Len(kept') - Len(received') = n + 1 /\ n + 1 \in Nat
    BY <1>2, <1>8, <2>2, <2>4
  <2>8. \A i \in 1 .. Len(received') : received'[i] = kept'[i]
    BY <1>2, <2>5
  <2>9. \A i \in 0 .. (n + 1) - 1 : Stored(i)' = kept'[Len(received') + i + 1]
    BY <2>2, <2>6, <2>7
  <2>10. RingHolds'
    BY <1>2, <1>8, <2>3, <2>4, <2>7, <2>8, <2>9 DEF RingHolds
  <2> QED  BY <1>4, <1>6, <1>7, <1>9, <2>10
<1> QED  BY <1>10, <1>11

LEMMA StdinStep == StdinInv /\ [StdinNext]_vars => StdinInv'
<1> SUFFICES ASSUME StdinInv, [StdinNext]_vars PROVE StdinInv'
  OBVIOUS
<1>1. CASE Reap \/ Activate
  BY <1>1, SchedulerLemma
<1>2. CASE ReaderStep
  BY <1>2, TestLemma, SleepLemma, ScanLemma DEF ReaderStep
<1>3. ASSUME NEW w \in Writers, Lock(w) \/ WriterStep(w) PROVE StdinInv'
  BY <1>3, PutLemma, StoreLemma DEF WriterStep
<1>4. CASE UNCHANGED vars
  BY <1>4 DEF vars, ring, task, StdinInv, StdinTypeOK, WriterHolds, NextChar, Waiting,
              RingHolds, Stored, NothingLost
<1> QED  BY <1>1, <1>2, <1>3, <1>4 DEF StdinNext

LEMMA StdinInvariant == StdinSpec => []StdinInv
BY StdinInitLemma, StdinStep, PTL DEF StdinSpec

LEMMA OrderLemma == StdinInv => InOrder
<1> SUFFICES ASSUME StdinInv PROVE kept = received \o Unread
  BY DEF InOrder, StdinInv, NothingLost
<1> USE StdinAssumption DEF StdinInv
<1> DEFINE n == Len(kept) - Len(received)
<1>1. /\ Len(kept) \in Nat /\ Len(received) \in Nat
      /\ readOffset \in 0 .. Size - 1 /\ offset \in 0 .. Size - 1
  BY DEF StdinTypeOK
<1>2. n \in 0 .. Size - 1 /\ offset = Wrap(readOffset + n)
  BY <1>1 DEF RingHolds
<1>3. (offset + Size - readOffset) % Size = n
  <2>1. offset + Size - readOffset \in Nat /\ offset + Size - readOffset < Size + Size
    BY <1>1
  <2>2. (offset + Size - readOffset) % Size = Wrap(offset + Size - readOffset)
    BY <2>1, Wraps
  <2>3. Wrap(offset + Size - readOffset) = n
    BY <1>1, <1>2 DEF Wrap
  <2> QED  BY <2>2, <2>3
<1>4. Unread = [i \in 1 .. n |-> Stored(i - 1)]
  <2>1. ASSUME NEW i \in 1 .. n
        PROVE  (readOffset + i - 1) % Size = Wrap(readOffset + (i - 1))
    <3>1. readOffset + (i - 1) \in Nat /\ readOffset + (i - 1) < Size + Size
      BY <1>1, <1>2
    <3>2. readOffset + i - 1 = readOffset + (i - 1)
      BY <1>1
    <3> QED  BY <3>1, <3>2, Wraps
  <2> QED  BY <1>3, <2>1 DEF Unread, Stored
<1>5. \A i \in 1 .. n : Unread[i] = kept[Len(received) + i]
  <2> TAKE i \in 1 .. n
  <2>1. i - 1 \in 0 .. n - 1 /\ Stored(i - 1) = kept[Len(received) + (i - 1) + 1]
    BY <1>1 DEF RingHolds
  <2>2. Len(received) + (i - 1) + 1 = Len(received) + i
    BY <1>1
  <2> QED  BY <1>4, <2>1, <2>2
<1>6. Unread \in Seq(0 .. MaxChars) /\ Len(Unread) = n
  <2>1. \A i \in 1 .. n : kept[Len(received) + i] \in 0 .. MaxChars
    <3> TAKE i \in 1 .. n
    <3>1. Len(received) + i \in 1 .. Len(kept)
      BY <1>1
    <3> QED  BY <3>1, ElementOfSeq DEF StdinTypeOK
  <2>2. Unread \in [1 .. n -> 0 .. MaxChars]
    BY <1>4, <1>5, <2>1
  <2>3. n \in Nat
    BY <1>2
  <2> QED  BY <2>2, <2>3
<1>7. received \in Seq(0 .. MaxChars) /\ kept \in Seq(0 .. MaxChars)
  BY DEF StdinTypeOK
<1>8. /\ received \o Unread \in Seq(0 .. MaxChars)
      /\ Len(received \o Unread) = Len(kept)
      /\ \A i \in 1 .. Len(kept) : (received \o Unread)[i] =
           IF i <= Len(received) THEN received[i] ELSE Unread[i - Len(received)]
  <2>1. Len(kept) = Len(received) + Len(Unread)
    BY <1>1, <1>6
  <2> QED  BY <1>6, <1>7, <2>1, ConcatProperties
<1>9. \A i \in 1 .. Len(kept) : (received \o Unread)[i] = kept[i]
  <2> TAKE i \in 1 .. Len(kept)
  <2>1. CASE i <= Len(received)
    <3>1. i \in 1 .. Len(received)
      BY <1>1, <2>1
    <3>2. received[i] = kept[i]
      BY <3>1 DEF RingHolds
    <3> QED  BY <1>8, <2>1, <3>2
  <2>2. CASE ~(i <= Len(received))
    <3>1. i - Len(received) \in 1 .. n /\ Len(received) + (i - Len(received)) = i
      BY <1>1, <2>2
    <3>2. Unread[i - Len(received)] = kept[i]
      BY <1>5, <3>1
    <3> QED  BY <1>8, <2>2, <3>2
  <2> QED  BY <2>1, <2>2
<1> QED  BY <1>7, <1>8, <1>9, SeqEqual

\* The offsets stay within the ring, whoever laps whom.
THEOREM StdinTypeCorrect == StdinSpec => []StdinTypeOK
BY StdinInvariant, PTL DEF StdinInv

\* The reader gets what the writers have not taken away by lapping it, in order and with
\* nothing else; until they do, that is every character.
THEOREM OrderKept == StdinSpec => []InOrder
BY StdinInvariant, OrderLemma, PTL

--------------------------------------------------------------------------------
LEMMA TerminalStep == TerminalNext => [StdinNext]_vars
<1> SUFFICES ASSUME TerminalNext PROVE [StdinNext]_vars
  OBVIOUS
<1>1. CASE ReadLine
  BY <1>1 DEF ReadLine, StdinNext
<1>2. ASSUME NEW w \in Writers, TypeKey(w) \/ StoreKey(w) PROVE StdinNext
  BY <1>2 DEF TypeKey, StoreKey, StdinNext, WriterStep
<1>3. ASSUME NEW w \in Writers, StartKey(w) \/ DecodeKey(w) PROVE UNCHANGED vars
  BY <1>3 DEF StartKey, DecodeKey
<1>4. ASSUME NEW k, NEW up, UseKey(k, up) PROVE UNCHANGED vars
  BY <1>4 DEF UseKey
<1>5. CASE KeyboardEvent
  BY <1>5 DEF KeyboardEvent
<1> QED  BY <1>1, <1>2, <1>3, <1>4, <1>5 DEF TerminalNext

\* Whatever keys are pressed, and however their tasks are scheduled, the terminal and the
\* key tasks use standard input as its specification says.
THEOREM TerminalUsesStdin == TerminalSpec => StdinSpec
<1>1. TerminalInit => StdinInit
  BY DEF TerminalInit
<1>2. [TerminalNext]_allVars => [StdinNext]_vars
  BY TerminalStep DEF allVars
<1> QED  BY <1>1, <1>2, PTL DEF TerminalSpec, StdinSpec

\* The terminal reads what its key tasks have written, in order and nothing else.
THEOREM TerminalOrderKept == TerminalSpec => []InOrder
BY TerminalUsesStdin, OrderKept, PTL

\* While keys are typed the variables of standard input keep their types.
THEOREM TerminalTypeCorrect == TerminalSpec => []StdinTypeOK
BY TerminalUsesStdin, StdinTypeCorrect, PTL

--------------------------------------------------------------------------------
(* What is typed arrives as it was meant                                   *)

Byte == [code : Plain \cup {Shift}, up : BOOLEAN]
PlainByte == [code : Plain, up : BOOLEAN]
Data == {E0} \cup Byte

\* The variables of the keyboard and of the key tasks keep their types; who is within
\* putchar is there to type a character.
KeyTypeOK ==
  /\ {isE0Key, shift, termE0Key, hurried} \subseteq BOOLEAN
  /\ key \in [Writers -> [pc : {"none", "decode", "type"}, data : Data, shift : BOOLEAN]]
  /\ scheduled \subseteq [data : Data, no : Nat]
  /\ meant \in Seq(Plain \X BOOLEAN) /\ chars \in Seq(Plain \X BOOLEAN)
  /\ count \in [bytes : Nat, keys : Nat, extended : Nat]
  /\ \A w \in Writers : /\ wpc[w] # "idle" => key[w].pc = "type"
                        /\ key[w].pc = "type" => key[w].data \in PlainByte /\ ~key[w].data.up

\* The keyboard has one event to send at most, and isE0Key is true when one byte of two
\* has been sent.
WireShape ==
  IF isE0Key THEN \E d \in PlainByte : wire = <<d>>
             ELSE \/ wire = <<>>
                  \/ \E d \in Byte : wire = <<d>>
                  \/ \E d \in PlainByte : wire = <<E0, d>>

\* dwmKeyboardState is right about the shift key, or it is about to be told.
Telling == ~isE0Key /\ wire # <<>> /\ Head(wire).code = Shift
ShiftKnown == Shift \in held <=> IF Telling THEN ~Head(wire).up ELSE shift

\* The character that a byte types, if the callback sees it in time, and the one of a
\* byte that has not been sent.
Typed(d, s, e0) == IF ~e0 /\ d.code \in Plain /\ ~d.up THEN <<<<d.code, s>>>> ELSE <<>>
OnWire == IF wire = <<>> THEN <<>> ELSE Typed(Head(wire), Shift \in held, isE0Key)
Ahead(typing) == meant = (chars \o typing) \o OnWire

\* The byte d is to be decoded, by a callback that sees s as the state of the shift key.
ToDecode(d, s) ==
  /\ (isE0Key <=> d = E0) /\ (d = E0 => ~termE0Key)
  /\ Ahead(Typed(d, s, termE0Key))

\* A single byte is dealt with at a time, unless one was sent too early.
OthersDone(except) == \A w \in Writers \ except : key[w].pc = "none"
OneAtATime ==
  ~hurried =>
    \/ scheduled = {} /\ OthersDone({}) /\ (termE0Key <=> isE0Key) /\ Ahead(<<>>)
    \/ \E k \in scheduled : scheduled = {k} /\ OthersDone({}) /\ ToDecode(k.data, shift)
    \/ \E w \in Writers :
         /\ scheduled = {} /\ OthersDone({w})
         /\ \/ key[w].pc = "decode" /\ ToDecode(key[w].data, key[w].shift)
            \/ /\ key[w].pc = "type" /\ ~termE0Key /\ ~isE0Key
               /\ Ahead(<<<<key[w].data.code, key[w].shift>>>>)

KeyInv == KeyTypeOK /\ WireShape /\ ShiftKnown /\ OneAtATime

Chars == Seq(Plain \X BOOLEAN)

LEMMA DataLemma ==
  /\ \A d \in Data : d = E0 <=> d.code \notin Plain \cup {Shift}
  /\ E0.code # Shift /\ E0.code \notin Plain /\ Shift \notin Plain
  /\ PlainByte \subseteq Byte /\ Byte \subseteq Data
  /\ \A d \in PlainByte : d.code \in Plain /\ d.up \in BOOLEAN
  /\ \A d \in Byte : d.code \in Plain \cup {Shift} /\ d.up \in BOOLEAN
<1>1. Shift \notin Plain /\ "e0" \notin Plain /\ Shift # "e0"
  BY TerminalAssumption DEF Shift
<1>2. E0.code = "e0"
  BY DEF E0
<1>3. \A d \in Byte : d.code \in Plain \cup {Shift} /\ d.up \in BOOLEAN
  BY DEF Byte
<1>4. \A d \in PlainByte : d.code \in Plain /\ d.up \in BOOLEAN
  BY DEF PlainByte
<1>5. PlainByte \subseteq Byte /\ Byte \subseteq Data
  BY DEF PlainByte, Byte, Data
<1>6. \A d \in Data : d = E0 <=> d.code \notin Plain \cup {Shift}
  BY <1>1, <1>2, <1>3 DEF Data
<1> QED  BY <1>1, <1>2, <1>3, <1>4, <1>5, <1>6

LEMMA TypedLemma ==
  ASSUME NEW d \in Data, NEW s \in BOOLEAN, NEW e0 \in BOOLEAN
  PROVE  /\ Typed(d, s, e0) \in Chars
         /\ Typed(d, s, e0) # <<>> => Typed(d, s, e0) = <<<<d.code, s>>>> /\ d.code \in Plain
<1>1. CASE ~e0 /\ d.code \in Plain /\ ~d.up
  <2>1. Typed(d, s, e0) = <<<<d.code, s>>>>
    BY <1>1 DEF Typed
  <2>2. <<d.code, s>> \in Plain \X BOOLEAN
    BY <1>1
  <2> QED  BY <1>1, <2>1, <2>2 DEF Chars
<1>2. CASE ~(~e0 /\ d.code \in Plain /\ ~d.up)
  BY <1>2 DEF Typed, Chars
<1> QED  BY <1>1, <1>2

\* Sequences of characters, and one more.
LEMMA GlueLemma ==
  ASSUME NEW s \in Chars, NEW c \in Plain \X BOOLEAN
  PROVE  /\ <<c>> \in Chars
         /\ Append(s, c) = s \o <<c>> /\ Append(s, c) \in Chars
<1>1. <<c>> \in Chars /\ Append(s, c) \in Chars
  BY DEF Chars
<1>3. Append(s, c) = s \o <<c>>
  <2>1. Len(Append(s, c)) = Len(s) + 1 /\ Len(s \o <<c>>) = Len(s) + 1 /\ Len(s) \in Nat
    BY DEF Chars
  <2>2. \A i \in 1 .. Len(s) + 1 : Append(s, c)[i] = (s \o <<c>>)[i]
    BY <2>1 DEF Chars
  <2>3. s \o <<c>> \in Chars
    BY <1>1 DEF Chars
  <2> QED  BY <1>1, <2>1, <2>2, <2>3, SeqEqual DEF Chars
<1> QED  BY <1>1, <1>3

\* What has been typed stays a sequence of characters.
LEMMA AheadLemma ==
  ASSUME KeyTypeOK, WireShape
  PROVE  /\ OnWire \in Chars
         /\ OnWire = <<>> \/ \E c \in Plain \X BOOLEAN : OnWire = <<c>>
<1>1. CASE wire = <<>>
  BY <1>1 DEF OnWire, Chars
<1>2. CASE wire # <<>>
  <2>1. Head(wire) \in Data
    BY <1>2, DataLemma DEF WireShape, Data
  <2>2. OnWire = Typed(Head(wire), Shift \in held, isE0Key)
    BY <1>2 DEF OnWire
  <2>3. isE0Key \in BOOLEAN /\ (Shift \in held) \in BOOLEAN
    BY DEF KeyTypeOK
  <2>4. /\ OnWire \in Chars
        /\ OnWire # <<>> => /\ OnWire = <<<<Head(wire).code, Shift \in held>>>>
                            /\ Head(wire).code \in Plain
    BY <2>1, <2>2, <2>3, TypedLemma
  <2> QED  BY <2>3, <2>4
<1> QED  BY <1>1, <1>2

LEMMA KeyInitLemma == TerminalInit => KeyInv
<1> SUFFICES ASSUME TerminalInit PROVE KeyInv
  OBVIOUS
<1> USE DEF TerminalInit
<1>1. KeyTypeOK
  <2>1. NoKey \in [pc : {"none", "decode", "type"}, data : Data, shift : BOOLEAN] /\ NoKey.pc = "none"
    BY DEF NoKey, Data
  <2>2. /\ key \in [Writers -> [pc : {"none", "decode", "type"}, data : Data, shift : BOOLEAN]]
        /\ \A w \in Writers : key[w].pc = "none" /\ wpc[w] = "idle"
    BY <2>1 DEF StdinInit
  <2>3. {isE0Key, shift, termE0Key, hurried} \subseteq BOOLEAN
    OBVIOUS
  <2>4. /\ scheduled \subseteq [data : Data, no : Nat]
        /\ meant \in Seq(Plain \X BOOLEAN) /\ chars \in Seq(Plain \X BOOLEAN)
        /\ count \in [bytes : Nat, keys : Nat, extended : Nat]
    OBVIOUS
  <2> QED  BY <2>2, <2>3, <2>4 DEF KeyTypeOK
<1>2. WireShape
  BY DEF WireShape
<1>4. ShiftKnown
  <2>1. ~Telling /\ ~(Shift \in held) /\ ~shift
    BY DEF Telling
  <2> QED  BY <2>1 DEF ShiftKnown
<1>3. OneAtATime
  <2>1. Ahead(<<>>)
    <3>1. OnWire = <<>>
      BY DEF OnWire
    <3>2. <<>> \in Chars /\ <<>> \o <<>> = <<>>
      BY ConcatEmptySeq DEF Chars
    <3> QED  BY <3>1, <3>2 DEF Ahead
  <2> QED  BY <2>1 DEF OneAtATime, OthersDone, NoKey
<1> QED  BY <1>1, <1>2, <1>3, <1>4 DEF KeyInv

LEMMA UseKeyLemma ==
  ASSUME KeyInv, NEW k \in Plain \cup Extended \cup {Shift}, NEW up \in BOOLEAN, UseKey(k, up)
  PROVE  KeyInv'
<1> USE DEF KeyInv
<1> DEFINE data == [code |-> PlainOf(k), up |-> up]
<1>1. /\ PlainOf(k) \in Plain \cup {Shift}
      /\ k \in Extended => PlainOf(k) \in Plain
      /\ k \notin Extended => PlainOf(k) = k
  BY TerminalAssumption DEF PlainOf
<1>2. /\ data \in Byte /\ data.code = PlainOf(k) /\ data.up = up
      /\ PlainOf(k) \in Plain => data \in PlainByte
  BY <1>1 DEF Byte, PlainByte
<1>3. wire' = IF k \in Extended THEN <<E0, data>> ELSE <<data>>
  BY DEF UseKey, BytesOf
<1>4. wire = <<>> /\ isE0Key = FALSE /\ isE0Key' = FALSE
  BY DEF UseKey, WireShape, KeyTypeOK
<1>5. WireShape'
  BY <1>1, <1>2, <1>3, <1>4 DEF WireShape
<1>6. Shift \notin Extended /\ Shift \notin Plain
  BY TerminalAssumption DEF Shift
<1>7. Head(wire') = (IF k \in Extended THEN E0 ELSE data) /\ wire' # <<>>
  BY <1>3
<1>8. ShiftKnown'
  <2>1. Shift \in held <=> shift
    BY <1>4 DEF ShiftKnown, Telling
  <2>2. CASE k = Shift
    BY <1>1, <1>2, <1>4, <1>6, <1>7, <2>2 DEF ShiftKnown, Telling, UseKey
  <2>3. CASE k # Shift
    <3>1. Head(wire').code # Shift
      BY <1>1, <1>2, <1>6, <1>7, <2>3, DataLemma
    <3>2. (Shift \in held') = (Shift \in held) /\ shift' = shift
      BY <2>3 DEF UseKey
    <3> QED  BY <1>4, <2>1, <3>1, <3>2 DEF ShiftKnown, Telling
  <2> QED  BY <2>2, <2>3
<1>9. OnWire = <<>> /\ OnWire' = IF k \in Plain /\ ~up THEN <<<<k, Shift \in held>>>> ELSE <<>>
  <2>1. OnWire = <<>>
    BY <1>4 DEF OnWire
  <2>2. OnWire' = Typed(Head(wire'), Shift \in held', FALSE)
    BY <1>4, <1>7 DEF OnWire
  <2>3. CASE k \in Extended
    BY <1>7, <2>1, <2>2, <2>3, TerminalAssumption, DataLemma DEF Typed
  <2>4. CASE k \in Plain /\ ~up
    <3>1. (Shift \in held') = (Shift \in held)
      BY <1>6, <2>4 DEF UseKey
    <3>2. k \notin Extended
      BY <2>4, TerminalAssumption
    <3> QED  BY <1>1, <1>2, <1>7, <2>1, <2>2, <2>4, <3>1, <3>2 DEF Typed
  <2>5. CASE k \notin Extended /\ ~(k \in Plain /\ ~up)
    BY <1>1, <1>2, <1>7, <2>1, <2>2, <2>5 DEF Typed
  <2> QED  BY <2>3, <2>4, <2>5
<1>10. meant' = meant \o OnWire' /\ meant' \in Chars
  <2>1. meant \in Chars
    BY DEF KeyTypeOK, Chars
  <2>2. CASE k \in Plain /\ ~up
    <3>1. <<k, Shift \in held>> \in Plain \X BOOLEAN
      <4>1. (Shift \in held) \in BOOLEAN
        OBVIOUS
      <4> QED  BY <2>2, <4>1, Zenon
    <3>2. meant' = Append(meant, <<k, Shift \in held>>)
      BY <2>2 DEF UseKey
    <3> QED  BY <1>9, <2>1, <2>2, <3>1, <3>2, GlueLemma
  <2>3. CASE ~(k \in Plain /\ ~up)
    BY <1>9, <2>1, <2>3, ConcatEmptySeq DEF UseKey, Chars
  <2> QED  BY <2>2, <2>3
<1>11. KeyTypeOK'
  <2>1. count' \in [bytes : Nat, keys : Nat, extended : Nat]
    <3> DEFINE e == IF k \in Extended THEN count.extended + 1 ELSE count.extended
    <3>1. count' = [count EXCEPT !.keys = count.keys + 1, !.extended = e]
      BY DEF UseKey, KeyTypeOK
    <3>2. e \in Nat /\ count.keys + 1 \in Nat
      BY DEF KeyTypeOK
    <3> HIDE DEF e
    <3> QED  BY <3>1, <3>2 DEF KeyTypeOK
  <2> QED  BY <1>10, <2>1 DEF KeyTypeOK, UseKey, vars, Chars
<1>12. ASSUME NEW t \in Chars, Ahead(t) PROVE Ahead(t)'
  <2>1. chars \in Chars /\ chars' = chars
    BY DEF KeyTypeOK, Chars, UseKey
  <2>2. chars \o t \in Chars
    BY <2>1 DEF Chars
  <2>3. meant = chars \o t
    BY <1>9, <1>12, <2>2, ConcatEmptySeq DEF Ahead, Chars
  <2> QED  BY <1>10, <2>1, <2>3 DEF Ahead
<1>13. OneAtATime'
  <2> SUFFICES ASSUME ~hurried PROVE OneAtATime'
    BY DEF OneAtATime, UseKey
  <2>1. ASSUME NEW d \in Data, NEW s \in BOOLEAN, ToDecode(d, s) PROVE ToDecode(d, s)'
    BY <1>4, <1>12, <2>1, TypedLemma DEF ToDecode, UseKey, KeyTypeOK
  <2>2. CASE scheduled = {} /\ OthersDone({}) /\ (termE0Key <=> isE0Key) /\ Ahead(<<>>)
    <3>1. Ahead(<<>>)'
      <4>1. <<>> \in Chars
        BY DEF Chars
      <4> QED  BY <1>12, <2>2, <4>1
    <3> QED  BY <1>4, <2>2, <3>1 DEF OneAtATime, OthersDone, UseKey
  <2>3. ASSUME NEW i \in scheduled, scheduled = {i}, OthersDone({}), ToDecode(i.data, shift)
        PROVE  OneAtATime'
    <3>1. i.data \in Data /\ shift \in BOOLEAN /\ shift' = shift
      BY DEF KeyTypeOK, UseKey
    <3>2. ToDecode(i.data, shift)'
      BY <2>1, <2>3, <3>1
    <3> QED  BY <2>3, <3>1, <3>2 DEF OneAtATime, OthersDone, UseKey
  <2>4. ASSUME NEW w \in Writers, scheduled = {}, OthersDone({w}),
               key[w].pc = "decode", ToDecode(key[w].data, key[w].shift)
        PROVE  OneAtATime'
    <3>1. key[w].data \in Data /\ key[w].shift \in BOOLEAN /\ key' = key
      BY DEF KeyTypeOK, UseKey
    <3>2. ToDecode(key[w].data, key[w].shift)'
      BY <2>1, <2>4, <3>1
    <3> QED  BY <2>4, <3>1, <3>2 DEF OneAtATime, OthersDone, UseKey
  <2>5. ASSUME NEW w \in Writers, scheduled = {}, OthersDone({w}), key[w].pc = "type", ~termE0Key,
               Ahead(<<<<key[w].data.code, key[w].shift>>>>)
        PROVE  OneAtATime'
    <3>1. key[w].data \in PlainByte /\ key[w].shift \in BOOLEAN /\ key' = key
      BY <2>5 DEF KeyTypeOK, UseKey
    <3>2. <<<<key[w].data.code, key[w].shift>>>> \in Chars
      BY <3>1, DataLemma DEF Chars
    <3>3. Ahead(<<<<key[w].data.code, key[w].shift>>>>)'
      BY <1>12, <2>5, <3>1, <3>2
    <3> QED  BY <1>4, <2>5, <3>1, <3>3 DEF OneAtATime, OthersDone, UseKey
  <2> QED  BY <2>2, <2>3, <2>4, <2>5 DEF OneAtATime
<1> QED  BY <1>5, <1>8, <1>11, <1>13

LEMMA KeyboardEventLemma ==
  ASSUME KeyInv, KeyboardEvent
  PROVE  KeyInv'
<1> USE DEF KeyInv
<1>0. PICK data, k : data = Head(wire) /\ k = [data |-> data, no |-> count.bytes]
  OBVIOUS
<1>1. /\ wire # <<>> /\ wire' = Tail(wire) /\ isE0Key' = (data = E0)
      /\ shift' = IF data.code = Shift /\ ~isE0Key THEN ~data.up ELSE shift
      /\ scheduled' = scheduled \cup {k} /\ hurried' = (hurried \/ Unfinished)
      /\ UNCHANGED <<vars, held, meant, termE0Key, key, chars>>
      /\ count' = [count EXCEPT !.bytes = @ + 1]
  BY <1>0 DEF KeyboardEvent
<1>2. \/ isE0Key /\ data \in PlainByte /\ wire' = <<>>
      \/ ~isE0Key /\ data \in Byte /\ wire' = <<>>
      \/ ~isE0Key /\ data = E0 /\ \E d \in PlainByte : wire' = <<d>>
  <2>1. CASE isE0Key
    <3>1. PICK d \in PlainByte : wire = <<d>>
      BY <2>1 DEF WireShape
    <3>2. Head(wire) = d /\ Tail(wire) = <<>>
      BY <3>1
    <3> QED  BY <1>0, <1>1, <2>1, <3>2
  <2>2. ASSUME ~isE0Key, NEW d \in Byte, wire = <<d>>
        PROVE  data \in Byte /\ wire' = <<>>
    BY <1>0, <1>1, <2>2
  <2>3. ASSUME ~isE0Key, NEW d \in PlainByte, wire = <<E0, d>>
        PROVE  data = E0 /\ wire' = <<d>>
    BY <1>0, <1>1, <2>3
  <2> QED  BY <1>1, <2>1, <2>2, <2>3 DEF WireShape
<1>3. data \in Data /\ (data = E0 <=> data \notin Byte) /\ (isE0Key => data # E0)
  <2>1. data \in PlainByte => data \in Byte
    BY DataLemma
  <2>2. E0 \notin Byte /\ E0 \in Data /\ Byte \subseteq Data
    BY DataLemma DEF Data
  <2> QED  BY <1>2, <2>1, <2>2
<1>4. WireShape'
  BY <1>1, <1>2, <1>3, DataLemma DEF WireShape
<1>5. isE0Key \in BOOLEAN /\ termE0Key \in BOOLEAN /\ shift \in BOOLEAN /\ hurried \in BOOLEAN
  BY DEF KeyTypeOK
<1>6. shift' \in BOOLEAN
  BY <1>1, <1>3, <1>5, DataLemma
<1>7. ~Telling'
  BY <1>1, <1>2, <1>3, DataLemma DEF Telling
<1>8. Shift \in held <=> shift'
  BY <1>0, <1>1, <1>3, <1>5, DataLemma DEF ShiftKnown, Telling
<1>9. ShiftKnown'
  BY <1>1, <1>7, <1>8 DEF ShiftKnown
<1>10. OnWire' = <<>>
  <2>1. CASE wire' = <<>>
    BY <2>1 DEF OnWire
  <2>2. CASE wire' # <<>>
    BY <1>1, <1>2, <2>2 DEF OnWire, Typed
  <2> QED  BY <2>1, <2>2
<1>11. OneAtATime'
  <2> SUFFICES ASSUME ~hurried, ~Unfinished PROVE OneAtATime'
    BY <1>1, <1>5 DEF OneAtATime
  <2>1. scheduled = {} /\ OthersDone({}) /\ (termE0Key <=> isE0Key) /\ Ahead(<<>>)
    BY DEF OneAtATime, Unfinished
  <2>2. Typed(data, shift', termE0Key) = OnWire
    <3>1. OnWire = Typed(data, Shift \in held, isE0Key)
      BY <1>0, <1>1 DEF OnWire
    <3> QED  BY <1>8, <2>1, <3>1 DEF Typed
  <2>3. chars \in Chars /\ OnWire \in Chars /\ chars \o OnWire \in Chars
    BY AheadLemma DEF KeyTypeOK, Chars
  <2>4. meant = (chars \o OnWire) \o <<>>
    BY <2>1, <2>3, ConcatEmptySeq DEF Ahead, Chars
  <2>5. Ahead(Typed(data, shift, termE0Key))'
    BY <1>1, <1>10, <2>2, <2>4 DEF Ahead
  <2>6. ToDecode(data, shift)'
    BY <1>1, <1>3, <1>5, <2>1, <2>5 DEF ToDecode
  <2>7. scheduled' = {k} /\ k.data = data /\ OthersDone({})'
    BY <1>0, <1>1, <2>1 DEF OthersDone
  <2> QED  BY <2>6, <2>7 DEF OneAtATime
<1>12. KeyTypeOK'
  <2>1. k \in [data : Data, no : Nat]
    BY <1>0, <1>3 DEF KeyTypeOK
  <2>2. count' \in [bytes : Nat, keys : Nat, extended : Nat]
    <3>1. count \in [bytes : Nat, keys : Nat, extended : Nat]
      BY DEF KeyTypeOK
    <3> QED  BY <1>1, <3>1
  <2> QED  BY <1>1, <1>5, <1>6, <2>1, <2>2 DEF KeyTypeOK, vars
<1> QED  BY <1>4, <1>9, <1>11, <1>12

LEMMA StartKeyLemma ==
  ASSUME KeyInv, NEW w \in Writers, StartKey(w)
  PROVE  KeyInv'
<1> USE DEF KeyInv
<1>1. PICK k \in scheduled :
        /\ scheduled' = scheduled \ {k}
        /\ key' = [key EXCEPT ![w] = [pc |-> "decode", data |-> k.data, shift |-> shift]]
  BY DEF StartKey
<1>2. /\ key[w].pc = "none"
      /\ UNCHANGED <<vars, wire, held, meant, isE0Key, count, shift, termE0Key, chars, hurried>>
  BY DEF StartKey, keyboard
<1>3. k.data \in Data /\ shift \in BOOLEAN
  BY DEF KeyTypeOK
<1>4. /\ key'[w] = [pc |-> "decode", data |-> k.data, shift |-> shift]
      /\ \A u \in Writers \ {w} : key'[u] = key[u]
  BY <1>1 DEF KeyTypeOK
<1>5. KeyTypeOK'
  <2>1. key' \in [Writers -> [pc : {"none", "decode", "type"}, data : Data, shift : BOOLEAN]]
    BY <1>1, <1>3 DEF KeyTypeOK
  <2>2. \A u \in Writers : /\ wpc'[u] # "idle" => key'[u].pc = "type"
                           /\ key'[u].pc = "type" => key'[u].data \in PlainByte /\ ~key'[u].data.up
    BY <1>2, <1>4 DEF KeyTypeOK, vars
  <2> QED  BY <1>1, <1>2, <2>1, <2>2 DEF KeyTypeOK
<1>6. WireShape' /\ ShiftKnown'
  BY <1>2 DEF WireShape, ShiftKnown, Telling
<1>7. OneAtATime'
  <2> SUFFICES ASSUME ~hurried PROVE OneAtATime'
    BY <1>2 DEF OneAtATime
  <2>1. scheduled = {k} /\ OthersDone({}) /\ ToDecode(k.data, shift)
    BY DEF OneAtATime
  <2>2. key'[w].pc = "decode" /\ ToDecode(key[w].data, key[w].shift)'
    <3>1. key'[w].pc = "decode" /\ key'[w].data = k.data /\ key'[w].shift = shift
      BY <1>4
    <3>2. /\ isE0Key' <=> k.data = E0
          /\ k.data = E0 => ~termE0Key'
      BY <1>2, <2>1 DEF ToDecode
    <3>3. Ahead(Typed(key[w].data, key[w].shift, termE0Key))'
      BY <1>2, <2>1, <3>1 DEF ToDecode, Ahead, OnWire
    <3> QED  BY <3>1, <3>2, <3>3 DEF ToDecode
  <2>3. scheduled' = {} /\ OthersDone({w})'
    BY <1>1, <1>4, <2>1 DEF OthersDone
  <2> QED  BY <2>2, <2>3 DEF OneAtATime
<1> QED  BY <1>5, <1>6, <1>7

LEMMA DecodeKeyLemma ==
  ASSUME KeyInv, NEW w \in Writers, DecodeKey(w)
  PROVE  KeyInv'
<1> USE DEF KeyInv
<1>0. PICK data, s : data = key[w].data /\ s = key[w].shift
  OBVIOUS
<1> DEFINE types == data # E0 /\ ~termE0Key /\ ~data.up /\ data.code \in Plain
<1>1. /\ key[w].pc = "decode" /\ termE0Key' = (data = E0)
      /\ key' = [key EXCEPT ![w] = IF types THEN [@ EXCEPT !.pc = "type"] ELSE NoKey]
      /\ UNCHANGED <<vars, wire, held, meant, isE0Key, count, shift, scheduled, chars, hurried>>
  BY <1>0 DEF DecodeKey, keyboard
<1>2. /\ data \in Data /\ s \in BOOLEAN
      /\ key[w] \in [pc : {"none", "decode", "type"}, data : Data, shift : BOOLEAN]
  BY <1>0 DEF KeyTypeOK
<1>3. /\ types => key'[w] = [pc |-> "type", data |-> data, shift |-> s]
      /\ ~types => key'[w] = NoKey
      /\ \A u \in Writers \ {w} : key'[u] = key[u]
  BY <1>0, <1>1, <1>2 DEF KeyTypeOK
<1>4. types => data \in PlainByte
  BY <1>2, DataLemma DEF Data, Byte, PlainByte
<1>5. KeyTypeOK'
  <2>1. NoKey \in [pc : {"none", "decode", "type"}, data : Data, shift : BOOLEAN] /\ NoKey.pc = "none"
    BY DEF NoKey, Data
  <2>2. key'[w] \in [pc : {"none", "decode", "type"}, data : Data, shift : BOOLEAN]
    BY <1>2, <1>3, <2>1
  <2>3. key' \in [Writers -> [pc : {"none", "decode", "type"}, data : Data, shift : BOOLEAN]]
    BY <1>1, <1>3, <2>2 DEF KeyTypeOK
  <2>4. \A u \in Writers : /\ wpc'[u] # "idle" => key'[u].pc = "type"
                           /\ key'[u].pc = "type" => key'[u].data \in PlainByte /\ ~key'[u].data.up
    BY <1>1, <1>3, <1>4, <2>1 DEF KeyTypeOK, vars
  <2>5. termE0Key' \in BOOLEAN
    BY <1>1
  <2> QED  BY <1>1, <2>3, <2>4, <2>5 DEF KeyTypeOK
<1>6. WireShape' /\ ShiftKnown'
  BY <1>1 DEF WireShape, ShiftKnown, Telling
<1>7. OneAtATime'
  <2> SUFFICES ASSUME ~hurried PROVE OneAtATime'
    BY <1>1 DEF OneAtATime
  <2>1. scheduled = {} /\ OthersDone({w}) /\ ToDecode(data, s)
    BY <1>0, <1>1 DEF OneAtATime, OthersDone
  <2>2. (termE0Key' <=> isE0Key') /\ scheduled' = {} /\ OthersDone({w})'
    BY <1>1, <1>3, <2>1 DEF ToDecode, OthersDone
  <2>3. CASE types
    <3>1. Typed(data, s, termE0Key) = <<<<data.code, s>>>>
      BY <2>3 DEF Typed
    <3>2. Ahead(<<<<key[w].data.code, key[w].shift>>>>)'
      <4>1. key'[w].data.code = data.code /\ key'[w].shift = s
        BY <1>3, <2>3
      <4>2. Ahead(<<<<data.code, s>>>>)
        BY <2>1, <3>1 DEF ToDecode
      <4> QED  BY <1>1, <4>1, <4>2 DEF Ahead, OnWire
    <3>3. key'[w].pc = "type"
      BY <1>3, <2>3
    <3>4. ~termE0Key' /\ ~isE0Key'
      BY <1>1, <2>2, <2>3
    <3> QED  BY <2>2, <3>2, <3>3, <3>4 DEF OneAtATime
  <2>4. CASE ~types
    <3>1. Typed(data, s, termE0Key) = <<>>
      BY <2>4, DataLemma DEF Typed
    <3>2. Ahead(<<>>)'
      BY <1>1, <2>1, <3>1 DEF ToDecode, Ahead, OnWire
    <3>3. OthersDone({})'
      BY <1>3, <2>2, <2>4 DEF OthersDone, NoKey
    <3> QED  BY <2>2, <3>2, <3>3 DEF OneAtATime
  <2> QED  BY <2>3, <2>4
<1> QED  BY <1>5, <1>6, <1>7

LEMMA StoreKeyLemma ==
  ASSUME KeyInv, StdinTypeOK, NEW w \in Writers, StoreKey(w)
  PROVE  KeyInv'
<1> USE DEF KeyInv
<1> DEFINE c == <<key[w].data.code, key[w].shift>>
<1>1. /\ wpc[w] = "store" /\ wpc' = [wpc EXCEPT ![w] = "idle"]
      /\ chars' = Append(chars, c) /\ key' = [key EXCEPT ![w] = NoKey]
      /\ UNCHANGED <<wire, held, meant, isE0Key, count, shift, scheduled, termE0Key, hurried>>
  BY DEF StoreKey, Store, keyboard
<1>2. key[w].pc = "type" /\ key[w].data \in PlainByte /\ key[w].shift \in BOOLEAN
  BY <1>1 DEF KeyTypeOK
<1>3. c \in Plain \X BOOLEAN
  BY <1>2, DataLemma
<1>4. key'[w] = NoKey /\ \A u \in Writers \ {w} : key'[u] = key[u]
  BY <1>1 DEF KeyTypeOK
<1>5. chars \in Chars /\ chars' \in Chars /\ chars' = chars \o <<c>>
  BY <1>1, <1>3, GlueLemma DEF KeyTypeOK, Chars
<1>6. KeyTypeOK'
  <2>1. NoKey \in [pc : {"none", "decode", "type"}, data : Data, shift : BOOLEAN] /\ NoKey.pc = "none"
    BY DEF NoKey, Data
  <2>2. key' \in [Writers -> [pc : {"none", "decode", "type"}, data : Data, shift : BOOLEAN]]
    BY <1>1, <2>1 DEF KeyTypeOK
  <2>3. \A u \in Writers : /\ wpc'[u] # "idle" => key'[u].pc = "type"
                           /\ key'[u].pc = "type" => key'[u].data \in PlainByte /\ ~key'[u].data.up
    BY <1>1, <1>4, <2>1 DEF KeyTypeOK, StdinTypeOK
  <2> QED  BY <1>1, <1>5, <2>2, <2>3 DEF KeyTypeOK, Chars
<1>7. WireShape' /\ ShiftKnown'
  BY <1>1 DEF WireShape, ShiftKnown, Telling
<1>8. OneAtATime'
  <2> SUFFICES ASSUME ~hurried PROVE OneAtATime'
    BY <1>1 DEF OneAtATime
  <2>1. scheduled = {} /\ OthersDone({w}) /\ ~termE0Key /\ ~isE0Key /\ Ahead(<<c>>)
    BY <1>2 DEF OneAtATime, OthersDone
  <2>2. Ahead(<<>>)'
    <3>1. chars' \o <<>> = chars'
      BY <1>5, ConcatEmptySeq DEF Chars
    <3> QED  BY <1>1, <1>5, <2>1, <3>1 DEF Ahead, OnWire
  <2>3. OthersDone({})' /\ scheduled' = {}
    BY <1>1, <1>4, <2>1 DEF OthersDone, NoKey
  <2>4. (termE0Key' <=> isE0Key')
    BY <1>1, <2>1 DEF KeyTypeOK
  <2> QED  BY <2>2, <2>3, <2>4 DEF OneAtATime
<1> QED  BY <1>6, <1>7, <1>8

\* A putchar under way and the reader leave the keyboard alone.
LEMMA QuietKeyLemma ==
  ASSUME KeyInv, UNCHANGED termVars,
         \A w \in Writers : wpc'[w] # "idle" => key[w].pc = "type"
  PROVE  KeyInv'
<1> USE DEF KeyInv, termVars, keyboard
<1>1. KeyTypeOK'
  BY DEF KeyTypeOK
<1>2. WireShape' /\ ShiftKnown' /\ OneAtATime'
  BY DEF WireShape, ShiftKnown, Telling, OneAtATime, OthersDone, ToDecode, Ahead, OnWire
<1> QED  BY <1>1, <1>2

LEMMA KeyStep == KeyInv /\ StdinTypeOK /\ [TerminalNext]_allVars => KeyInv'
<1> SUFFICES ASSUME KeyInv, StdinTypeOK, [TerminalNext]_allVars PROVE KeyInv'
  OBVIOUS
<1>1. \A w \in Writers : wpc[w] # "idle" => key[w].pc = "type"
  BY DEF KeyInv, KeyTypeOK
<1>2. CASE ReadLine \/ UNCHANGED allVars
  <2>1. wpc' = wpc
    BY <1>2 DEF ReadLine, Reap, Activate, ReaderStep, TestFlushed, MarkHandle, SuspendReader,
                WakeReader, ClearHandle, ScanChar, allVars, vars
  <2> QED  BY <1>1, <1>2, <2>1, QuietKeyLemma DEF ReadLine, allVars
<1>3. ASSUME NEW w \in Writers, TypeKey(w) PROVE KeyInv'
  <2>1. \A u \in Writers \ {w} : wpc'[u] = wpc[u]
    BY <1>3 DEF TypeKey, Lock, QueryTask, CheckHandle, ResumeReader, StdinTypeOK
  <2> QED  BY <1>1, <1>3, <2>1, QuietKeyLemma DEF TypeKey
<1>4. ASSUME NEW w \in Writers, StartKey(w) \/ DecodeKey(w) \/ StoreKey(w) PROVE KeyInv'
  BY <1>4, StartKeyLemma, DecodeKeyLemma, StoreKeyLemma
<1>5. CASE \E k \in Plain \cup Extended \cup {Shift}, up \in BOOLEAN : UseKey(k, up)
  BY <1>5, UseKeyLemma
<1>6. CASE KeyboardEvent
  BY <1>6, KeyboardEventLemma
<1> QED  BY <1>2, <1>3, <1>4, <1>5, <1>6 DEF TerminalNext

LEMMA KeyInvariant == TerminalSpec => [](KeyInv /\ StdinTypeOK)
<1>1. TerminalInit => KeyInv
  BY KeyInitLemma
<1>2. KeyInv /\ StdinTypeOK /\ [TerminalNext]_allVars => KeyInv'
  BY KeyStep
<1> QED  BY <1>1, <1>2, TerminalTypeCorrect, PTL DEF TerminalSpec

\* As long as each task is done before the next byte comes, the terminal gets the
\* characters that were typed, in order, and nothing else, whatever keys are pressed.
THEOREM TerminalTypesAsMeant == TerminalSpec => []TypedAsMeant
<1>1. ASSUME KeyInv PROVE TypedAsMeant
  <2> SUFFICES ASSUME ~hurried PROVE TypedAsMeant
    BY DEF TypedAsMeant
  <2>1. chars \in Chars /\ OnWire \in Chars
    BY <1>1, AheadLemma DEF KeyInv, KeyTypeOK, Chars
  <2>2. ASSUME NEW t \in Chars, Ahead(t)
        PROVE  Len(chars) <= Len(meant) /\ chars = SubSeq(meant, 1, Len(chars))
    <3> DEFINE rest == t \o OnWire
    <3>1. rest \in Chars /\ meant = chars \o rest
      <4>1. t \o OnWire \in Seq(Plain \X BOOLEAN)
        BY <2>1, <2>2, ConcatProperties DEF Chars
      <4>2. (chars \o t) \o OnWire = chars \o (t \o OnWire)
        BY <2>1, <2>2, ConcatAssociative DEF Chars
      <4> QED  BY <2>2, <4>1, <4>2 DEF Ahead, Chars
    <3> HIDE DEF rest
    <3>2. /\ Len(chars) \in Nat /\ Len(rest) \in Nat /\ Len(meant) = Len(chars) + Len(rest)
          /\ \A i \in 1 .. Len(chars) : meant[i] = chars[i]
      BY <2>1, <3>1, ConcatProperties DEF Chars
    <3>3. \A i \in 1 .. Len(chars) : meant[i] \in Plain \X BOOLEAN
      <4>1. \A i \in 1 .. Len(chars) : chars[i] \in Plain \X BOOLEAN
        BY <2>1, ElementOfSeq, Zenon DEF Chars
      <4> QED  BY <3>2, <4>1, Zenon
    <3>4. /\ SubSeq(meant, 1, Len(chars)) \in Seq(Plain \X BOOLEAN)
          /\ Len(SubSeq(meant, 1, Len(chars))) = Len(chars)
          /\ \A i \in 1 .. Len(chars) : SubSeq(meant, 1, Len(chars))[i] = meant[i]
      BY <2>1, <3>1, <3>2, <3>3 DEF Chars
    <3>5. chars = SubSeq(meant, 1, Len(chars))
      BY <2>1, <3>2, <3>4, SeqEqual DEF Chars
    <3> QED  BY <3>2, <3>5
  <2>3. \E t \in Chars : Ahead(t)
    <3>1. CASE Ahead(<<>>)
      <4>1. <<>> \in Chars
        BY DEF Chars
      <4> QED  BY <3>1, <4>1
    <3>2. ASSUME NEW d \in Data, NEW s \in BOOLEAN, ToDecode(d, s) PROVE \E t \in Chars : Ahead(t)
      BY <1>1, <3>2, TypedLemma DEF ToDecode, KeyInv, KeyTypeOK
    <3>3. ASSUME NEW w \in Writers, key[w].pc = "type", Ahead(<<<<key[w].data.code, key[w].shift>>>>)
          PROVE  \E t \in Chars : Ahead(t)
      <4>1. <<<<key[w].data.code, key[w].shift>>>> \in Chars
        <5>1. key[w].data \in PlainByte /\ key[w].shift \in BOOLEAN
          BY <1>1, <3>3 DEF KeyInv, KeyTypeOK
        <5> QED  BY <5>1, DataLemma DEF Chars
      <4> QED  BY <3>3, <4>1
    <3>4. /\ \A k \in scheduled : k.data \in Data
          /\ \A w \in Writers : key[w].data \in Data /\ key[w].shift \in BOOLEAN
          /\ shift \in BOOLEAN
      BY <1>1 DEF KeyInv, KeyTypeOK
    <3> QED  BY <1>1, <3>1, <3>2, <3>3, <3>4 DEF KeyInv, OneAtATime
  <2>4. ASSUME wire = <<>>, ~Unfinished PROVE chars = meant
    <3>1. Ahead(<<>>)
      BY <1>1, <2>4 DEF KeyInv, OneAtATime, Unfinished
    <3>2. OnWire = <<>>
      BY <2>4 DEF OnWire
    <3> QED  BY <2>1, <3>1, <3>2, ConcatEmptySeq DEF Ahead, Chars
  <2> QED  BY <2>2, <2>3, <2>4 DEF TypedAsMeant
<1> QED  BY <1>1, KeyInvariant, PTL

--------------------------------------------------------------------------------
(* No key press is lost                                                    *)

\* The presses of p that the keyboard has to send, that wait as tasks, and that are
\* dealt with.
WireKeys(p) == {i \in DOMAIN wire : wire[i] = Press(p)}
TaskKeys(p) == {k \in scheduled : k.data = Press(p)}
CoreKeys(p) == {w \in Writers : key[w].pc # "none" /\ key[w].data = Press(p)}

\* Tasks are finitely many and told apart by their numbers.
TasksFresh == IsFiniteSet(scheduled) /\ \A k \in scheduled : k.no < count.bytes

\* Without extended keys no byte is 0xE0.
SingleBytes ==
  /\ ~isE0Key /\ ~termE0Key
  /\ wire = <<>> \/ \E d \in Byte : wire = <<d>>
  /\ \A k \in scheduled : k.data # E0
  /\ \A w \in Writers : key[w].pc # "none" => key[w].data # E0

KeptInv == TasksFresh /\ (count.extended = 0 => SingleBytes) /\ KeysKept

LEMMA PressLemma ==
  ASSUME NEW p \in Plain
  PROVE  /\ \A d \in Byte : d = Press(p) <=> d.code = p /\ ~d.up
         /\ Press(p) \in Byte /\ Press(p) # E0
<1>1. \A d \in Byte : d = Press(p) <=> d.code = p /\ ~d.up
  BY DEF Byte, Press
<1>2. Press(p) \in Byte
  BY DEF Byte, Press
<1>3. Press(p) # E0
  BY <1>2, DataLemma
<1> QED  BY <1>1, <1>2, <1>3

LEMMA TimesLemma ==
  ASSUME NEW s \in Chars, NEW p
  PROVE  /\ Times(s, p) \in Nat
         /\ \A c \in Plain \X BOOLEAN :
              Times(Append(s, c), p) = Times(s, p) + IF c[1] = p THEN 1 ELSE 0
<1> DEFINE at(t) == {i \in DOMAIN t : t[i][1] = p}
<1>1. Len(s) \in Nat /\ DOMAIN s = 1 .. Len(s)
  BY DEF Chars
<1>2. IsFiniteSet(at(s)) /\ Cardinality(at(s)) \in Nat
  <2>1. IsFiniteSet(1 .. Len(s))
    BY <1>1, FS_Interval
  <2>2. at(s) \in SUBSET (1 .. Len(s))
    BY <1>1
  <2> QED  BY <2>1, <2>2, FS_Subset, FS_CardinalityType
<1>3. ASSUME NEW c \in Plain \X BOOLEAN
      PROVE  Cardinality(at(Append(s, c))) = Cardinality(at(s)) + IF c[1] = p THEN 1 ELSE 0
  <2>1. /\ DOMAIN Append(s, c) = 1 .. Len(s) + 1
        /\ \A i \in 1 .. Len(s) : Append(s, c)[i] = s[i]
        /\ Append(s, c)[Len(s) + 1] = c
    BY <1>1 DEF Chars
  <2>2. Len(s) + 1 \notin at(s)
    BY <1>1
  <2>3. CASE c[1] = p
    <3>1. at(Append(s, c)) = at(s) \cup {Len(s) + 1}
      BY <1>1, <2>1, <2>3
    <3> HIDE DEF at
    <3> QED  BY <1>2, <2>2, <2>3, <3>1, FS_AddElement
  <2>4. CASE c[1] # p
    <3>1. at(Append(s, c)) = at(s)
      BY <1>1, <2>1, <2>4
    <3> HIDE DEF at
    <3> QED  BY <1>2, <2>4, <3>1
  <2> QED  BY <2>3, <2>4
<1> QED  BY <1>2, <1>3 DEF Times

LEMMA KeySets ==
  ASSUME KeyInv, TasksFresh, NEW p
  PROVE  /\ IsFiniteSet(TaskKeys(p)) /\ IsFiniteSet(CoreKeys(p)) /\ IsFiniteSet(WireKeys(p))
         /\ Cardinality(TaskKeys(p)) \in Nat /\ Cardinality(CoreKeys(p)) \in Nat
         /\ Cardinality(WireKeys(p)) \in Nat
         /\ OnTheWay(p) = Cardinality(WireKeys(p)) + Cardinality(TaskKeys(p))
                          + Cardinality(CoreKeys(p))
<1>1. IsFiniteSet(scheduled) /\ TaskKeys(p) \in SUBSET scheduled
  BY DEF TasksFresh, TaskKeys
<1>2. IsFiniteSet(Writers) /\ CoreKeys(p) \in SUBSET Writers
  BY TerminalAssumption DEF CoreKeys
<1>3. IsFiniteSet(1 .. 2) /\ WireKeys(p) \in SUBSET (1 .. 2)
  <2>1. DOMAIN wire \subseteq 1 .. 2
    BY DEF KeyInv, WireShape
  <2>2. IsFiniteSet(1 .. 2)
    <3>1. 1 \in Int /\ 2 \in Int
      OBVIOUS
    <3> QED  BY <3>1, FS_Interval, Zenon
  <2>3. WireKeys(p) \in SUBSET (1 .. 2)
    BY <2>1 DEF WireKeys
  <2> QED  BY <2>2, <2>3
<1>4. IsFiniteSet(TaskKeys(p)) /\ IsFiniteSet(CoreKeys(p)) /\ IsFiniteSet(WireKeys(p))
  BY <1>1, <1>2, <1>3, FS_Subset
<1> QED  BY <1>4, FS_CardinalityType DEF OnTheWay, TaskKeys, CoreKeys, WireKeys

\* What is on the wire counts once at most.
LEMMA WireCount ==
  ASSUME NEW p \in Plain
  PROVE  /\ wire = <<>> => Cardinality(WireKeys(p)) = 0
         /\ \A d \in Byte : wire = <<d>> =>
              Cardinality(WireKeys(p)) = IF d = Press(p) THEN 1 ELSE 0
<1>1. CASE wire = <<>>
  <2>1. WireKeys(p) = {}
    BY <1>1 DEF WireKeys
  <2> QED  BY <1>1, <2>1, FS_EmptySet
<1>2. ASSUME NEW d \in Byte, wire = <<d>>
      PROVE  Cardinality(WireKeys(p)) = IF d = Press(p) THEN 1 ELSE 0
  <2>1. WireKeys(p) = IF d = Press(p) THEN {1} ELSE {}
    BY <1>2 DEF WireKeys
  <2> QED  BY <2>1, FS_EmptySet, FS_Singleton
<1> QED  BY <1>1, <1>2

LEMMA KeptInitLemma == TerminalInit => KeptInv
<1> SUFFICES ASSUME TerminalInit PROVE KeptInv
  OBVIOUS
<1>1. TasksFresh /\ SingleBytes
  BY FS_EmptySet DEF TerminalInit, TasksFresh, SingleBytes, NoKey
<1>2. ASSUME NEW p \in Plain PROVE Times(chars, p) + OnTheWay(p) = Times(meant, p)
  <2>1. KeyInv
    BY KeyInitLemma
  <2>2. WireKeys(p) = {} /\ TaskKeys(p) = {} /\ CoreKeys(p) = {}
    BY DEF TerminalInit, WireKeys, TaskKeys, CoreKeys, NoKey
  <2>3. OnTheWay(p) = 0
    BY <1>1, <2>1, <2>2, KeySets, FS_EmptySet
  <2>4. chars = meant /\ chars \in Chars
    BY DEF TerminalInit, Chars
  <2> QED  BY <2>3, <2>4, TimesLemma
<1> QED  BY <1>1, <1>2 DEF KeptInv, KeysKept

\* How the sum changes, part by part.
LEMMA SumLemma ==
  ASSUME KeyInv, TasksFresh, NEW p \in Plain,
         Times(chars, p) + OnTheWay(p) = Times(meant, p),
         NEW dc \in Int, NEW dw \in Int, NEW dt \in Int, NEW dk \in Int,
         Times(chars, p)' = Times(chars, p) + dc,
         Cardinality(WireKeys(p))' = Cardinality(WireKeys(p)) + dw,
         Cardinality(TaskKeys(p))' = Cardinality(TaskKeys(p)) + dt,
         Cardinality(CoreKeys(p))' = Cardinality(CoreKeys(p)) + dk,
         Times(meant, p)' = Times(meant, p) + dc + dw + dt + dk
  PROVE  (Times(chars, p) + OnTheWay(p) = Times(meant, p))'
<1>1. /\ OnTheWay(p) = Cardinality(WireKeys(p)) + Cardinality(TaskKeys(p)) + Cardinality(CoreKeys(p))
      /\ Cardinality(TaskKeys(p)) \in Nat /\ Cardinality(CoreKeys(p)) \in Nat
      /\ Cardinality(WireKeys(p)) \in Nat
  BY KeySets
<1>2. OnTheWay(p)' = Cardinality(WireKeys(p))' + Cardinality(TaskKeys(p))' + Cardinality(CoreKeys(p))'
  BY DEF OnTheWay, WireKeys, TaskKeys, CoreKeys
<1>3. Times(chars, p) \in Nat
  BY TimesLemma DEF KeyInv, KeyTypeOK, Chars
<1> QED  BY <1>1, <1>2, <1>3

LEMMA UseKeyKeeps ==
  ASSUME KeyInv, KeyInv', KeptInv, NEW k \in Plain \cup Extended \cup {Shift},
         NEW up \in BOOLEAN, UseKey(k, up)
  PROVE  KeptInv'
<1>1. TasksFresh'
  BY DEF KeptInv, TasksFresh, UseKey
<1>2. SUFFICES ASSUME count.extended' = 0
               PROVE  SingleBytes' /\ \A p \in Plain : (Times(chars, p) + OnTheWay(p) = Times(meant, p))'
  BY <1>1 DEF KeptInv, KeysKept
<1>3. k \notin Extended /\ count.extended = 0
  <2>1. count.extended \in Nat
    BY DEF KeyInv, KeyTypeOK
  <2>2. count'.extended = IF k \in Extended THEN count.extended + 1 ELSE count.extended
    BY DEF UseKey, KeyInv, KeyTypeOK
  <2> QED  BY <1>2, <2>1, <2>2
<1> DEFINE data == [code |-> k, up |-> up]
<1>4. wire = <<>> /\ wire' = <<data>> /\ data \in Byte /\ data.code = k /\ data.up = up
  BY <1>3 DEF UseKey, BytesOf, PlainOf, Byte
<1>5. UNCHANGED <<isE0Key, termE0Key, scheduled, key, chars>>
  BY DEF UseKey
<1>6. SingleBytes'
  BY <1>3, <1>4, <1>5 DEF KeptInv, SingleBytes
<1>7. ASSUME NEW p \in Plain PROVE (Times(chars, p) + OnTheWay(p) = Times(meant, p))'
  <2> DEFINE n == IF k = p /\ ~up THEN 1 ELSE 0
  <2>1. Times(chars, p) + OnTheWay(p) = Times(meant, p)
    BY <1>3 DEF KeptInv, KeysKept
  <2>2. data = Press(p) <=> k = p /\ ~up
    BY <1>4, PressLemma
  <2>3. Cardinality(WireKeys(p))' = Cardinality(WireKeys(p)) + n
    <3>1. Cardinality(WireKeys(p)) = 0
      BY <1>4, WireCount
    <3>2. WireKeys(p)' = IF data = Press(p) THEN {1} ELSE {}
      BY <1>4 DEF WireKeys
    <3>3. Cardinality(WireKeys(p))' = n
      BY <2>2, <3>2, FS_EmptySet, FS_Singleton
    <3> QED  BY <3>1, <3>3
  <2>4. /\ Cardinality(TaskKeys(p))' = Cardinality(TaskKeys(p)) + 0
        /\ Cardinality(CoreKeys(p))' = Cardinality(CoreKeys(p)) + 0
    <3>1. TaskKeys(p)' = TaskKeys(p) /\ CoreKeys(p)' = CoreKeys(p)
      BY <1>5 DEF TaskKeys, CoreKeys
    <3>2. Cardinality(TaskKeys(p)) \in Nat /\ Cardinality(CoreKeys(p)) \in Nat
      BY KeySets DEF KeptInv
    <3> QED  BY <3>1, <3>2
  <2>6. meant \in Chars /\ chars \in Chars
    BY DEF KeyInv, KeyTypeOK, Chars
  <2>7. Times(meant, p)' = Times(meant, p) + n
    <3>1. CASE k \in Plain /\ ~up
      <4>1. PICK b \in BOOLEAN : meant' = Append(meant, <<k, b>>)
        <5>1. meant' = Append(meant, <<k, Shift \in held>>)
          BY <3>1 DEF UseKey
        <5>2. (Shift \in held) \in BOOLEAN
          OBVIOUS
        <5> QED  BY <5>1, <5>2, Zenon
      <4>2. Times(Append(meant, <<k, b>>), p) = Times(meant, p) + IF k = p THEN 1 ELSE 0
        BY <2>6, <3>1, TimesLemma
      <4>3. Times(meant, p)' = Times(Append(meant, <<k, b>>), p)
        BY <4>1 DEF Times
      <4> QED  BY <3>1, <4>2, <4>3
    <3>2. CASE ~(k \in Plain /\ ~up)
      <4>1. Times(meant, p)' = Times(meant, p)
        BY <3>2 DEF UseKey, Times
      <4> QED  BY <2>6, <3>2, <4>1, TimesLemma
    <3> QED  BY <3>1, <3>2
  <2>8. Times(chars, p)' = Times(chars, p) + 0
    <3>1. Times(chars, p)' = Times(chars, p)
      BY <1>5 DEF Times
    <3> QED  BY <2>6, <3>1, TimesLemma
  <2>9. TasksFresh /\ n \in Int /\ 0 \in Int
    BY DEF KeptInv
  <2>10. Times(meant, p)' = Times(meant, p) + 0 + n + 0 + 0
    BY <2>6, <2>7, TimesLemma
  <2> HIDE DEF n
  <2> QED  BY <1>1, <2>1, <2>3, <2>4, <2>8, <2>9, <2>10, SumLemma
<1> QED  BY <1>6, <1>7

LEMMA KeyboardEventKeeps ==
  ASSUME KeyInv, KeptInv, KeyboardEvent
  PROVE  KeptInv'
<1>0. PICK data, k : data = Head(wire) /\ k = [data |-> data, no |-> count.bytes]
  OBVIOUS
<1>1. /\ wire # <<>> /\ wire' = Tail(wire) /\ isE0Key' = (data = E0)
      /\ scheduled' = scheduled \cup {k}
      /\ count' = [count EXCEPT !.bytes = @ + 1]
      /\ UNCHANGED <<meant, termE0Key, key, chars>>
  BY <1>0 DEF KeyboardEvent
<1>2. count.bytes \in Nat /\ count'.bytes = count.bytes + 1 /\ count'.extended = count.extended
  BY <1>1 DEF KeyInv, KeyTypeOK
<1>3. k \notin scheduled /\ k.data = data
  BY <1>0, <1>2 DEF KeptInv, TasksFresh
<1>4. TasksFresh'
  <2>1. IsFiniteSet(scheduled')
    BY <1>1, FS_AddElement DEF KeptInv, TasksFresh
  <2>2. \A i \in scheduled' : i.no < count'.bytes
    <3>1. \A i \in scheduled : i.no \in Nat /\ i.no < count.bytes
      BY DEF KeptInv, TasksFresh, KeyInv, KeyTypeOK
    <3>2. k.no = count.bytes
      BY <1>0
    <3> QED  BY <1>1, <1>2, <3>1, <3>2
  <2> QED  BY <2>1, <2>2 DEF TasksFresh
<1>5. SUFFICES ASSUME count.extended = 0
               PROVE  SingleBytes' /\ \A p \in Plain : (Times(chars, p) + OnTheWay(p) = Times(meant, p))'
  BY <1>2, <1>4 DEF KeptInv, KeysKept
<1>6. data \in Byte /\ wire = <<data>> /\ wire' = <<>> /\ data # E0
  <2>1. PICK d \in Byte : wire = <<d>>
    BY <1>1, <1>5 DEF KeptInv, SingleBytes
  <2> QED  BY <1>0, <1>1, <2>1, DataLemma
<1>7. SingleBytes'
  BY <1>1, <1>3, <1>5, <1>6 DEF KeptInv, SingleBytes
<1>8. ASSUME NEW p \in Plain PROVE (Times(chars, p) + OnTheWay(p) = Times(meant, p))'
  <2> DEFINE n == IF data = Press(p) THEN 1 ELSE 0
  <2>1. Times(chars, p) + OnTheWay(p) = Times(meant, p)
    BY <1>5 DEF KeptInv, KeysKept
  <2>2. Cardinality(WireKeys(p))' = Cardinality(WireKeys(p)) + (0 - n)
    <3>1. Cardinality(WireKeys(p)) = n
      BY <1>6, WireCount
    <3>2. WireKeys(p)' = {}
      BY <1>6 DEF WireKeys
    <3> QED  BY <3>1, <3>2, FS_EmptySet
  <2>3. IsFiniteSet(TaskKeys(p)) /\ Cardinality(TaskKeys(p)) \in Nat /\ Cardinality(CoreKeys(p)) \in Nat
    BY KeySets DEF KeptInv
  <2>4. Cardinality(TaskKeys(p))' = Cardinality(TaskKeys(p)) + n
    <3>1. TaskKeys(p)' = IF data = Press(p) THEN TaskKeys(p) \cup {k} ELSE TaskKeys(p)
      BY <1>1, <1>3 DEF TaskKeys
    <3>2. k \notin TaskKeys(p)
      BY <1>3 DEF TaskKeys
    <3> QED  BY <2>3, <3>1, <3>2, FS_AddElement
  <2>5. Cardinality(CoreKeys(p))' = Cardinality(CoreKeys(p)) + 0
    <3>1. CoreKeys(p)' = CoreKeys(p)
      BY <1>1 DEF CoreKeys
    <3> QED  BY <2>3, <3>1
  <2>6. Times(chars, p)' = Times(chars, p) + 0 /\ Times(meant, p)' = Times(meant, p) + 0 + (0 - n) + n + 0
    <3>1. Times(chars, p)' = Times(chars, p) /\ Times(meant, p)' = Times(meant, p)
      BY <1>1 DEF Times
    <3>2. Times(chars, p) \in Nat /\ Times(meant, p) \in Nat
      BY TimesLemma DEF KeyInv, KeyTypeOK, Chars
    <3> QED  BY <3>1, <3>2
  <2>7. TasksFresh /\ n \in Int /\ 0 - n \in Int /\ 0 \in Int
    BY DEF KeptInv
  <2> HIDE DEF n
  <2> QED  BY <2>1, <2>2, <2>4, <2>5, <2>6, <2>7, SumLemma
<1> QED  BY <1>7, <1>8

LEMMA StartKeyKeeps ==
  ASSUME KeyInv, KeptInv, NEW w \in Writers, StartKey(w)
  PROVE  KeptInv'
<1>1. PICK k \in scheduled :
        /\ scheduled' = scheduled \ {k}
        /\ key' = [key EXCEPT ![w] = [pc |-> "decode", data |-> k.data, shift |-> shift]]
  BY DEF StartKey
<1>2. key[w].pc = "none" /\ UNCHANGED <<wire, meant, isE0Key, count, termE0Key, chars>>
  BY DEF StartKey, keyboard
<1>3. /\ key'[w].pc = "decode" /\ key'[w].data = k.data
      /\ \A u \in Writers \ {w} : key'[u] = key[u]
  BY <1>1 DEF KeyInv, KeyTypeOK
<1>4. TasksFresh'
  BY <1>1, <1>2, FS_RemoveElement DEF KeptInv, TasksFresh
<1>5. SUFFICES ASSUME count.extended = 0
               PROVE  SingleBytes' /\ \A p \in Plain : (Times(chars, p) + OnTheWay(p) = Times(meant, p))'
  BY <1>2, <1>4 DEF KeptInv, KeysKept
<1>6. SingleBytes'
  BY <1>1, <1>2, <1>3, <1>5 DEF KeptInv, SingleBytes
<1>7. ASSUME NEW p \in Plain PROVE (Times(chars, p) + OnTheWay(p) = Times(meant, p))'
  <2> DEFINE n == IF k.data = Press(p) THEN 1 ELSE 0
  <2>1. Times(chars, p) + OnTheWay(p) = Times(meant, p)
    BY <1>5 DEF KeptInv, KeysKept
  <2>2. /\ IsFiniteSet(TaskKeys(p)) /\ IsFiniteSet(CoreKeys(p))
        /\ Cardinality(TaskKeys(p)) \in Nat /\ Cardinality(CoreKeys(p)) \in Nat
        /\ Cardinality(WireKeys(p)) \in Nat
    BY KeySets DEF KeptInv
  <2>3. Cardinality(TaskKeys(p))' = Cardinality(TaskKeys(p)) + (0 - n)
    <3>1. TaskKeys(p)' = TaskKeys(p) \ {k} /\ (k \in TaskKeys(p) <=> k.data = Press(p))
      BY <1>1 DEF TaskKeys
    <3>2. Cardinality(TaskKeys(p) \ {k}) =
            IF k \in TaskKeys(p) THEN Cardinality(TaskKeys(p)) - 1 ELSE Cardinality(TaskKeys(p))
      BY <2>2, FS_RemoveElement
    <3> QED  BY <2>2, <3>1, <3>2
  <2>4. Cardinality(CoreKeys(p))' = Cardinality(CoreKeys(p)) + n
    <3>1. CoreKeys(p)' = IF k.data = Press(p) THEN CoreKeys(p) \cup {w} ELSE CoreKeys(p)
      BY <1>2, <1>3 DEF CoreKeys
    <3>2. w \notin CoreKeys(p)
      BY <1>2 DEF CoreKeys
    <3>3. Cardinality(CoreKeys(p) \cup {w}) = Cardinality(CoreKeys(p)) + 1
      BY <2>2, <3>2, FS_AddElement
    <3> QED  BY <2>2, <3>1, <3>3
  <2>5. Cardinality(WireKeys(p))' = Cardinality(WireKeys(p)) + 0
    <3>1. WireKeys(p)' = WireKeys(p)
      BY <1>2 DEF WireKeys
    <3> QED  BY <2>2, <3>1
  <2>6. Times(chars, p)' = Times(chars, p) + 0 /\ Times(meant, p)' = Times(meant, p) + 0 + 0 + (0 - n) + n
    <3>1. Times(chars, p)' = Times(chars, p) /\ Times(meant, p)' = Times(meant, p)
      BY <1>2 DEF Times
    <3>2. Times(chars, p) \in Nat /\ Times(meant, p) \in Nat
      BY TimesLemma DEF KeyInv, KeyTypeOK, Chars
    <3> QED  BY <3>1, <3>2
  <2>7. TasksFresh /\ n \in Int /\ 0 - n \in Int /\ 0 \in Int
    BY DEF KeptInv
  <2> HIDE DEF n
  <2> QED  BY <2>1, <2>3, <2>4, <2>5, <2>6, <2>7, SumLemma
<1> QED  BY <1>6, <1>7

LEMMA DecodeKeyKeeps ==
  ASSUME KeyInv, KeptInv, NEW w \in Writers, DecodeKey(w)
  PROVE  KeptInv'
<1>0. PICK data : data = key[w].data
  OBVIOUS
<1> DEFINE types == data # E0 /\ ~termE0Key /\ ~data.up /\ data.code \in Plain
<1>1. /\ key[w].pc = "decode" /\ termE0Key' = (data = E0)
      /\ key' = [key EXCEPT ![w] = IF types THEN [@ EXCEPT !.pc = "type"] ELSE NoKey]
      /\ UNCHANGED <<wire, meant, isE0Key, count, scheduled, chars>>
  BY <1>0 DEF DecodeKey, keyboard
<1>2. /\ types => key'[w].pc = "type" /\ key'[w].data = data
      /\ ~types => key'[w].pc = "none"
      /\ \A u \in Writers \ {w} : key'[u] = key[u]
  BY <1>0, <1>1 DEF KeyInv, KeyTypeOK, NoKey
<1>3. TasksFresh'
  BY <1>1 DEF KeptInv, TasksFresh
<1>4. SUFFICES ASSUME count.extended = 0
               PROVE  SingleBytes' /\ \A p \in Plain : (Times(chars, p) + OnTheWay(p) = Times(meant, p))'
  BY <1>1, <1>3 DEF KeptInv, KeysKept
<1>5. SingleBytes /\ data # E0 /\ ~termE0Key
  BY <1>0, <1>1, <1>4 DEF KeptInv, SingleBytes
<1>6. SingleBytes'
  BY <1>1, <1>2, <1>5 DEF SingleBytes
<1>7. ASSUME NEW p \in Plain PROVE (Times(chars, p) + OnTheWay(p) = Times(meant, p))'
  <2>1. Times(chars, p) + OnTheWay(p) = Times(meant, p)
    BY <1>4 DEF KeptInv, KeysKept
  <2>2. data = Press(p) => types
    BY <1>5 DEF Press
  <2>3. CoreKeys(p)' = CoreKeys(p)
    BY <1>0, <1>1, <1>2, <2>2 DEF CoreKeys
  <2>4. TaskKeys(p)' = TaskKeys(p) /\ WireKeys(p)' = WireKeys(p)
    BY <1>1 DEF TaskKeys, WireKeys
  <2>5. OnTheWay(p)' = OnTheWay(p)
    BY <2>3, <2>4 DEF OnTheWay, CoreKeys, TaskKeys, WireKeys
  <2>6. Times(chars, p)' = Times(chars, p) /\ Times(meant, p)' = Times(meant, p)
    BY <1>1 DEF Times
  <2> QED  BY <2>1, <2>5, <2>6
<1> QED  BY <1>6, <1>7

LEMMA StoreKeyKeeps ==
  ASSUME KeyInv, KeptInv, NEW w \in Writers, StoreKey(w)
  PROVE  KeptInv'
<1> DEFINE data == key[w].data
<1>1. /\ wpc[w] = "store"
      /\ chars' = Append(chars, <<data.code, key[w].shift>>) /\ key' = [key EXCEPT ![w] = NoKey]
      /\ UNCHANGED <<wire, meant, isE0Key, count, scheduled, termE0Key>>
  BY DEF StoreKey, Store, keyboard
<1>2. key[w].pc = "type" /\ data \in PlainByte /\ ~data.up /\ key[w].shift \in BOOLEAN
  BY <1>1 DEF KeyInv, KeyTypeOK
<1>3. key'[w].pc = "none" /\ \A u \in Writers \ {w} : key'[u] = key[u]
  BY <1>1 DEF KeyInv, KeyTypeOK, NoKey
<1>4. TasksFresh'
  BY <1>1 DEF KeptInv, TasksFresh
<1>5. SUFFICES ASSUME count.extended = 0
               PROVE  SingleBytes' /\ \A p \in Plain : (Times(chars, p) + OnTheWay(p) = Times(meant, p))'
  BY <1>1, <1>4 DEF KeptInv, KeysKept
<1>6. SingleBytes'
  BY <1>1, <1>3, <1>5 DEF KeptInv, SingleBytes
<1>7. ASSUME NEW p \in Plain PROVE (Times(chars, p) + OnTheWay(p) = Times(meant, p))'
  <2> DEFINE n == IF data.code = p THEN 1 ELSE 0
  <2>1. Times(chars, p) + OnTheWay(p) = Times(meant, p)
    BY <1>5 DEF KeptInv, KeysKept
  <2>2. /\ IsFiniteSet(CoreKeys(p)) /\ Cardinality(CoreKeys(p)) \in Nat
        /\ Cardinality(TaskKeys(p)) \in Nat /\ Cardinality(WireKeys(p)) \in Nat
    BY KeySets DEF KeptInv
  <2>3. data = Press(p) <=> data.code = p
    BY <1>2, PressLemma, DataLemma
  <2>4. Cardinality(CoreKeys(p))' = Cardinality(CoreKeys(p)) + (0 - n)
    <3>1. CoreKeys(p)' = CoreKeys(p) \ {w} /\ (w \in CoreKeys(p) <=> data.code = p)
      BY <1>2, <1>3, <2>3 DEF CoreKeys
    <3>2. Cardinality(CoreKeys(p) \ {w}) =
            IF w \in CoreKeys(p) THEN Cardinality(CoreKeys(p)) - 1 ELSE Cardinality(CoreKeys(p))
      BY <2>2, FS_RemoveElement
    <3> QED  BY <2>2, <3>1, <3>2
  <2>5. /\ Cardinality(TaskKeys(p))' = Cardinality(TaskKeys(p)) + 0
        /\ Cardinality(WireKeys(p))' = Cardinality(WireKeys(p)) + 0
    <3>1. TaskKeys(p)' = TaskKeys(p) /\ WireKeys(p)' = WireKeys(p)
      BY <1>1 DEF TaskKeys, WireKeys
    <3> QED  BY <2>2, <3>1
  <2>6. Times(chars, p)' = Times(chars, p) + n
    <3>1. <<data.code, key[w].shift>> \in Plain \X BOOLEAN /\ chars \in Chars
      BY <1>2, DataLemma DEF KeyInv, KeyTypeOK, Chars
    <3>2. Times(Append(chars, <<data.code, key[w].shift>>), p) = Times(chars, p) + n
      BY <3>1, TimesLemma
    <3>3. Times(chars, p)' = Times(Append(chars, <<data.code, key[w].shift>>), p)
      BY <1>1 DEF Times
    <3> QED  BY <3>2, <3>3
  <2>7. Times(meant, p)' = Times(meant, p) + n + 0 + 0 + (0 - n)
    <3>1. Times(meant, p)' = Times(meant, p)
      BY <1>1 DEF Times
    <3>2. Times(meant, p) \in Nat
      BY TimesLemma DEF KeyInv, KeyTypeOK, Chars
    <3> QED  BY <3>1, <3>2
  <2>8. TasksFresh /\ n \in Int /\ 0 - n \in Int /\ 0 \in Int
    BY DEF KeptInv
  <2> HIDE DEF n
  <2> QED  BY <2>1, <2>4, <2>5, <2>6, <2>7, <2>8, SumLemma
<1> QED  BY <1>6, <1>7

LEMMA KeptStep == KeyInv /\ KeyInv' /\ KeptInv /\ [TerminalNext]_allVars => KeptInv'
<1> SUFFICES ASSUME KeyInv, KeyInv', KeptInv, [TerminalNext]_allVars PROVE KeptInv'
  OBVIOUS
<1>1. ASSUME UNCHANGED termVars PROVE KeptInv'
  <2>1. TasksFresh' /\ (SingleBytes => SingleBytes') /\ count' = count
    BY <1>1 DEF termVars, keyboard, KeptInv, TasksFresh, SingleBytes
  <2>2. KeysKept'
    BY <1>1 DEF termVars, keyboard, KeptInv, KeysKept, Times, OnTheWay
  <2> QED  BY <2>1, <2>2 DEF KeptInv
<1>2. CASE ReadLine \/ UNCHANGED allVars
  BY <1>1, <1>2 DEF ReadLine, allVars
<1>3. ASSUME NEW w \in Writers, TypeKey(w) PROVE KeptInv'
  BY <1>1, <1>3 DEF TypeKey
<1>4. ASSUME NEW w \in Writers, StartKey(w) \/ DecodeKey(w) \/ StoreKey(w) PROVE KeptInv'
  BY <1>4, StartKeyKeeps, DecodeKeyKeeps, StoreKeyKeeps
<1>5. CASE \E k \in Plain \cup Extended \cup {Shift}, up \in BOOLEAN : UseKey(k, up)
  BY <1>5, UseKeyKeeps
<1>6. CASE KeyboardEvent
  BY <1>6, KeyboardEventKeeps
<1> QED  BY <1>2, <1>3, <1>4, <1>5, <1>6 DEF TerminalNext

\* Each press of a plain key puts one character of that key into standard input, however
\* many key tasks there are at a time and in whatever order they run.
THEOREM TerminalKeepsKeys == TerminalSpec => []KeysKept
<1>1. TerminalInit => KeptInv
  BY KeptInitLemma
<1>2. KeyInv /\ KeyInv' /\ KeptInv /\ [TerminalNext]_allVars => KeptInv'
  BY KeptStep
<1>3. KeptInv => KeysKept
  BY DEF KeptInv
<1> QED  BY <1>1, <1>2, <1>3, KeyInvariant, PTL DEF TerminalSpec
==================================================================================
