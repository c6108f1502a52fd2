--------------------------------- MODULE Stdin ---------------------------------
(***************************************************************************)
(* Standard input of a process (src/lib/io.cpp): a ring buffer that        *)
(* keyboard-event tasks fill with putchar and the reader drains with       *)
(* scanLine.  A reader that finds the buffer empty publishes its handle in *)
(* taskResumeHandle and suspends itself; putchar resumes the task whose    *)
(* handle it finds there.                                                  *)
(*                                                                         *)
(* Of the scheduler only what happens to the reader is kept (see           *)
(* Scheduler.tla): the flag "ended" that a suspension sets, whether the    *)
(* reader is on the active list of its core, and how often it is queued.   *)
(* The writers run on other cores.                                         *)
(***************************************************************************)
EXTENDS Naturals, Sequences

CONSTANTS
  Writers,   \* keyboard-event tasks that write to stdin
  Reader,
  Free,      \* LOCK_STATUS_FREE
  Size,      \* STDOUT_DEFAULT_SIZE
  MaxChars   \* bound on the characters written

ASSUME StdinAssumption == /\ Size \in Nat \ {0} /\ MaxChars \in Nat
                          /\ Reader \notin Writers /\ Free \notin Writers \cup {Reader}

VARIABLES
  pData, offset, readOffset, originOffset,  \* *pStdin
  lock,               \* pStdin->lock, with its owner
  taskResumeHandle,   \* TRUE when it is the reader's handle, FALSE when 0
  ended, listed,      \* the reader's Task::ended; on the active list
  queued,             \* entries of the reader in the priority queue
  rpc,                \* where the reader is in scanLine
  wpc,                \* where a writer is in putchar
  sent, received,     \* characters stored so far, and read so far
  kept,               \* the characters stored that no lap has lost, and the zeros of empty scans
  lapped,             \* the writers have filled the buffer and caught up with the reader
  fault               \* the reader was pushed on a list it was on, or handle 0 was resumed

ring == <<pData, offset, readOffset, originOffset, sent, received, kept, lapped>>
task == <<ended, listed, queued, fault>>
vars == <<ring, lock, taskResumeHandle, task, rpc, wpc>>

StdinInit ==
  /\ pData = [i \in 0 .. Size - 1 |-> 0]
  /\ offset = 0 /\ readOffset = 0 /\ originOffset = 0
  /\ lock = Free
  /\ taskResumeHandle = FALSE
  /\ ended = FALSE /\ listed = TRUE /\ queued = 0
  /\ rpc = "test"
  /\ wpc = [w \in Writers |-> "idle"]
  /\ sent = <<>> /\ received = <<>> /\ kept = <<>> /\ lapped = FALSE
  /\ fault = FALSE

stdinFlushed == readOffset = offset

--------------------------------------------------------------------------------
(* The scheduler of the reader's core: Tick                                *)

Reap ==
  /\ ~fault /\ listed /\ ended
  /\ listed' = FALSE
  /\ UNCHANGED <<ring, lock, taskResumeHandle, ended, queued, fault, rpc, wpc>>

Activate ==
  /\ ~fault /\ queued > 0
  /\ listed => ~ended           \* Tick reaps before it dequeues
  /\ queued' = queued - 1
  /\ listed' = TRUE
  /\ fault' = listed
  /\ UNCHANGED <<ring, lock, taskResumeHandle, ended, rpc, wpc>>

--------------------------------------------------------------------------------
(* scanLine; the two short critical sections are one step each             *)

Step(from) == ~fault /\ listed /\ rpc = from

TestFlushed ==
  /\ Step("test") /\ lock = Free
  /\ rpc' = IF stdinFlushed THEN "mark" ELSE "scan"
  /\ UNCHANGED <<ring, lock, taskResumeHandle, task, wpc>>

MarkHandle ==
  /\ Step("mark")
  /\ taskResumeHandle' = TRUE
  /\ rpc' = "suspend"
  /\ UNCHANGED <<ring, lock, task, wpc>>

\* KeSuspendCurrentTask up to its loop.
SuspendReader ==
  /\ Step("suspend")
  /\ ended' = TRUE
  /\ rpc' = "park"
  /\ UNCHANGED <<ring, lock, taskResumeHandle, listed, queued, fault, wpc>>

\* Mutant of WakeReader: the reader does not wait to be resumed.
WakeReaderEarly ==
  /\ Step("park")
  /\ rpc' = "clear"
  /\ UNCHANGED <<ring, lock, taskResumeHandle, task, wpc>>

\* The loop of KeSuspendCurrentTask ends.
WakeReader ==
  /\ Step("park") /\ ~ended
  /\ rpc' = "clear"
  /\ UNCHANGED <<ring, lock, taskResumeHandle, task, wpc>>

ClearHandle ==
  /\ Step("clear")
  /\ taskResumeHandle' = FALSE
  /\ rpc' = "scan"
  /\ UNCHANGED <<ring, lock, task, wpc>>

\* scanchar; it returns 0, which scanLine stores as well, when there is nothing.
ScanChar ==
  /\ Step("scan") /\ lock = Free
  /\ received' = Append(received, IF stdinFlushed THEN 0 ELSE pData[readOffset])
  /\ kept' = IF stdinFlushed THEN Append(kept, 0) ELSE kept
  /\ readOffset' = IF stdinFlushed THEN readOffset ELSE (readOffset + 1) % Size
  /\ rpc' = "test"
  /\ UNCHANGED <<pData, offset, originOffset, sent, lapped, lock, taskResumeHandle, task, wpc>>

ReaderStep ==
  TestFlushed \/ MarkHandle \/ SuspendReader \/ WakeReader \/ ClearHandle \/ ScanChar

--------------------------------------------------------------------------------
(* putchar to stdin                                                        *)

Lock(w) ==
  /\ ~fault /\ wpc[w] = "idle"
  /\ Len(sent) < MaxChars
  /\ lock = Free
  /\ lock' = w
  /\ wpc' = [wpc EXCEPT ![w] = IF taskResumeHandle THEN "query" ELSE "store"]
  /\ UNCHANGED <<ring, taskResumeHandle, task, rpc>>

\* KeQueryTask finds no task for handle 0, and the loop goes round.
QueryTask(w) ==
  /\ ~fault /\ wpc[w] = "query"
  /\ taskResumeHandle
  /\ wpc' = [wpc EXCEPT ![w] = "check"]
  /\ UNCHANGED <<ring, lock, taskResumeHandle, task, rpc>>

CheckHandle(w) ==
  /\ ~fault /\ wpc[w] = "check"
  /\ wpc' = [wpc EXCEPT ![w] = IF taskResumeHandle THEN "resume" ELSE "store"]
  /\ UNCHANGED <<ring, lock, taskResumeHandle, task, rpc>>

\* KeResumeTask(taskResumeHandle, 0) reads the handle once more.  If the reader has
\* cleared it by now, no scheduler has the task, and the null one is used.
ResumeReader(w) ==
  /\ ~fault /\ wpc[w] = "resume"
  /\ \/ /\ taskResumeHandle
        /\ ended' = FALSE
        /\ queued' = queued + 1
        /\ wpc' = [wpc EXCEPT ![w] = "store"]
        /\ UNCHANGED fault
     \/ /\ ~taskResumeHandle
        /\ fault' = TRUE
        /\ UNCHANGED <<ended, queued, wpc>>
  /\ UNCHANGED <<ring, lock, taskResumeHandle, listed, rpc>>

Store(w) ==
  /\ ~fault /\ wpc[w] = "store"
  /\ LET c == Len(sent) + 1
         next == (offset + 1) % Size
     IN /\ pData' = [pData EXCEPT ![offset] = c]
        /\ sent' = Append(sent, c)
        /\ offset' = next
        /\ originOffset' = IF next = originOffset THEN (originOffset + 1) % Size ELSE originOffset
        /\ lapped' = (lapped \/ next = readOffset)
        /\ kept' = IF next = readOffset THEN received ELSE Append(kept, c)
  /\ lock' = Free
  /\ wpc' = [wpc EXCEPT ![w] = "idle"]
  /\ UNCHANGED <<readOffset, received, taskResumeHandle, task, rpc>>

WriterStep(w) == QueryTask(w) \/ CheckHandle(w) \/ ResumeReader(w) \/ Store(w)

StdinNext ==
  \/ Reap \/ Activate \/ ReaderStep
  \/ \E w \in Writers : Lock(w) \/ WriterStep(w)

StdinSpec == StdinInit /\ [][StdinNext]_vars

\* The timer ticks, and tasks that can go on do; nothing forces a key press.
StdinFairSpec ==
  /\ StdinSpec
  /\ WF_vars(Reap) /\ WF_vars(Activate) /\ SF_vars(ReaderStep)
  /\ \A w \in Writers : WF_vars(WriterStep(w))

--------------------------------------------------------------------------------
\* The variables keep their types.
StdinTypeOK ==
  /\ pData \in [0 .. Size - 1 -> 0 .. MaxChars]
  /\ {offset, readOffset, originOffset} \subseteq 0 .. Size - 1
  /\ lock \in Writers \cup {Free}
  /\ {taskResumeHandle, ended, listed, lapped, fault} \subseteq BOOLEAN
  /\ queued \in Nat
  /\ rpc \in {"test", "mark", "suspend", "park", "clear", "scan"}
  /\ wpc \in [Writers -> {"idle", "query", "check", "resume", "store"}]
  /\ sent \in Seq(1 .. MaxChars)
  /\ received \in Seq(0 .. MaxChars) /\ kept \in Seq(0 .. MaxChars)

\* The reader lets go of the lock between the test and the scan, may be woken twice, and
\* is not told when there is nothing to scan.  What it has got and what is between the
\* offsets is what was typed, in order: writers that catch up with it take all that it
\* had not read, and nothing else.  As long as they do not, nothing is lost, and it does
\* not get the zero of an empty scan (putchar, scanchar and scanLine).
Unread == [i \in 1 .. (offset + Size - readOffset) % Size |-> pData[(readOffset + i - 1) % Size]]
InOrder == kept = received \o Unread /\ (~lapped => kept = sent)

\* io.cpp:126: putchar must "wake scanf() from sleep if it's waiting for input".
\* So a reader does not sleep for ever next to a character, unless the
\* kernel has failed.
SleeperWoken == rpc = "park" /\ ~stdinFlushed ~> rpc # "park" \/ fault
================================================================================
