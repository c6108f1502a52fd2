-------------------------------- MODULE SysMalloc --------------------------------
(***************************************************************************)
(* KeSysMalloc (src/lib/mem.cpp): memory for programs, files and stacks in *)
(* blocks of 1 MiB, first fit over a bitmap.  The bitmap is an array of    *)
(* 64-bit words.  The search reads every word once, and the blocks it has  *)
(* found are marked one bit after another, each with a read and a write of *)
(* the word.  There is no lock, so the steps of two callers interleave.    *)
(* Nothing is ever given back.                                             *)
(***************************************************************************)
EXTENDS Naturals

CONSTANTS
  Caller,     \* threads that call KeSysMalloc
  WordBits,   \* 64
  NWords,     \* words of the bitmap
  Reserved,   \* blocks that KeMain marks for the bitmap itself
  MaxBlocks   \* bound on the size of a request

ASSUME SysMallocAssumption ==
  /\ WordBits \in Nat \ {0} /\ NWords \in Nat /\ MaxBlocks \in Nat
  /\ Reserved \in 0 .. NWords * WordBits

Word == 0 .. NWords - 1
NBlocks == NWords * WordBits
Block == 0 .. NBlocks - 1

VARIABLES
  bitMap,    \* blocks whose bit is set
  call,      \* locals of the call each thread is in
  owners,    \* how many calls have returned the block
  raced      \* two calls have been under way at the same time

sysVars == <<bitMap, call, owners, raced>>

NoCall == [pc |-> "idle", n |-> 0, word |-> 0, found |-> 0, at |-> 0, set |-> 0, chunk |-> {}]

\* KeMain zeroes the bitmap and marks the blocks that hold it.
SysInit ==
  /\ bitMap = 0 .. Reserved - 1
  /\ call = [t \in Caller |-> NoCall]
  /\ owners = [b \in Block |-> 0]
  /\ raced = FALSE

\* The blocks that a call has found, and those of them that it has marked.
Region(c) == c.at .. c.at + c.n - 1
Marked(c) == c.at .. c.at + c.set - 1

Busy(t) == call[t].pc # "idle"

\* Word w stands for the blocks from Start(w) on.
Start(w) == w * WordBits
InWord(w) == Start(w) .. Start(w) + WordBits - 1
WordOf(b) == b \div WordBits
Content(w) == bitMap \cap InWord(w)

\* KeSysMalloc(Size) for a size that takes n blocks.
SysMalloc(t, n) ==
  /\ ~Busy(t)
  /\ call' = [call EXCEPT ![t] = [NoCall EXCEPT !.pc = "search", !.n = n]]
  /\ raced' = (raced \/ \E u \in Caller : Busy(u))
  /\ UNCHANGED <<bitMap, owners>>

\* Mutant of Fits: the search looks one bit beyond the word.
FitsBeyond(c, chunk, first) ==
  /\ first + c.n > Start(c.word)
  /\ first + c.n <= Start(c.word + 1) + 1
  /\ first + c.found >= Start(c.word)
  /\ (first .. first + c.n - 1) \cap chunk = {}

\* The n clear bits that the scan of a word ends with: first is the first of
\* them, the last lies in the word, and those before the word were counted in found.
Fits(c, chunk, first) ==
  /\ first + c.n > Start(c.word)
  /\ first + c.n <= Start(c.word + 1)
  /\ first + c.found >= Start(c.word)
  /\ (first .. first + c.n - 1) \cap chunk = {}

\* Mutant of Trailing: bits that are set do not end the run.
TrailingKept(c, chunk, k) == k = c.found + WordBits

\* Mutant of Trailing: every word starts a new run.
TrailingReset(c, chunk, k) == k = 0

\* k clear bits, and no more, precede the end of a word that has been scanned in vain.
Trailing(c, chunk, k) ==
  LET end == Start(c.word + 1)
  IN /\ (end - k .. end - 1) \cap chunk = {}
     /\ k < c.found + WordBits => end - k - 1 \in chunk

\* One word of the bitmap is read, and its bits are examined.
SearchHit(t, first) ==
  /\ call[t].pc = "search" /\ call[t].word < NWords
  /\ Fits(call[t], Content(call[t].word), first)
  /\ \A f \in Block : f < first => ~Fits(call[t], Content(call[t].word), f)
  /\ call' = [call EXCEPT ![t] = [NoCall EXCEPT !.pc = "load", !.n = call[t].n, !.at = first]]
  /\ UNCHANGED <<bitMap, owners, raced>>

SearchMiss(t) ==
  /\ call[t].pc = "search" /\ call[t].word < NWords
  /\ \A first \in Block : ~Fits(call[t], Content(call[t].word), first)
  /\ \E k \in 0 .. call[t].found + WordBits :
       /\ Trailing(call[t], Content(call[t].word), k)
       /\ call' = [call EXCEPT ![t].word = @ + 1, ![t].found = k]
  /\ UNCHANGED <<bitMap, owners, raced>>

\* KeSysMalloc returns nullptr.
SearchFail(t) ==
  /\ call[t].pc = "search" /\ call[t].word >= NWords
  /\ call' = [call EXCEPT ![t] = NoCall]
  /\ UNCHANGED <<bitMap, owners, raced>>

\* KeSysMemBitmapSet: "*BitMapIter |= Mask" reads the word ...
LoadWord(t) ==
  /\ call[t].pc = "load"
  /\ call' = [call EXCEPT ![t].pc = "store",
                          ![t].chunk = Content(WordOf(call[t].at + call[t].set))]
  /\ UNCHANGED <<bitMap, owners, raced>>

\* Mutant of StoreWord: the mask is shifted one bit too far.
StoreNextBit(t) ==
  /\ call[t].pc = "store"
  /\ LET c == call[t]
         b == c.at + c.set
     IN /\ bitMap' = (bitMap \ InWord(WordOf(b))) \cup c.chunk
                       \cup (InWord(WordOf(b)) \cap {b + 1})
        /\ IF c.set + 1 < c.n
           THEN /\ call' = [call EXCEPT ![t].pc = "load", ![t].set = @ + 1, ![t].chunk = {}]
                /\ UNCHANGED owners
           ELSE /\ call' = [call EXCEPT ![t] = NoCall]
                /\ owners' = [k \in Block |-> IF k \in Region(c) THEN owners[k] + 1 ELSE owners[k]]
  /\ UNCHANGED raced

\* ... and writes it back with one more bit; after the last bit the call returns.
StoreWord(t) ==
  /\ call[t].pc = "store"
  /\ LET c == call[t]
         b == c.at + c.set
     IN /\ bitMap' = (bitMap \ InWord(WordOf(b))) \cup c.chunk \cup {b}
        /\ IF c.set + 1 < c.n
           THEN /\ call' = [call EXCEPT ![t].pc = "load", ![t].set = @ + 1, ![t].chunk = {}]
                /\ UNCHANGED owners
           ELSE /\ call' = [call EXCEPT ![t] = NoCall]
                /\ owners' = [k \in Block |-> IF k \in Region(c) THEN owners[k] + 1 ELSE owners[k]]
  /\ UNCHANGED raced

SysStep(t) ==
  \/ \E first \in Block : SearchHit(t, first)
  \/ SearchMiss(t) \/ SearchFail(t) \/ LoadWord(t) \/ StoreWord(t)

SysNext == \E t \in Caller : SysStep(t) \/ \E n \in 1 .. MaxBlocks : SysMalloc(t, n)

SysSpec == SysInit /\ [][SysNext]_sysVars
--------------------------------------------------------------------------------
Marking(t) == call[t].pc \in {"load", "store"}

CallType ==
  [pc : {"idle", "search", "load", "store"}, n : 0 .. MaxBlocks, word : 0 .. NWords,
   found : Nat, at : Nat, set : Nat, chunk : SUBSET Block]

\* The variables keep their types.
SysTypeOK ==
  /\ bitMap \in SUBSET Block
  /\ owners \in [Block -> Nat]
  /\ raced \in BOOLEAN
  /\ call \in [Caller -> CallType]

\* KeSysMalloc has no lock.  As long as no two calls have been under way at the same
\* time, no block belongs to two callers or holds the bitmap.
GrantsDisjoint ==
  ~raced => \A b \in Block : owners[b] <= (IF b < Reserved THEN 0 ELSE 1)

\* Whatever calls run at the same time: a bit that is set belongs to the bitmap, to
\* a caller or to a call that is marking it, so no block is lost.
NoBlockLost ==
  \A b \in bitMap : \/ b < Reserved \/ owners[b] > 0
                    \/ \E t \in Caller : Marking(t) /\ b \in Marked(call[t])

\* Whether n blocks in a row are free, read off the bitmap as a whole.
FreeRun(n) == \E first \in Block : /\ first + n <= NBlocks
                                  /\ (first .. first + n - 1) \cap bitMap = {}

\* KeSysMalloc reads the bitmap word by word and carries what it has found from one
\* word to the next.  A call that had the bitmap for itself returns nullptr only when
\* there is no run of free blocks that is long enough.
FailsOnlyWhenFull ==
  ~raced => \A t \in Caller :
    call[t].pc = "search" /\ call[t].word = NWords => ~FreeRun(call[t].n)
================================================================================
