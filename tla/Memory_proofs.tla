------------------------------ MODULE Memory_proofs ------------------------------
(***************************************************************************)
(* KeSysMalloc for bitmaps of any size and any number of callers: no block *)
(* is lost whatever calls overlap in time; as long as none do, no block is *)
(* granted twice and a call fails only when there is no room.              *)
(* What KeSysMalloc guarantees to any callers it guarantees to the kernel  *)
(* and the window manager while the system starts, for memory maps, page   *)
(* tables and requests of any size: every step of BootMemory is a step of  *)
(* SysMalloc or leaves the bitmap and the calls alone.  It never overlaps  *)
(* with the pages that kePhysAlloc takes: KeSysMalloc leaves no holes, so  *)
(* it stays within what was asked for, and kePhysAlloc never gets as far   *)
(* as the largest region.  The tables that keMapMemory makes are described *)
(* level by level, by the digits of the number of pages to the base Radix: *)
(* what the processor reads in them is the identity on these pages.        *)
(***************************************************************************)
EXTENDS BootMemory, SequenceTheorems, FiniteSetTheorems, WellFoundedInduction, TLAPS

\* A block whose bit may be set.
Accounted(b) ==
  \/ b < Reserved \/ owners[b] > 0
  \/ \E t \in Caller : Marking(t) /\ b \in Marked(call[t])

\* Bits that are set, or that a call is about to write back, are accounted for.
NothingLost ==
  /\ \A b \in bitMap : Accounted(b)
  /\ \A t \in Caller : call[t].pc = "store" => \A b \in call[t].chunk : Accounted(b)

\* The locals of a call.
CallShape ==
  \A t \in Caller :
    /\ Busy(t) => call[t].n > 0
    /\ Marking(t) => call[t].set < call[t].n /\ call[t].at + call[t].n <= NBlocks
    /\ call[t].pc = "search" => call[t].found <= Start(call[t].word)

OneCall == \A t, u \in Caller : Busy(t) /\ Busy(u) => t = u

\* Without races a block that is in use has its bit set, and the bits of a word do
\* not change between LoadWord and StoreWord.
UsedIsMarked == \A b \in Block : b < Reserved \/ owners[b] > 0 => b \in bitMap

\* What a search has found is free, is as long as it can be, and nothing before it
\* is long enough.
SearchExact ==
  \A t \in Caller : call[t].pc = "search" =>
    LET c == call[t]
        end == Start(c.word)
    IN /\ (end - c.found .. end - 1) \cap bitMap = {}
       /\ c.found < end => end - c.found - 1 \in bitMap
       /\ \A first \in Nat : first + c.n <= end => (first .. first + c.n - 1) \cap bitMap # {}

\* The region that a call marks was free when it was found.
RegionFree ==
  \A t \in Caller : Marking(t) =>
    LET c == call[t]
    IN /\ \A b \in Region(c) : b >= Reserved /\ owners[b] = 0
       /\ (c.at + c.set .. c.at + c.n - 1) \cap bitMap = {}
       /\ Marked(c) \subseteq bitMap
       /\ c.pc = "store" => c.chunk = Content(WordOf(c.at + c.set))

Serial == OneCall /\ UsedIsMarked /\ SearchExact /\ RegionFree /\
          \A b \in Block : owners[b] <= (IF b < Reserved THEN 0 ELSE 1)

SysInv == SysTypeOK /\ CallShape /\ NothingLost /\ (~raced => Serial)

--------------------------------------------------------------------------------
(* Words and blocks                                                        *)

LEMMA Words ==
  /\ NBlocks \in Nat /\ Start(0) = 0 /\ Start(NWords) = NBlocks
  /\ \A w \in Nat : Start(w) \in Nat /\ Start(w + 1) = Start(w) + WordBits
  /\ \A w \in Nat : w < NWords => Start(w) + WordBits <= NBlocks
<1>1. NBlocks \in Nat /\ Start(0) = 0 /\ Start(NWords) = NBlocks
  BY SysMallocAssumption DEF Start, NBlocks
<1>2. \A w \in Nat : Start(w) \in Nat /\ Start(w + 1) = Start(w) + WordBits
  BY SysMallocAssumption DEF Start
<1>3. \A w \in Nat : w < NWords => Start(w) + WordBits <= NBlocks
  BY SysMallocAssumption DEF Start, NBlocks
<1> QED  BY <1>1, <1>2, <1>3

LEMMA BlockInWord == \A b \in Block : WordOf(b) \in Word /\ b \in InWord(WordOf(b))
  BY SysMallocAssumption DEF Start, NBlocks, WordOf, InWord, Word, Block

LEMMA NewCallType ==
  /\ NoCall \in CallType
  /\ \A n \in 0 .. MaxBlocks : [NoCall EXCEPT !.pc = "search", !.n = n] \in CallType
  /\ \A n \in 0 .. MaxBlocks, a \in Nat :
       [NoCall EXCEPT !.pc = "load", !.n = n, !.at = a] \in CallType
<1>1. NoCall \in CallType
  BY SysMallocAssumption DEF NoCall, CallType
<1>2. ASSUME NEW n \in 0 .. MaxBlocks PROVE [NoCall EXCEPT !.pc = "search", !.n = n] \in CallType
  <2> DEFINE r == [NoCall EXCEPT !.pc = "search"]
  <2>1. r \in CallType
    BY <1>1 DEF CallType
  <2> HIDE DEF r
  <2>2. [r EXCEPT !.n = n] \in CallType
    BY <2>1 DEF CallType
  <2> QED  BY <2>2 DEF r
<1>3. ASSUME NEW n \in 0 .. MaxBlocks, NEW a \in Nat
      PROVE  [NoCall EXCEPT !.pc = "load", !.n = n, !.at = a] \in CallType
  <2> DEFINE r == [NoCall EXCEPT !.pc = "load"]
             q == [r EXCEPT !.n = n]
  <2>1. r \in CallType
    BY <1>1 DEF CallType
  <2> HIDE DEF r
  <2>2. q \in CallType
    BY <2>1 DEF CallType
  <2> HIDE DEF q
  <2>3. [q EXCEPT !.at = a] \in CallType
    BY <2>2 DEF CallType
  <2> QED  BY <2>3 DEF q, r
<1> QED  BY <1>1, <1>2, <1>3

--------------------------------------------------------------------------------
LEMMA InitLemma == SysInit => SysInv
<1> SUFFICES ASSUME SysInit PROVE SysInv
  OBVIOUS
<1> USE DEF SysInit
<1>1. SysTypeOK
  <2>1. 0 .. Reserved - 1 \subseteq Block
    BY SysMallocAssumption DEF Block, NBlocks
  <2> QED  BY <2>1, NewCallType DEF SysTypeOK
<1>2. \A t \in Caller : call[t].pc = "idle"
  BY DEF NoCall
<1>3. CallShape /\ NothingLost /\ OneCall /\ SearchExact /\ RegionFree
  BY <1>2, SysMallocAssumption DEF CallShape, NothingLost, Accounted, OneCall, SearchExact, RegionFree, Busy, Marking
<1>4. UsedIsMarked /\ \A b \in Block : owners[b] <= (IF b < Reserved THEN 0 ELSE 1)
  BY SysMallocAssumption, Words DEF UsedIsMarked, Block
<1> QED  BY <1>1, <1>3, <1>4 DEF SysInv, Serial

LEMMA SysMallocLemma ==
  ASSUME SysInv, NEW t \in Caller, NEW n \in 1 .. MaxBlocks, SysMalloc(t, n)
  PROVE  SysInv'
<1> USE DEF SysInv
<1>a. /\ call[t].pc = "idle" /\ call' = [call EXCEPT ![t] = [NoCall EXCEPT !.pc = "search", !.n = n]]
      /\ UNCHANGED <<bitMap, owners>> /\ raced' = (raced \/ \E u \in Caller : Busy(u))
  BY DEF SysMalloc, Busy
<1>1. SysTypeOK'
  <2>1. n \in 0 .. MaxBlocks
    BY SysMallocAssumption
  <2>2. [NoCall EXCEPT !.pc = "search", !.n = n] \in CallType
    BY <2>1, NewCallType
  <2> QED  BY <1>a, <2>2 DEF SysTypeOK
<1>b. \A u \in Caller \ {t} : call'[u] = call[u]
  BY <1>a DEF SysTypeOK
<1>c. /\ call'[t].pc = "search" /\ call'[t].n = n /\ call'[t].word = 0 /\ call'[t].found = 0
  BY <1>a DEF SysTypeOK, NoCall
<1>2. CallShape'
  BY <1>a, <1>b, <1>c, Words DEF CallShape, Busy, Marking
<1>3. NothingLost'
  BY <1>a, <1>b, <1>c DEF NothingLost, Accounted, Marking, Marked
<1>4. ASSUME ~raced' PROVE Serial'
  <2>1. ~raced /\ \A u \in Caller : ~Busy(u)
    BY <1>a, <1>4
  <2>2. \A u \in Caller : Busy(u)' => u = t
    BY <2>1, <1>b DEF Busy
  <2>3. OneCall' /\ UsedIsMarked'
    BY <2>1, <2>2, <1>a DEF OneCall, UsedIsMarked, Serial
  <2>4. SearchExact'
    BY <2>2, <1>c, <1>a, Words DEF SearchExact, Busy
  <2>5. RegionFree'
    BY <2>2, <1>c DEF RegionFree, Busy, Marking
  <2> QED  BY <2>1, <2>3, <2>4, <2>5, <1>a DEF Serial
<1> QED  BY <1>1, <1>2, <1>3, <1>4

--------------------------------------------------------------------------------
(* A step of a call that is under way: whatever it does, the other calls keep their *)
(* locals, and without races there are no other calls.                     *)

LEMMA AloneLemma ==
  ASSUME SysInv, NEW t \in Caller, Busy(t), ~raced
  PROVE  \A u \in Caller \ {t} : call[u].pc = "idle"
  BY DEF SysInv, Serial, OneCall, Busy

LEMMA SearchHitLemma ==
  ASSUME SysInv, NEW t \in Caller, NEW first \in Block, SearchHit(t, first)
  PROVE  SysInv'
<1> USE DEF SysInv
<1> DEFINE c == call[t]
<1>a. /\ c.pc = "search" /\ c.word < NWords
      /\ call' = [call EXCEPT ![t] = [NoCall EXCEPT !.pc = "load", !.n = c.n, !.at = first]]
      /\ UNCHANGED <<bitMap, owners, raced>>
  BY DEF SearchHit
<1>b. /\ first + c.n > Start(c.word) /\ first + c.n <= Start(c.word + 1)
      /\ first + c.found >= Start(c.word)
      /\ (first .. first + c.n - 1) \cap Content(c.word) = {}
  BY DEF SearchHit, Fits
<1>t. c \in CallType /\ first \in Nat
  BY SysMallocAssumption, Words DEF SysTypeOK, CallType, Block
<1>1. SysTypeOK'
  <2>1. c.n \in 0 .. MaxBlocks
    BY <1>t DEF CallType
  <2> QED  BY <1>a, <1>t, <2>1, NewCallType DEF SysTypeOK
<1>c. \A u \in Caller \ {t} : call'[u] = call[u]
  BY <1>a DEF SysTypeOK
<1>d. call'[t].pc = "load" /\ call'[t].n = c.n /\ call'[t].at = first /\ call'[t].set = 0
  BY <1>a DEF SysTypeOK, NoCall
<1>e. c.n > 0 /\ c.n \in Nat /\ first + c.n <= NBlocks
  BY <1>a, <1>b, <1>t, Words, SysMallocAssumption DEF CallShape, Busy, CallType
<1>2. CallShape'
  BY <1>c, <1>d, <1>e DEF CallShape, Busy, Marking
<1>3. NothingLost'
  <2>1. \A b : Accounted(b) => Accounted(b)'
    BY <1>a, <1>c DEF Accounted, Marking, Marked
  <2> QED  BY <2>1, <1>a, <1>c, <1>d DEF NothingLost
<1>4. ASSUME ~raced' PROVE Serial'
  <2>1. ~raced /\ \A u \in Caller \ {t} : call'[u].pc = "idle"
    BY <1>4, <1>a, <1>c, AloneLemma DEF Busy
  <2>2. Serial
    BY <2>1
  <2>3. (first .. first + c.n - 1) \cap bitMap = {}
    <3>1. (Start(c.word) - c.found .. Start(c.word) - 1) \cap bitMap = {}
      BY <2>2, <1>a DEF Serial, SearchExact
    <3>2. ASSUME NEW b \in first .. first + c.n - 1 PROVE b \notin bitMap
      <4>1. CASE b >= Start(c.word)
        <5>1. b \in InWord(c.word)
          BY <4>1, <1>b, <1>e, <1>t, Words, SysMallocAssumption DEF InWord, CallType
        <5> QED  BY <5>1, <1>b DEF Content
      <4>2. CASE b < Start(c.word)
        <5>1. b \in Start(c.word) - c.found .. Start(c.word) - 1
          BY <4>2, <1>b, <1>t, Words DEF CallType
        <5> QED  BY <5>1, <3>1
      <4> QED  BY <4>1, <4>2, <1>t, Words DEF CallType
    <3> QED  BY <3>2
  <2>4. OneCall' /\ UsedIsMarked' /\ SearchExact'
    BY <2>1, <2>2, <1>a, <1>d DEF Serial, OneCall, UsedIsMarked, SearchExact, Busy
  <2>5. Region(call'[t]) = first .. first + c.n - 1
    BY <1>d DEF Region
  <2>6. \A b \in first .. first + c.n - 1 : b \in Block /\ b >= Reserved /\ owners[b] = 0
    <3> TAKE b \in first .. first + c.n - 1
    <3>1. b \in Block
      BY <1>e, <1>t, Words DEF Block
    <3> QED  BY <3>1, <2>2, <2>3, SysMallocAssumption DEF Serial, UsedIsMarked, SysTypeOK, Block
  <2>7. RegionFree'
    <3>1. Marked(call'[t]) = {}
      BY <1>d, <1>t DEF Marked
    <3>2. (call'[t].at + call'[t].set .. call'[t].at + call'[t].n - 1) \cap bitMap = {}
      BY <2>3, <1>d, <1>t
    <3> QED  BY <2>1, <2>5, <2>6, <3>1, <3>2, <1>a, <1>d DEF RegionFree, Marking
  <2> QED  BY <2>2, <2>4, <2>7, <1>a DEF Serial
<1> QED  BY <1>1, <1>2, <1>3, <1>4

LEMMA SearchMissLemma ==
  ASSUME SysInv, NEW t \in Caller, SearchMiss(t)
  PROVE  SysInv'
<1> USE DEF SysInv
<1> DEFINE c == call[t]
           end == Start(c.word + 1)
<1>1. PICK k \in 0 .. c.found + WordBits :
        /\ Trailing(c, Content(c.word), k)
        /\ call' = [call EXCEPT ![t].word = @ + 1, ![t].found = k]
  BY DEF SearchMiss
<1>2. /\ c.pc = "search" /\ c.word < NWords /\ UNCHANGED <<bitMap, owners, raced>>
      /\ \A first \in Block : ~Fits(c, Content(c.word), first)
  BY DEF SearchMiss
<1>3. /\ c.n \in Nat \ {0} /\ c.word \in Nat /\ c.found \in Nat /\ c.found <= Start(c.word)
      /\ Start(c.word) \in Nat /\ end = Start(c.word) + WordBits /\ end <= NBlocks /\ k \in Nat
      /\ WordBits \in Nat \ {0} /\ NBlocks \in Nat
  <2>1. /\ c.n \in Nat \ {0} /\ c.word \in Nat /\ c.found \in Nat /\ c.found <= Start(c.word)
    BY <1>2, SysMallocAssumption DEF SysTypeOK, CallType, CallShape, Busy
  <2>2. Start(c.word) \in Nat /\ end = Start(c.word) + WordBits /\ end <= NBlocks
    BY <2>1, <1>2, Words
  <2> QED  BY <2>1, <2>2, Words, SysMallocAssumption
<1> DEFINE d == [c EXCEPT !.word = @ + 1, !.found = k]
<1>4. call' = [call EXCEPT ![t] = d] /\ d \in CallType
  <2> DEFINE e == [c EXCEPT !.word = @ + 1]
  <2>1. e \in CallType
    BY <1>2, <1>3, SysMallocAssumption DEF SysTypeOK, CallType
  <2> HIDE DEF e
  <2>2. [e EXCEPT !.found = k] \in CallType
    BY <2>1, <1>3 DEF CallType
  <2> QED  BY <2>2, <1>1 DEF e
<1>5. d.pc = "search" /\ d.n = c.n /\ d.word = c.word + 1 /\ d.found = k
  BY <1>2 DEF SysTypeOK, CallType
<1> HIDE DEF d
<1>6. \A u \in Caller \ {t} : call'[u] = call[u]
  BY <1>4 DEF SysTypeOK
<1>7. call'[t] = d
  BY <1>4 DEF SysTypeOK
<1>a. SysTypeOK'
  BY <1>2, <1>4 DEF SysTypeOK
<1>b. CallShape'
  BY <1>3, <1>5, <1>6, <1>7 DEF CallShape, Busy, Marking
<1>c. NothingLost'
  <2>1. \A b : Accounted(b) => Accounted(b)'
    BY <1>2, <1>6 DEF Accounted, Marking, Marked
  <2> QED  BY <2>1, <1>2, <1>5, <1>6, <1>7 DEF NothingLost
<1>d. ASSUME ~raced' PROVE Serial'
  <2>1. Serial /\ \A u \in Caller \ {t} : call'[u].pc = "idle"
    BY <1>d, <1>2, <1>6, AloneLemma DEF Busy
  <2>2. OneCall' /\ UsedIsMarked' /\ RegionFree'
    BY <2>1, <1>2, <1>5, <1>7 DEF Serial, OneCall, UsedIsMarked, RegionFree, Busy, Marking
  <2>3. /\ \A b \in Start(c.word) - c.found .. Start(c.word) - 1 : b \notin bitMap
        /\ c.found < Start(c.word) => Start(c.word) - c.found - 1 \in bitMap
        /\ \A first \in Nat : first + c.n <= Start(c.word) =>
             (first .. first + c.n - 1) \cap bitMap # {}
    BY <2>1, <1>2 DEF Serial, SearchExact
  <2>4. /\ \A b \in end - k .. end - 1 : b \in bitMap => b \notin InWord(c.word)
        /\ k < c.found + WordBits => end - k - 1 \in bitMap /\ end - k - 1 >= Start(c.word)
    BY <1>1, <1>3 DEF Trailing, Content, InWord
  <2>5. ASSUME NEW b \in end - k .. end - 1 PROVE b \notin bitMap
    <3>1. CASE b >= Start(c.word)
      BY <3>1, <2>4, <1>3 DEF InWord
    <3>2. CASE b < Start(c.word)
      <4>1. b \in Start(c.word) - c.found .. Start(c.word) - 1
        BY <3>2, <2>4, <1>3
      <4> QED  BY <4>1, <2>3
    <3> QED  BY <3>1, <3>2, <1>3
  <2>6. ASSUME k < end PROVE end - k - 1 \in bitMap
    <3>1. CASE k < c.found + WordBits
      BY <3>1, <2>4
    <3>2. CASE k = c.found + WordBits
      <4>1. c.found < Start(c.word) /\ end - k - 1 = Start(c.word) - c.found - 1
        BY <3>2, <2>6, <1>3
      <4> QED  BY <4>1, <2>3
    <3> QED  BY <3>1, <3>2, <1>3
  <2>7. ASSUME NEW first \in Nat, first + c.n <= end
        PROVE  (first .. first + c.n - 1) \cap bitMap # {}
    <3>1. CASE first + c.n <= Start(c.word)
      BY <3>1, <2>3
    <3>2. CASE first + c.n > Start(c.word) /\ first + c.found >= Start(c.word)
      <4>1. first \in Block
        BY <2>7, <1>3 DEF Block
      <4>2. (first .. first + c.n - 1) \cap Content(c.word) # {}
        BY <4>1, <3>2, <2>7, <1>2 DEF Fits
      <4> QED  BY <4>2 DEF Content
    <3>3. CASE first + c.n > Start(c.word) /\ first + c.found < Start(c.word)
      <4> DEFINE b == Start(c.word) - c.found - 1
      <4>1. b \in bitMap
        BY <3>3, <2>3, <1>3
      <4>2. b \in first .. first + c.n - 1
        BY <3>3, <1>3
      <4> QED  BY <4>1, <4>2
    <3> QED  BY <3>1, <3>2, <3>3, <1>3
  <2>8. SearchExact'
    BY <2>1, <2>5, <2>6, <2>7, <1>2, <1>5, <1>7 DEF SearchExact
  <2> QED  BY <2>1, <2>2, <2>8, <1>2 DEF Serial
<1> QED  BY <1>a, <1>b, <1>c, <1>d

LEMMA SearchFailLemma ==
  ASSUME SysInv, NEW t \in Caller, SearchFail(t)
  PROVE  SysInv'
<1> USE DEF SysInv
<1>1. /\ call[t].pc = "search" /\ call' = [call EXCEPT ![t] = NoCall]
      /\ UNCHANGED <<bitMap, owners, raced>>
  BY DEF SearchFail
<1>2. \A u \in Caller \ {t} : call'[u] = call[u]
  BY <1>1 DEF SysTypeOK
<1>3. call'[t] = NoCall /\ NoCall.pc = "idle"
  BY <1>1 DEF SysTypeOK, NoCall
<1>4. SysTypeOK'
  BY <1>1, NewCallType DEF SysTypeOK
<1>5. CallShape'
  BY <1>2, <1>3 DEF CallShape, Busy, Marking
<1>6. NothingLost'
  <2>1. \A b : Accounted(b) => Accounted(b)'
    BY <1>1, <1>2 DEF Accounted, Marking, Marked
  <2> QED  BY <2>1, <1>1, <1>2, <1>3 DEF NothingLost
<1>7. Serial => Serial'
  BY <1>1, <1>2, <1>3 DEF Serial, OneCall, UsedIsMarked, SearchExact, RegionFree, Busy, Marking,
     Region, Marked, Content
<1> QED  BY <1>1, <1>4, <1>5, <1>6, <1>7

LEMMA LoadWordLemma ==
  ASSUME SysInv, NEW t \in Caller, LoadWord(t)
  PROVE  SysInv'
<1> USE DEF SysInv
<1> DEFINE c == call[t]
           w == WordOf(c.at + c.set)
           d == [c EXCEPT !.pc = "store", !.chunk = Content(w)]
<1>1. c.pc = "load" /\ call' = [call EXCEPT ![t] = d] /\ UNCHANGED <<bitMap, owners, raced>>
  BY DEF LoadWord
<1>2. d \in CallType
  <2> DEFINE e == [c EXCEPT !.pc = "store"]
  <2>1. e \in CallType
    BY DEF SysTypeOK, CallType
  <2> HIDE DEF e
  <2>2. Content(w) \in SUBSET Block
    BY DEF Content, SysTypeOK
  <2>3. [e EXCEPT !.chunk = Content(w)] \in CallType
    BY <2>1, <2>2 DEF CallType
  <2> QED  BY <2>3 DEF e
<1>3. /\ d.pc = "store" /\ d.n = c.n /\ d.at = c.at /\ d.set = c.set /\ d.chunk = Content(w)
  BY DEF SysTypeOK, CallType
<1> HIDE DEF d
<1>4. call'[t] = d /\ \A u \in Caller \ {t} : call'[u] = call[u]
  BY <1>1 DEF SysTypeOK
<1>5. SysTypeOK'
  BY <1>1, <1>2 DEF SysTypeOK
<1>6. CallShape'
  BY <1>1, <1>3, <1>4 DEF CallShape, Busy, Marking
<1>7. NothingLost'
  <2>1. \A b : Accounted(b) => Accounted(b)'
    BY <1>1, <1>3, <1>4 DEF Accounted, Marking, Marked
  <2> QED  BY <2>1, <1>1, <1>3, <1>4 DEF NothingLost, Content
<1>8. ASSUME Serial PROVE Serial'
  <2>1. OneCall' /\ UsedIsMarked' /\ SearchExact'
    BY <1>8, <1>1, <1>3, <1>4 DEF Serial, OneCall, UsedIsMarked, SearchExact, Busy
  <2>2. RegionFree'
    BY <1>8, <1>1, <1>3, <1>4 DEF Serial, RegionFree, Marking, Region, Marked, Content
  <2> QED  BY <1>8, <2>1, <2>2, <1>1 DEF Serial
<1> QED  BY <1>1, <1>5, <1>6, <1>7, <1>8

LEMMA StoreWordLemma ==
  ASSUME SysInv, NEW t \in Caller, StoreWord(t)
  PROVE  SysInv'
<1> USE DEF SysInv
<1> DEFINE c == call[t]
           last == ~(c.set + 1 < c.n)
<1>0. PICK b : b = c.at + c.set
  OBVIOUS
<1>1. /\ c.pc = "store" /\ raced' = raced
      /\ bitMap' = (bitMap \ InWord(WordOf(b))) \cup c.chunk \cup {b}
  BY <1>0 DEF StoreWord
<1>2. /\ c \in CallType /\ c.at \in Nat /\ c.set \in Nat /\ c.n \in Nat
      /\ c.set < c.n /\ c.at + c.n <= NBlocks /\ NBlocks \in Nat
  BY <1>1, Words, SysMallocAssumption DEF SysTypeOK, CallType, CallShape, Marking
<1>3. b \in Block /\ b \in Region(c) /\ Region(c) \subseteq Block /\ Marked(c) \subseteq Region(c)
  BY <1>0, <1>2 DEF Block, Region, Marked
<1> DEFINE d == [c EXCEPT !.pc = "load", !.set = @ + 1, !.chunk = {}]
<1>4. CASE ~last
  <2>1. call' = [call EXCEPT ![t] = d] /\ UNCHANGED owners
    BY <1>4 DEF StoreWord
  <2>2. d \in CallType
    <3> DEFINE e == [c EXCEPT !.pc = "load"]
               f == [e EXCEPT !.set = @ + 1]
    <3>1. e \in CallType
      BY <1>2 DEF CallType
    <3> HIDE DEF e
    <3>2. f \in CallType
      BY <3>1 DEF CallType
    <3> HIDE DEF f
    <3>3. [f EXCEPT !.chunk = {}] \in CallType
      BY <3>2 DEF CallType
    <3> QED  BY <3>3 DEF e, f
  <2>3. d.pc = "load" /\ d.n = c.n /\ d.at = c.at /\ d.set = c.set + 1
    BY <1>2 DEF CallType
  <2> HIDE DEF d
  <2>4. call'[t] = d /\ \A u \in Caller \ {t} : call'[u] = call[u]
    BY <2>1 DEF SysTypeOK
  <2>5. SysTypeOK'
    BY <1>1, <1>2, <1>3, <2>1, <2>2 DEF SysTypeOK, CallType
  <2>6. CallShape'
    BY <1>2, <1>4, <2>3, <2>4 DEF CallShape, Busy, Marking
  <2>7. Marked(call'[t]) = Marked(c) \cup {b}
    <3>1. Marked(call'[t]) = c.at .. b
      BY <1>0, <1>2, <2>3, <2>4 DEF Marked
    <3>2. \A m, k \in Nat : m .. m + k = (m .. m + k - 1) \cup {m + k}
      OBVIOUS
    <3> QED  BY <3>1, <3>2, <1>0, <1>2 DEF Marked
  <2>8. NothingLost'
    <3>1. \A x : Accounted(x) => Accounted(x)'
      BY <1>1, <2>1, <2>3, <2>4, <2>7 DEF Accounted, Marking, Marked
    <3>2. Accounted(b)'
      BY <2>3, <2>4, <2>7 DEF Accounted, Marking, Marked
    <3> QED  BY <3>1, <3>2, <1>1, <2>3, <2>4 DEF NothingLost
  <2>9. ASSUME ~raced' PROVE Serial'
    <3>1. Serial /\ \A u \in Caller \ {t} : call'[u].pc = "idle"
      BY <2>9, <1>1, <2>4, AloneLemma DEF Busy
    <3>2. bitMap' = bitMap \cup {b}
      <4>1. c.chunk = Content(WordOf(b))
        BY <3>1, <1>0, <1>1 DEF Serial, RegionFree, Marking
      <4> QED  BY <4>1, <1>1 DEF Content
    <3>3. OneCall' /\ UsedIsMarked' /\ SearchExact'
      BY <3>1, <3>2, <2>1, <2>3, <2>4 DEF Serial, OneCall, UsedIsMarked, SearchExact, Busy
    <3>4. RegionFree'
      <4>1. Region(call'[t]) = Region(c)
        BY <2>3, <2>4 DEF Region
      <4>2. \A x \in Region(c) : x >= Reserved /\ owners[x] = 0
        BY <3>1, <1>0, <1>1 DEF Serial, RegionFree, Marking
      <4>3. (b .. c.at + c.n - 1) \cap bitMap = {} /\ Marked(c) \subseteq bitMap
        BY <3>1, <1>0, <1>1 DEF Serial, RegionFree, Marking
      <4>4. (b + 1 .. c.at + c.n - 1) \cap bitMap' = {}
        BY <4>3, <3>2, <1>0, <1>2
      <4>5. call'[t].at + call'[t].set = b + 1
        BY <2>3, <2>4, <1>0, <1>2
      <4> QED  BY <3>1, <3>2, <4>1, <4>2, <4>3, <4>4, <4>5, <2>1, <2>3, <2>4, <2>7
               DEF RegionFree, Marking
    <3> QED  BY <3>1, <3>3, <3>4, <2>1 DEF Serial
  <2> QED  BY <2>5, <2>6, <2>8, <2>9
<1>5. CASE last
  <2>1. /\ call' = [call EXCEPT ![t] = NoCall]
        /\ owners' = [x \in Block |-> IF x \in Region(c) THEN owners[x] + 1 ELSE owners[x]]
    BY <1>5 DEF StoreWord
  <2>2. call'[t] = NoCall /\ NoCall.pc = "idle" /\ \A u \in Caller \ {t} : call'[u] = call[u]
    BY <2>1 DEF SysTypeOK, NoCall
  <2>3. SysTypeOK'
    <3>1. bitMap' \in SUBSET Block
      BY <1>1, <1>2, <1>3 DEF SysTypeOK, CallType
    <3>2. owners' \in [Block -> Nat] /\ raced' \in BOOLEAN
      BY <2>1, <1>1 DEF SysTypeOK
    <3>3. call' \in [Caller -> CallType]
      BY <2>1, NewCallType DEF SysTypeOK
    <3> QED  BY <3>1, <3>2, <3>3 DEF SysTypeOK
  <2>4. CallShape'
    BY <2>2 DEF CallShape, Busy, Marking
  <2>5. NothingLost'
    <3>1. \A x \in Block : owners[x] > 0 \/ x \in Region(c) => owners'[x] > 0
      BY <2>1 DEF SysTypeOK
    <3>2. ASSUME NEW x \in Block, Accounted(x) PROVE Accounted(x)'
      <4>1. CASE x \in Marked(c)
        BY <4>1, <1>3, <3>1 DEF Accounted
      <4>2. CASE x \notin Marked(c)
        BY <4>2, <3>2, <2>2, <3>1 DEF Accounted, Marking, Marked
      <4> QED  BY <4>1, <4>2
    <3>3. Accounted(b)'
      BY <1>3, <3>1 DEF Accounted
    <3>4. \A x \in bitMap' : Accounted(x)'
      BY <3>2, <3>3, <1>1, <1>2 DEF NothingLost, SysTypeOK, CallType
    <3>5. \A u \in Caller : call'[u].pc = "store" => \A x \in call'[u].chunk : Accounted(x)'
      BY <3>2, <2>2 DEF NothingLost, SysTypeOK, CallType
    <3> QED  BY <3>4, <3>5 DEF NothingLost
  <2>6. ASSUME ~raced' PROVE Serial'
    <3>1. Serial /\ \A u \in Caller : call'[u].pc = "idle"
      BY <2>6, <1>1, <2>2, AloneLemma DEF Busy
    <3>2. bitMap' = bitMap \cup {b} /\ Region(c) = Marked(c) \cup {b}
      <4>1. c.chunk = Content(WordOf(b))
        BY <3>1, <1>0, <1>1 DEF Serial, RegionFree, Marking
      <4>2. Region(c) = Marked(c) \cup {b}
        BY <1>0, <1>2, <1>5 DEF Region, Marked
      <4> QED  BY <4>1, <4>2, <1>1 DEF Content
    <3>3. Marked(c) \subseteq bitMap /\ \A x \in Region(c) : x >= Reserved /\ owners[x] = 0
      BY <3>1, <1>0, <1>1 DEF Serial, RegionFree, Marking
    <3>4. UsedIsMarked'
      BY <3>1, <3>2, <3>3, <2>1 DEF Serial, UsedIsMarked
    <3>5. \A x \in Block : owners'[x] <= (IF x < Reserved THEN 0 ELSE 1)
      <4> TAKE x \in Block
      <4>1. owners[x] <= (IF x < Reserved THEN 0 ELSE 1)
        BY <3>1 DEF Serial
      <4>2. CASE x \in Region(c)
        <5>1. owners'[x] = 1 /\ x >= Reserved
          BY <4>2, <3>3, <2>1
        <5> QED  BY <5>1, SysMallocAssumption DEF Block
      <4>3. CASE x \notin Region(c)
        BY <4>1, <4>3, <2>1
      <4> QED  BY <4>2, <4>3
    <3>6. OneCall' /\ SearchExact' /\ RegionFree'
      BY <3>1 DEF OneCall, SearchExact, RegionFree, Busy, Marking
    <3> QED  BY <3>4, <3>5, <3>6 DEF Serial
  <2> QED  BY <2>3, <2>4, <2>5, <2>6
<1> QED  BY <1>4, <1>5

--------------------------------------------------------------------------------
LEMMA StepLemma == SysInv /\ [SysNext]_sysVars => SysInv'
<1> SUFFICES ASSUME SysInv, [SysNext]_sysVars PROVE SysInv'
  OBVIOUS
<1>1. ASSUME NEW t \in Caller, NEW n \in 1 .. MaxBlocks, SysMalloc(t, n) PROVE SysInv'
  BY <1>1, SysMallocLemma
<1>2. ASSUME NEW t \in Caller, SysStep(t) PROVE SysInv'
  BY <1>2, SearchHitLemma, SearchMissLemma, SearchFailLemma, LoadWordLemma, StoreWordLemma DEF SysStep
<1>3. ASSUME UNCHANGED sysVars PROVE SysInv'
  BY <1>3 DEF sysVars, SysInv, SysTypeOK, CallShape, NothingLost, Accounted, Serial, OneCall,
     UsedIsMarked, SearchExact, RegionFree, Busy, Marking, Region, Marked, Content
<1> QED  BY <1>1, <1>2, <1>3 DEF SysNext

\* In every reachable state the variables have their types, whatever calls overlap.
THEOREM SysTypeCorrect == SysSpec => []SysTypeOK
<1>1. SysInv => SysTypeOK
  BY DEF SysInv
<1> QED  BY <1>1, InitLemma, StepLemma, PTL DEF SysSpec

\* "TODO: Locking should be implemented ASAP" (mem.cpp:210): only races grant blocks twice.
THEOREM GrantsAreDisjoint == SysSpec => []GrantsDisjoint
<1>1. SysInv => GrantsDisjoint
  BY DEF SysInv, Serial, GrantsDisjoint
<1> QED  BY <1>1, InitLemma, StepLemma, PTL DEF SysSpec

\* Even racing calls lose no block: a bit that is set has an owner or a call at work.
THEOREM NothingIsLost == SysSpec => []NoBlockLost
<1>1. SysInv => NoBlockLost
  BY DEF SysInv, NothingLost, Accounted, NoBlockLost
<1> QED  BY <1>1, InitLemma, StepLemma, PTL DEF SysSpec

\* The word-by-word search overlooks no run of free blocks.
THEOREM SearchIsComplete == SysSpec => []FailsOnlyWhenFull
<1>1. SysInv => FailsOnlyWhenFull
  BY Words DEF SysInv, Serial, SearchExact, FailsOnlyWhenFull, FreeRun, Block
<1> QED  BY <1>1, InitLemma, StepLemma, PTL DEF SysSpec


--------------------------------------------------------------------------------

(* KeSysMalloc while the system starts                                     *)

LEMMA BootStep == BootNext => [SysNext]_sysVars
<1> SUFFICES ASSUME BootNext PROVE [SysNext]_sysVars
  OBVIOUS
<1>1. CASE KeMainMalloc
  <2>1. PICK n \in 1 .. (IF kpc = "stacks" THEN 1 ELSE MaxBlocks) : SysMalloc(KeMain, n)
    BY <1>1 DEF KeMainMalloc
  <2>2. KeMain \in Caller /\ n \in 1 .. MaxBlocks
    BY BootAssumption, SysMallocAssumption
  <2> QED  BY <2>1, <2>2 DEF SysNext
<1>2. CASE DwmInit
  <2>1. Dwm \in Caller
    BY BootAssumption
  <2> QED  BY <1>2, <2>1 DEF DwmInit, SysNext
<1>3. CASE MallocStep
  BY <1>3 DEF MallocStep, SysNext
<1>4. CASE RootTable \/ IdentityMap \/ MapStep \/ LoadTables \/ StartDwm
  BY <1>4 DEF RootTable, IdentityMap, MapStep, LoadTables, StartDwm
<1> QED  BY <1>1, <1>2, <1>3, <1>4 DEF BootNext

\* KeMain and the window manager use KeSysMalloc as its specification says.
THEOREM BootUsesSysMalloc == BootSpec => SysSpec
<1>1. BootInit => SysInit
  BY DEF BootInit
<1>2. [BootNext]_allVars => [SysNext]_sysVars
  BY BootStep DEF allVars, sysVars
<1> QED  BY <1>1, <1>2, PTL DEF BootSpec, SysSpec

\* While the system starts the variables of KeSysMalloc keep their types.
THEOREM BootTypeCorrect == BootSpec => []SysTypeOK
  BY BootUsesSysMalloc, SysTypeCorrect, PTL

\* While the system starts no block is granted twice, unless KeMain and the window
\* manager are in KeSysMalloc at the same time.
THEOREM BootGrantsDisjoint == BootSpec => []GrantsDisjoint
  BY BootUsesSysMalloc, GrantsAreDisjoint, PTL

\* While the system starts every bit that is set has an owner, even if calls race.
THEOREM BootLosesNothing == BootSpec => []NoBlockLost
  BY BootUsesSysMalloc, NothingIsLost, PTL

\* While the system starts a call fails only if there is no run of free blocks.
THEOREM BootSearchComplete == BootSpec => []FailsOnlyWhenFull
  BY BootUsesSysMalloc, SearchIsComplete, PTL

--------------------------------------------------------------------------------
(* The two allocators: KeSysMalloc fills the bitmap from below, kePhysAlloc the map *)

\* Without races the bits that are set are the first ones, and the call under way will not
\* go beyond what has been asked for.
FirstFit(m) ==
  /\ bitMap = 0 .. m - 1 /\ m <= demand
  /\ \A t \in Caller :
       /\ call[t].pc = "search" => m + call[t].n <= demand
       /\ Marking(t) => call[t].at + call[t].set = m /\ call[t].at + call[t].n <= demand
NoHoles == demand \in Nat /\ (~raced => \E m \in 0 .. NBlocks : FirstFit(m))

\* The first q pages of region r, and those of the regions before it.
Before(r, q) ==
  {p \in Nat : \/ \E i \in 1 .. r - 1 : p \in Pages(map[i])
               \/ r <= Len(map) /\ p \in map[r].at .. map[r].at + q - 1}

\* Region r is the first that is left, without its first q pages; the pages before these
\* are the ones that are allocated.
ListFrom(r, q) ==
  /\ allocated \subseteq Before(r, q)
  /\ Len(sysMemList) = Len(map) + 1 - r
  /\ \A i \in 2 .. Len(sysMemList) : sysMemList[i] = map[r + i - 1]
  /\ \A i \in 1 .. r - 1 : Pages(map[i]) \subseteq allocated
  /\ r <= Len(map) =>
       /\ q < map[r].pages
       /\ sysMemList[1] = [at |-> map[r].at + q, pages |-> map[r].pages - q]
       /\ map[r].at .. map[r].at + q - 1 \subseteq allocated

\* Pages come from below the largest region as long as there are any there; the next one is
\* the first of the bitmap.
FromBelow ==
  \/ allocated \subseteq Lower
  \/ pSysMemory \in allocated /\ Cardinality(allocated) > Cardinality(Lower)

ListInv ==
  /\ map \in Maps
  /\ kpc \in {"stacks", "pml4", "map", "dwm", "terminal"}
  /\ walk.k \in 0 .. 3 /\ (kpc # "map" => walk.k = 3)
  /\ sysMemList \in Seq([at : Nat, pages : Nat \ {0}])
  /\ \E r \in 1 .. Len(map) + 1, q \in Nat : ListFrom(r, q)
  /\ IsFiniteSet(allocated) /\ FromBelow

--------------------------------------------------------------------------------
LEMMA LargestExists ==
  ASSUME NEW m \in Maps
  PROVE  Largest(m) \in DOMAIN m
<1> DEFINE D == DOMAIN m
           Better(i) == {j \in D : \/ m[j].pages > m[i].pages
                                   \/ m[j].pages = m[i].pages /\ j < i}
           T == {Better(i) : i \in D}
           R == StrictSubsetOrdering(D)
<1>1. /\ m \in Seq([at : Nat, pages : Nat \ {0}]) /\ m # <<>>
  BY BootAssumption
<1>2. D = 1 .. Len(m) /\ Len(m) \in Nat /\ D # {} /\ \A i \in D : m[i].pages \in Nat
  <2>1. D = 1 .. Len(m) /\ Len(m) \in Nat
    BY <1>1
  <2>2. Len(m) # 0
    BY <1>1, EmptySeq
  <2>3. \A i \in D : m[i] \in [at : Nat, pages : Nat \ {0}]
    BY <1>1, <2>1, ElementOfSeq
  <2>4. \A i \in D : m[i].pages \in Nat
    BY <2>3
  <2>5. D # {}
    BY <2>1, <2>2
  <2> QED  BY <2>1, <2>4, <2>5
<1>3. \E S \in T : \A U \in T : ~(<<U, S>> \in R)
  <2>1. IsFiniteSet(D)
    <3>1. 1 \in Int /\ Len(m) \in Int
      BY <1>2
    <3> QED  BY <1>2, <3>1, FS_Interval, Zenon
  <2>2. T \subseteq FiniteSubsetsOf(D) /\ T # {}
    <3>1. \A i \in D : Better(i) \in SUBSET D
      OBVIOUS
    <3>2. \A i \in D : IsFiniteSet(Better(i))
      BY <2>1, <3>1, FS_Subset
    <3> HIDE DEF Better, D
    <3> QED  BY <1>2, <3>1, <3>2 DEF FiniteSubsetsOf
  <2> HIDE DEF T, R
  <2>3. IsWellFoundedOn(R, FiniteSubsetsOf(D))
    BY FS_StrictSubsetOrderingWellFounded DEF R
  <2> QED  BY <2>2, <2>3, WFMin
<1>4. PICK i \in D : \A j \in D : ~(<<Better(j), Better(i)>> \in R)
  BY <1>3
<1>5. Better(i) = {}
  <2> SUFFICES ASSUME NEW j \in Better(i) PROVE FALSE
    OBVIOUS
  <2>1. Better(j) \subseteq Better(i) /\ j \notin Better(j)
    BY <1>2
  <2>2. <<Better(j), Better(i)>> \in R
    BY <2>1 DEF StrictSubsetOrdering
  <2> QED  BY <1>4, <2>2
<1>6. /\ \A j \in D : m[j].pages <= m[i].pages
      /\ \A j \in 1 .. i - 1 : m[j].pages < m[i].pages
  BY <1>2, <1>5
<1> QED  BY <1>6 DEF Largest

--------------------------------------------------------------------------------
(* The bitmap has no holes                                                 *)

LEMMA NoHolesInit == BootInit => NoHoles
<1> SUFFICES ASSUME BootInit PROVE NoHoles
  OBVIOUS
<1>1. demand = Reserved /\ Reserved \in 0 .. NBlocks
  BY SysMallocAssumption DEF BootInit, NBlocks
<1>2. FirstFit(Reserved)
  <2>1. \A t \in Caller : call[t].pc = "idle"
    BY DEF BootInit, SysInit, NoCall
  <2> QED  BY <1>1, <2>1 DEF BootInit, SysInit, FirstFit, Marking
<1> QED  BY <1>1, <1>2, Words DEF NoHoles

LEMMA NewCallNoHoles ==
  ASSUME SysInv, NoHoles, NEW t \in Caller, NEW n \in 1 .. MaxBlocks, SysMalloc(t, n),
         demand' = demand + n
  PROVE  NoHoles'
<1>1. demand \in Nat /\ n \in Nat
  BY SysMallocAssumption DEF NoHoles
<1>2. SUFFICES ASSUME ~raced' PROVE \E m \in 0 .. NBlocks : FirstFit(m)'
  BY <1>1 DEF NoHoles
<1>3. ~raced /\ \A u \in Caller : ~Busy(u)
  BY <1>2 DEF SysMalloc
<1>4. PICK m \in 0 .. NBlocks : FirstFit(m)
  BY <1>3 DEF NoHoles
<1>5. \A u \in Caller \ {t} : call'[u].pc = "idle"
  BY <1>3 DEF SysMalloc, SysInv, SysTypeOK, Busy
<1>6. call'[t].pc = "search" /\ call'[t].n = n
  BY DEF SysMalloc, SysInv, SysTypeOK, NoCall
<1>7. FirstFit(m)'
  <2>1. bitMap' = 0 .. m - 1 /\ m <= demand' /\ m + n <= demand'
    BY <1>1, <1>4 DEF FirstFit, SysMalloc
  <2> QED  BY <1>5, <1>6, <2>1 DEF FirstFit, Marking
<1> QED  BY <1>7

LEMMA SearchHitNoHoles ==
  ASSUME SysInv, NoHoles, ~raced, NEW t \in Caller, NEW first \in Block, SearchHit(t, first),
         demand' = demand
  PROVE  NoHoles'
<1> DEFINE c == call[t]
           end == Start(c.word)
<1>1. PICK m \in 0 .. NBlocks : FirstFit(m)
  BY DEF NoHoles
<1>2. /\ c.pc = "search" /\ c.word \in Nat /\ c.word < NWords /\ c.n \in Nat /\ c.n > 0
      /\ c.found \in Nat /\ c.found <= end
  <2>1. c \in CallType /\ c.pc = "search" /\ c.word < NWords
    BY DEF SearchHit, SysInv, SysTypeOK
  <2>2. c.n > 0 /\ c.found <= end
    BY <2>1 DEF SysInv, CallShape, Busy
  <2> QED  BY <2>1, <2>2, SysMallocAssumption DEF CallType
<1>3. /\ end \in Nat /\ Start(c.word + 1) = end + WordBits /\ end + WordBits <= NBlocks
      /\ m \in Nat /\ first \in Nat /\ WordBits \in Nat \ {0} /\ NBlocks \in Nat
  BY <1>2, Words, SysMallocAssumption DEF Block
<1>4. /\ (end - c.found .. end - 1) \cap bitMap = {}
      /\ c.found < end => end - c.found - 1 \in bitMap
      /\ \A f \in Nat : f + c.n <= end => (f .. f + c.n - 1) \cap bitMap # {}
  BY <1>2 DEF SysInv, Serial, SearchExact
<1>5. /\ Fits(c, Content(c.word), first)
      /\ \A f \in Block : f < first => ~Fits(c, Content(c.word), f)
  BY DEF SearchHit
<1>6. bitMap = 0 .. m - 1
  BY <1>1 DEF FirstFit
<1> HIDE DEF c, end
<1>7. m >= end - c.found
  BY <1>2, <1>3, <1>4, <1>6
<1>8. /\ first + c.n > end /\ first + c.n <= end + WordBits /\ first >= end - c.found
      /\ (first .. first + c.n - 1) \cap Content(c.word) = {}
  BY <1>2, <1>3, <1>5 DEF Fits, end
<1>9. first >= m
  <2> SUFFICES ASSUME first < m PROVE FALSE
    BY <1>3
  <2>1. first \in bitMap /\ first \in first .. first + c.n - 1
    BY <1>2, <1>3, <1>6
  <2>2. first >= end
    BY <2>1, <1>2, <1>3, <1>4, <1>8
  <2>3. first \in InWord(c.word)
    BY <2>2, <1>2, <1>3, <1>8 DEF InWord, end
  <2> QED  BY <2>1, <2>3, <1>8 DEF Content
<1>10. first = m
  <2> SUFFICES ASSUME first > m PROVE FALSE
    BY <1>3, <1>9
  <2> DEFINE f == first - 1
  <2>1. f \in Nat /\ f >= m /\ f < first /\ f \in Block
    BY <1>3 DEF Block
  <2>2. (f .. f + c.n - 1) \cap bitMap = {}
    BY <2>1, <1>2, <1>3, <1>6
  <2>3. f + c.n > end
    BY <2>1, <2>2, <1>2, <1>3, <1>4
  <2>4. f + c.n <= end + WordBits /\ f + c.found >= end
    BY <2>1, <1>2, <1>3, <1>7, <1>8
  <2> HIDE DEF f
  <2>5. Fits(c, Content(c.word), f)
    BY <2>2, <2>3, <2>4, <1>3 DEF Fits, Content, end
  <2> QED  BY <2>1, <2>5, <1>5
<1>11. /\ call'[t].pc = "load" /\ call'[t].n = c.n /\ call'[t].at = first /\ call'[t].set = 0
       /\ \A u \in Caller \ {t} : call'[u].pc = "idle"
       /\ UNCHANGED <<bitMap, raced>>
  <2>1. \A u \in Caller \ {t} : call[u].pc = "idle"
    BY <1>2, AloneLemma DEF Busy, c
  <2> QED  BY <2>1 DEF SearchHit, SysInv, SysTypeOK, NoCall, c
<1>12. FirstFit(m)'
  <2>1. m <= demand /\ m + c.n <= demand
    BY <1>1, <1>2 DEF FirstFit, c
  <2> QED  BY <2>1, <1>3, <1>6, <1>10, <1>11 DEF FirstFit, Marking
<1> QED  BY <1>12 DEF NoHoles

LEMMA StoreNoHoles ==
  ASSUME SysInv, NoHoles, ~raced, NEW t \in Caller, StoreWord(t), demand' = demand
  PROVE  NoHoles'
<1> DEFINE c == call[t]
<1>1. PICK m \in 0 .. NBlocks : FirstFit(m)
  BY DEF NoHoles
<1>2. /\ c.pc = "store" /\ c.at \in Nat /\ c.set \in Nat /\ c.n \in Nat
      /\ c.set < c.n /\ c.at + c.n <= NBlocks /\ c \in CallType
  <2>1. c \in CallType /\ c.pc = "store"
    BY DEF StoreWord, SysInv, SysTypeOK
  <2>2. c.set < c.n /\ c.at + c.n <= NBlocks
    BY <2>1 DEF SysInv, CallShape, Marking
  <2> QED  BY <2>1, <2>2, SysMallocAssumption DEF CallType
<1>3. bitMap = 0 .. m - 1 /\ c.at + c.set = m /\ c.at + c.n <= demand /\ demand \in Nat
  BY <1>1, <1>2 DEF FirstFit, Marking, NoHoles
<1>4. \A u \in Caller \ {t} : call[u].pc = "idle"
  BY <1>2, AloneLemma DEF Busy
<1>5. bitMap' = 0 .. m
  <2>1. c.chunk = Content(WordOf(m))
    BY <1>2, <1>3 DEF SysInv, Serial, RegionFree, Marking
  <2>2. bitMap' = (bitMap \ InWord(WordOf(m))) \cup c.chunk \cup {m}
    BY <1>3 DEF StoreWord
  <2>3. bitMap' = bitMap \cup {m}
    BY <2>1, <2>2 DEF Content
  <2> QED  BY <2>3, <1>2, <1>3
<1>6. /\ \A u \in Caller \ {t} : call'[u].pc = "idle"
      /\ \/ call'[t].pc = "idle"
         \/ /\ call'[t].pc = "load" /\ call'[t].at = c.at /\ call'[t].n = c.n
            /\ call'[t].set = c.set + 1
  <2> DEFINE d == [c EXCEPT !.pc = "load", !.set = @ + 1, !.chunk = {}]
  <2>1. d.pc = "load" /\ d.at = c.at /\ d.n = c.n /\ d.set = c.set + 1
    BY <1>2 DEF CallType
  <2>2. call' = [call EXCEPT ![t] = d] \/ call' = [call EXCEPT ![t] = NoCall]
    BY DEF StoreWord
  <2> HIDE DEF d
  <2> QED  BY <1>4, <2>1, <2>2 DEF SysInv, SysTypeOK, NoCall
<1> HIDE DEF c
<1>7. m + 1 \in 0 .. NBlocks /\ m + 1 <= demand
  <2>1. NBlocks \in Nat /\ m \in Nat
    BY <1>2, <1>3, Words
  <2>2. m + 1 <= c.at + c.n
    BY <2>1, <1>2, <1>3
  <2> QED  BY <2>1, <2>2, <1>2, <1>3
<1>8. FirstFit(m + 1)'
  <2>1. m = m + 1 - 1 /\ m \in Nat
    BY <1>2, <1>3
  <2>2. bitMap' = 0 .. (m + 1) - 1 /\ m + 1 <= demand'
    BY <2>1, <1>5, <1>7
  <2>3. \A u \in Caller : call'[u].pc = "search" => FALSE
    BY <1>6
  <2>4. ASSUME NEW u \in Caller, call'[u].pc \in {"load", "store"}
        PROVE  call'[u].at + call'[u].set = m + 1 /\ call'[u].at + call'[u].n <= demand'
    <3>1. u = t /\ call'[t].pc # "idle"
      BY <2>4, <1>6
    <3>2. call'[u].at = c.at /\ call'[u].n = c.n /\ call'[u].set = c.set + 1
      BY <3>1, <1>6
    <3> QED  BY <3>2, <1>2, <1>3
  <2> QED  BY <2>2, <2>3, <2>4 DEF FirstFit, Marking
<1>9. demand' \in Nat
  BY <1>3
<1>10. \E k \in 0 .. NBlocks : FirstFit(k)'
  BY <1>7, <1>8
<1> QED  BY <1>9, <1>10 DEF NoHoles

LEMMA StepNoHoles ==
  ASSUME SysInv, NoHoles, NEW t \in Caller, SysStep(t), demand' = demand
  PROVE  NoHoles'
<1>a. raced' = raced
  BY DEF SysStep, SearchHit, SearchMiss, SearchFail, LoadWord, StoreWord
<1> SUFFICES ASSUME ~raced PROVE NoHoles'
  BY <1>a DEF NoHoles
<1>1. PICK m \in 0 .. NBlocks : FirstFit(m)
  BY DEF NoHoles
<1>2. CASE SearchMiss(t)
  <2>1. /\ \A u \in Caller \ {t} : call'[u] = call[u]
        /\ call[t].pc = "search" /\ call'[t].pc = "search" /\ call'[t].n = call[t].n
        /\ UNCHANGED <<bitMap, raced>>
    <3>1. PICK k \in 0 .. call[t].found + WordBits :
            call' = [call EXCEPT ![t].word = @ + 1, ![t].found = k]
      BY <1>2 DEF SearchMiss
    <3> QED  BY <1>2, <3>1 DEF SearchMiss, SysInv, SysTypeOK, CallType
  <2>2. FirstFit(m)'
    BY <1>1, <2>1 DEF FirstFit, Marking
  <2> QED  BY <2>2 DEF NoHoles
<1>3. CASE SearchFail(t)
  <2>1. FirstFit(m)'
    BY <1>1, <1>3 DEF SearchFail, FirstFit, Marking, SysInv, SysTypeOK, NoCall
  <2> QED  BY <2>1 DEF NoHoles
<1>4. CASE LoadWord(t)
  <2> DEFINE d == [call[t] EXCEPT !.pc = "store",
                                  !.chunk = Content(WordOf(call[t].at + call[t].set))]
  <2>1. call[t].pc = "load" /\ call' = [call EXCEPT ![t] = d] /\ UNCHANGED <<bitMap, raced>>
    BY <1>4 DEF LoadWord
  <2>2. d.pc = "store" /\ d.n = call[t].n /\ d.at = call[t].at /\ d.set = call[t].set
    BY DEF SysInv, SysTypeOK, CallType
  <2> HIDE DEF d
  <2>3. FirstFit(m)'
    BY <1>1, <2>1, <2>2 DEF FirstFit, Marking, SysInv, SysTypeOK
  <2> QED  BY <2>3 DEF NoHoles
<1> QED  BY <1>2, <1>3, <1>4, SearchHitNoHoles, StoreNoHoles DEF SysStep

LEMMA BootNoHoles ==
  ASSUME SysInv, NoHoles, [BootNext]_allVars
  PROVE  NoHoles'
<1>1. ASSUME NEW t \in Caller, NEW n \in 1 .. MaxBlocks, SysMalloc(t, n), demand' = demand + n
      PROVE  NoHoles'
  BY <1>1, NewCallNoHoles
<1>2. CASE KeMainMalloc
  <2>1. PICK n \in 1 .. (IF kpc = "stacks" THEN 1 ELSE MaxBlocks) :
          SysMalloc(KeMain, n) /\ demand' = demand + n
    BY <1>2 DEF KeMainMalloc
  <2>2. KeMain \in Caller /\ n \in 1 .. MaxBlocks
    BY BootAssumption, SysMallocAssumption
  <2> QED  BY <1>1, <2>1, <2>2
<1>3. CASE DwmInit
  BY <1>1, <1>3, BootAssumption DEF DwmInit
<1>4. CASE MallocStep
  BY <1>4, StepNoHoles DEF MallocStep, bootVars
<1>5. ASSUME UNCHANGED sysVars, demand' = demand PROVE NoHoles'
  BY <1>5 DEF NoHoles, FirstFit, Marking, sysVars
<1>6. CASE RootTable \/ IdentityMap \/ MapStep \/ LoadTables \/ StartDwm
  BY <1>5, <1>6 DEF RootTable, IdentityMap, MapStep, LoadTables, StartDwm, bootVars
<1>7. CASE UNCHANGED allVars
  BY <1>5, <1>7 DEF allVars, bootVars
<1> QED  BY <1>2, <1>3, <1>4, <1>6, <1>7 DEF BootNext

--------------------------------------------------------------------------------
(* kePhysAlloc takes pages of the lower regions                            *)

LEMMA MapFacts ==
  ASSUME NEW m \in Maps
  PROVE  /\ DOMAIN m = 1 .. Len(m) /\ Len(m) \in Nat /\ Largest(m) \in 1 .. Len(m)
         /\ \A i \in 1 .. Len(m) : /\ m[i].at \in Nat /\ m[i].pages \in Nat \ {0}
                                   /\ m[i] = [at |-> m[i].at, pages |-> m[i].pages]
<1>1. m \in Seq([at : Nat, pages : Nat \ {0}])
  BY BootAssumption
<1>2. DOMAIN m = 1 .. Len(m) /\ Len(m) \in Nat
  BY <1>1
<1>3. \A i \in 1 .. Len(m) : m[i] \in [at : Nat, pages : Nat \ {0}]
  BY <1>1, <1>2, ElementOfSeq
<1>4. Largest(m) \in 1 .. Len(m)
  BY <1>2, LargestExists
<1> QED  BY <1>2, <1>3, <1>4

LEMMA ListInit == BootInit => ListInv
<1> SUFFICES ASSUME BootInit PROVE ListInv
  OBVIOUS
<1>1. /\ map \in Maps /\ kpc = "stacks" /\ sysMemList = map /\ allocated = {} /\ walk.k = 3
      /\ map \in Seq([at : Nat, pages : Nat \ {0}])
  BY BootAssumption DEF BootInit, PhysInit, NoWalk
<1>2. ListFrom(1, 0)
  <2>1. /\ Len(map) \in Nat /\ map[1].at \in Nat
        /\ 1 <= Len(map) => /\ map[1].pages \in Nat \ {0}
                            /\ map[1] = [at |-> map[1].at, pages |-> map[1].pages]
    BY <1>1, MapFacts
  <2>2. Len(sysMemList) = Len(map) + 1 - 1 /\ \A i \in 2 .. Len(sysMemList) : i = 1 + i - 1
    BY <1>1, <2>1
  <2> QED  BY <1>1, <2>1, <2>2 DEF ListFrom
<1>3. IsFiniteSet(allocated) /\ FromBelow
  BY <1>1, FS_EmptySet DEF FromBelow
<1>4. 1 \in 1 .. Len(map) + 1
  BY <1>1, MapFacts
<1> QED  BY <1>1, <1>2, <1>3, <1>4 DEF ListInv

\* The regions before the largest one are finite, and apart from it.
LEMMA LowerFacts ==
  ASSUME map \in Maps
  PROVE  /\ IsFiniteSet(Lower) /\ Cardinality(Lower) \in Nat
         /\ Pages(map[Largest(map)]) \cap Lower = {}
         /\ pSysMemory \in Pages(map[Largest(map)])
<1> DEFINE L == Largest(map)
<1>1. /\ L \in 1 .. Len(map) /\ DOMAIN map = 1 .. Len(map) /\ Len(map) \in Nat
      /\ \A i \in 1 .. Len(map) : map[i].at \in Nat /\ map[i].pages \in Nat \ {0}
  BY MapFacts
<1>2. IsFiniteSet(Lower)
  <2>1. \A i \in 1 .. L - 1 : IsFiniteSet(Pages(map[i]))
    <3> SUFFICES ASSUME NEW i \in 1 .. L - 1 PROVE IsFiniteSet(Pages(map[i]))
      OBVIOUS
    <3>1. map[i].at \in Int /\ map[i].at + map[i].pages - 1 \in Int
      BY <1>1
    <3>2. IsFiniteSet(map[i].at .. map[i].at + map[i].pages - 1)
      BY <3>1, FS_Interval
    <3> QED  BY <3>2 DEF Pages
  <2> DEFINE S == {Pages(map[i]) : i \in 1 .. L - 1}
  <2>2. IsFiniteSet(1 .. L - 1)
    <3>1. 1 \in Int /\ L - 1 \in Int
      BY <1>1
    <3> HIDE DEF L
    <3> QED  BY <3>1, FS_Interval
  <2>3. IsFiniteSet(S)
    <3> DEFINE f == [i \in 1 .. L - 1 |-> Pages(map[i])]
    <3>1. f \in [1 .. L - 1 -> S]
      OBVIOUS
    <3>2. f \in Surjection(1 .. L - 1, S)
      BY <3>1 DEF Surjection
    <3> QED  BY <2>2, <3>2, FS_Surjection
  <2>4. \A T \in S : IsFiniteSet(T)
    BY <2>1
  <2> QED  BY <2>3, <2>4, FS_UNION DEF Lower
<1>3. Pages(map[L]) \cap Lower = {}
  <2>1. ASSUME NEW i \in 1 .. L - 1 PROVE Pages(map[i]) \cap Pages(map[L]) = {}
    <3>1. i \in DOMAIN map /\ L \in DOMAIN map /\ i # L
      BY <1>1
    <3> QED  BY <3>1, BootAssumption
  <2> QED  BY <2>1 DEF Lower
<1>4. pSysMemory \in Pages(map[L])
  BY <1>1 DEF pSysMemory, Pages
<1> QED  BY <1>2, <1>3, <1>4, FS_CardinalityType

\* A page of the bitmap that kePhysAlloc has given out has two owners.
LEMMA BitmapClash ==
  ASSUME map \in Maps, pSysMemory \in allocated
  PROVE  Clash
<1>1. 0 \in Taken
  <2>1. Reserved > 0
    BY BootAssumption
  <2>2. NWords * WordBits \in Nat /\ Reserved \in 0 .. NWords * WordBits
    BY SysMallocAssumption
  <2>3. 0 \in Block
    BY <2>1, <2>2 DEF Block, NBlocks
  <2> QED  BY <2>1, <2>3 DEF Taken
<1>2. pSysMemory \in Nat
  BY MapFacts DEF pSysMemory
<1>3. pSysMemory \in PagesOf(0)
  BY <1>2, BootAssumption DEF PagesOf
<1> QED  BY <1>1, <1>3 DEF Clash

LEMMA PhysAllocLemma ==
  ASSUME ListInv, ~Clash, kePhysAlloc, map' = map
  PROVE  /\ sysMemList' \in Seq([at : Nat, pages : Nat \ {0}])
         /\ \E r \in 1 .. Len(map) + 1, q \in Nat : ListFrom(r, q)'
         /\ IsFiniteSet(allocated') /\ FromBelow'
<1> DEFINE Region1 == [at : Nat, pages : Nat \ {0}]
<1>1. /\ map \in Maps /\ sysMemList \in Seq(Region1) /\ sysMemList # <<>>
      /\ IsFiniteSet(allocated) /\ allocated \subseteq Lower
      /\ sysMemList' = WithoutFront /\ allocated' = allocated \cup {Front}
  BY BitmapClash DEF ListInv, FromBelow, kePhysAlloc
<1>2. PICK r \in 1 .. Len(map) + 1, q \in Nat : ListFrom(r, q)
  BY DEF ListInv
<1>3. /\ DOMAIN map = 1 .. Len(map) /\ Len(map) \in Nat /\ Largest(map) \in 1 .. Len(map)
      /\ \A i \in 1 .. Len(map) : /\ map[i].at \in Nat /\ map[i].pages \in Nat \ {0}
                                  /\ map[i] = [at |-> map[i].at, pages |-> map[i].pages]
  BY <1>1, MapFacts
<1>4. r \in 1 .. Len(map) /\ Len(sysMemList) = Len(map) + 1 - r
  <2>1. Len(sysMemList) \in Nat /\ Len(sysMemList) # 0
    BY <1>1, EmptySeq
  <2> QED  BY <2>1, <1>2, <1>3 DEF ListFrom
<1>5. /\ q < map[r].pages
      /\ sysMemList[1] = [at |-> map[r].at + q, pages |-> map[r].pages - q]
      /\ Front = map[r].at + q
  BY <1>2, <1>4 DEF ListFrom, Front
<1>6. /\ Pages(map[Largest(map)]) \cap Lower = {} /\ pSysMemory \in Pages(map[Largest(map)])
      /\ IsFiniteSet(Lower) /\ Cardinality(Lower) \in Nat
  BY <1>1, LowerFacts
<1>7. IsFiniteSet(allocated')
  BY <1>1, FS_AddElement
<1>8. FromBelow'
  <2>1. CASE r < Largest(map)
    <3>1. Front \in Pages(map[r]) /\ r \in 1 .. Largest(map) - 1
      BY <1>3, <1>4, <1>5, <2>1 DEF Pages
    <3>2. allocated' \subseteq Lower
      BY <3>1, <1>1 DEF Lower
    <3> QED  BY <3>2 DEF FromBelow, Lower
  <2>2. CASE r > Largest(map)
    <3>1. Largest(map) \in 1 .. r - 1
      BY <1>3, <1>4, <2>2
    <3>2. Pages(map[Largest(map)]) \subseteq allocated
      BY <1>2, <3>1 DEF ListFrom
    <3> QED  BY <1>1, <1>6, <3>2
  <2>3. CASE r = Largest(map)
    <3>1. q = 0
      <4> SUFFICES ASSUME q # 0 PROVE FALSE
        OBVIOUS
      <4>1. map[r].at .. map[r].at + q - 1 \subseteq allocated
        BY <1>2, <1>4 DEF ListFrom
      <4>2. map[r].at \in allocated
        BY <1>3, <1>4, <4>1
      <4> QED  BY <1>1, <1>6, <2>3, <4>2 DEF pSysMemory
    <3>2. Front = pSysMemory
      BY <1>3, <1>4, <1>5, <2>3, <3>1 DEF pSysMemory
    <3>3. allocated = Lower
      <4>1. \A i \in 1 .. Largest(map) - 1 : Pages(map[i]) \subseteq allocated
        BY <1>2, <2>3 DEF ListFrom
      <4> QED  BY <1>1, <4>1 DEF Lower
    <3>4. Cardinality(allocated') = Cardinality(Lower) + 1
      BY <1>1, <1>6, <3>2, <3>3, FS_AddElement
    <3>5. pSysMemory \in allocated' /\ Cardinality(allocated') > Cardinality(Lower)
      BY <1>1, <1>6, <3>2, <3>4
    <3>6. pSysMemory' = pSysMemory /\ Lower' = Lower
      BY DEF pSysMemory, Lower
    <3> QED  BY <3>5, <3>6 DEF FromBelow
  <2> QED  BY <1>3, <1>4, <2>1, <2>2, <2>3
<1> DEFINE at == map[r].at
<1>9. at .. at + (q + 1) - 1 \subseteq allocated'
  <2>1. at .. at + q - 1 \subseteq allocated
    BY <1>2, <1>4 DEF ListFrom
  <2>2. at \in Nat
    BY <1>3, <1>4
  <2> HIDE DEF at
  <2>3. at .. at + (q + 1) - 1 = (at .. at + q - 1) \cup {at + q}
    BY <2>2
  <2>4. at + q \in allocated'
    BY <1>1, <1>5 DEF at
  <2> QED  BY <2>1, <2>3, <2>4, <1>1
<1>14. /\ at + q \in Nat /\ allocated \subseteq Before(r, q)
       /\ allocated' \subseteq Before(r, q) \cup {at + q} /\ map' = map
  <2>1. allocated \subseteq Before(r, q)
    BY <1>2 DEF ListFrom
  <2>2. at \in Nat /\ Front = at + q
    BY <1>3, <1>4, <1>5
  <2> QED  BY <2>1, <2>2, <1>1
<1>10. map[r].pages - q = 1 => Pages(map[r]) \subseteq allocated'
  <2>1. map[r].pages \in Nat
    BY <1>3, <1>4
  <2> QED  BY <2>1, <1>9 DEF Pages
<1>11. \A i \in 1 .. r - 1 : Pages(map[i]) \subseteq allocated'
  BY <1>1, <1>2 DEF ListFrom
<1>12. CASE map[r].pages - q = 1
  <2>1. sysMemList' = Tail(sysMemList)
    BY <1>1, <1>5, <1>12 DEF WithoutFront
  <2>2. /\ sysMemList' \in Seq(Region1) /\ Len(sysMemList') = Len(sysMemList) - 1
        /\ \A i \in 1 .. Len(sysMemList') : sysMemList'[i] = sysMemList[i + 1]
    BY <2>1, <1>1, HeadTailProperties
  <2>3. \A i \in 1 .. r : Pages(map[i]) \subseteq allocated'
    BY <1>3, <1>4, <1>10, <1>11, <1>12
  <2>4. \A i \in 1 .. Len(sysMemList') : sysMemList'[i] = map[r + i]
    <3> TAKE i \in 1 .. Len(sysMemList')
    <3>1. i + 1 \in 2 .. Len(sysMemList) /\ r + (i + 1) - 1 = r + i
      BY <2>2, <1>3, <1>4
    <3> QED  BY <3>1, <2>2, <1>2 DEF ListFrom
  <2>5. ListFrom(r + 1, 0)'
    <3>1. Len(sysMemList') = Len(map) + 1 - (r + 1)
      BY <2>2, <1>3, <1>4
    <3>2. \A i \in 2 .. Len(sysMemList') : sysMemList'[i] = map[(r + 1) + i - 1]
      <4> TAKE i \in 2 .. Len(sysMemList')
      <4>1. i \in 1 .. Len(sysMemList') /\ (r + 1) + i - 1 = r + i
        BY <1>4
      <4> QED  BY <4>1, <2>4
    <3>3. ASSUME r + 1 <= Len(map)
          PROVE  /\ 0 < map[r + 1].pages
                 /\ sysMemList'[1] = [at |-> map[r + 1].at + 0, pages |-> map[r + 1].pages - 0]
                 /\ map[r + 1].at .. map[r + 1].at + 0 - 1 = {}
      <4>1. 1 \in 1 .. Len(sysMemList') /\ r + 1 \in 1 .. Len(map)
        BY <3>1, <3>3, <1>3, <1>4
      <4>2. sysMemList'[1] = map[r + 1]
        BY <4>1, <2>4
      <4>3. map[r + 1].at \in Nat /\ map[r + 1].pages \in Nat \ {0}
            /\ map[r + 1] = [at |-> map[r + 1].at, pages |-> map[r + 1].pages]
        BY <4>1, <1>3
      <4> QED  BY <4>2, <4>3
    <3>4. \A i \in 1 .. (r + 1) - 1 : Pages(map[i]) \subseteq allocated'
      BY <2>3, <1>4
    <3>5. allocated' \subseteq Before(r + 1, 0)'
      <4> SUFFICES ASSUME NEW p \in allocated' PROVE p \in Before(r + 1, 0)
        BY <1>14 DEF Before
      <4>1. p \in Before(r, q) \/ p = at + q
        BY <1>14
      <4>2. CASE p = at + q
        <5>1. at + q \in Pages(map[r])
          BY <1>3, <1>4, <1>5, <1>14 DEF Pages
        <5>2. r \in 1 .. (r + 1) - 1 /\ p \in Pages(map[r]) /\ p \in Nat
          BY <4>2, <5>1, <1>4, <1>14
        <5> QED  BY <5>2 DEF Before
      <4>3. CASE p \in Before(r, q)
        <5>0. at \in Nat /\ map[r].pages \in Nat /\ q < map[r].pages
          BY <1>3, <1>4, <1>5
        <5>1. at .. at + q - 1 \subseteq Pages(map[r])
          BY <5>0 DEF Pages
        <5> HIDE DEF at
        <5>2. p \in Nat /\ \E i \in 1 .. (r + 1) - 1 : p \in Pages(map[i])
          <6>1. p \in Nat /\ ((\E i \in 1 .. r - 1 : p \in Pages(map[i])) \/ p \in Pages(map[r]))
            BY <4>3, <5>1 DEF Before, at
          <6>2. r \in 1 .. (r + 1) - 1 /\ 1 .. r - 1 \subseteq 1 .. (r + 1) - 1
            BY <1>4
          <6> QED  BY <6>1, <6>2
        <5> QED  BY <5>2 DEF Before
      <4> QED  BY <4>1, <4>2, <4>3
    <3> QED  BY <3>1, <3>2, <3>3, <3>4, <3>5 DEF ListFrom
  <2>6. r + 1 \in 1 .. Len(map) + 1
    BY <1>3, <1>4
  <2> QED  BY <1>7, <1>8, <2>2, <2>5, <2>6
<1>13. CASE map[r].pages - q # 1
  <2> DEFINE rest == [at |-> Front + 1, pages |-> sysMemList[1].pages - 1]
  <2>1. sysMemList' = <<rest>> \o Tail(sysMemList)
    BY <1>1, <1>5, <1>13 DEF WithoutFront
  <2>a. map[r].at \in Nat /\ map[r].pages \in Nat
    BY <1>3, <1>4
  <2>2. rest \in Region1 /\ rest = [at |-> map[r].at + (q + 1), pages |-> map[r].pages - (q + 1)]
    <3>1. sysMemList[1].pages - 1 = map[r].pages - (q + 1) /\ map[r].pages - (q + 1) \in Nat \ {0}
      BY <2>a, <1>5, <1>13
    <3>2. Front + 1 = map[r].at + (q + 1) /\ Front + 1 \in Nat
      BY <2>a, <1>5
    <3> QED  BY <3>1, <3>2
  <2> HIDE DEF rest
  <2>3. /\ Tail(sysMemList) \in Seq(Region1) /\ Len(Tail(sysMemList)) = Len(sysMemList) - 1
        /\ \A i \in 1 .. Len(Tail(sysMemList)) : Tail(sysMemList)[i] = sysMemList[i + 1]
    BY <1>1, HeadTailProperties
  <2>4. <<rest>> \in Seq(Region1) /\ Len(<<rest>>) = 1 /\ <<rest>>[1] = rest
    BY <2>2
  <2>5. /\ sysMemList' \in Seq(Region1) /\ Len(sysMemList') = Len(sysMemList)
        /\ sysMemList'[1] = rest
        /\ \A i \in 2 .. Len(sysMemList) : sysMemList'[i] = Tail(sysMemList)[i - 1]
    BY <2>1, <2>3, <2>4, <1>3, <1>4, ConcatProperties
  <2>6. \A i \in 2 .. Len(sysMemList) : sysMemList'[i] = sysMemList[i]
    <3> TAKE i \in 2 .. Len(sysMemList)
    <3>1. i - 1 \in 1 .. Len(Tail(sysMemList)) /\ i - 1 + 1 = i
      <4>1. Len(sysMemList) \in Nat
        BY <1>3, <1>4
      <4> QED  BY <4>1, <2>3
    <3> QED  BY <3>1, <2>3, <2>5
  <2>7. q + 1 < map[r].pages
    BY <1>3, <1>4, <1>5, <1>13
  <2>b. allocated' \subseteq Before(r, q + 1)'
    <3>1. at .. at + q - 1 \subseteq at .. at + (q + 1) - 1 /\ at + q \in at .. at + (q + 1) - 1
      BY <2>a
    <3> HIDE DEF at
    <3>2. Before(r, q) \subseteq Before(r, q + 1) /\ at + q \in Before(r, q + 1)
      BY <3>1, <1>4, <1>14 DEF Before, at
    <3> QED  BY <3>2, <1>14 DEF Before
  <2>8. ListFrom(r, q + 1)'
    BY <2>b, <2>2, <2>5, <2>6, <2>7, <1>2, <1>4, <1>9, <1>11 DEF ListFrom
  <2>9. r \in 1 .. Len(map) + 1 /\ q + 1 \in Nat
    BY <1>2
  <2> QED  BY <1>7, <1>8, <2>5, <2>8, <2>9
<1> QED  BY <1>12, <1>13

\* The page that kePhysAlloc takes has not been taken before.
LEMMA FrontIsNew ==
  ASSUME ListInv, sysMemList # <<>>
  PROVE  Front \in Nat /\ Front \notin allocated
<1>1. PICK r \in 1 .. Len(map) + 1, q \in Nat : ListFrom(r, q)
  BY DEF ListInv
<1>2. /\ map \in Maps /\ DOMAIN map = 1 .. Len(map) /\ Len(map) \in Nat
      /\ \A i \in 1 .. Len(map) : map[i].at \in Nat /\ map[i].pages \in Nat \ {0}
  BY MapFacts DEF ListInv
<1>3. r \in 1 .. Len(map)
  <2>1. Len(sysMemList) \in Nat /\ Len(sysMemList) # 0
    BY EmptySeq DEF ListInv
  <2> QED  BY <2>1, <1>1, <1>2 DEF ListFrom
<1>4. Front = map[r].at + q /\ q < map[r].pages /\ allocated \subseteq Before(r, q)
  BY <1>1, <1>3 DEF ListFrom, Front
<1>5. Front \in Nat /\ Front \in Pages(map[r]) /\ Front \notin map[r].at .. map[r].at + q - 1
  BY <1>2, <1>3, <1>4 DEF Pages
<1>6. \A i \in 1 .. r - 1 : Pages(map[i]) \cap Pages(map[r]) = {}
  <2> TAKE i \in 1 .. r - 1
  <2>1. i \in DOMAIN map /\ r \in DOMAIN map /\ i # r
    BY <1>2, <1>3
  <2> QED  BY <2>1, <1>2, BootAssumption
<1> QED  BY <1>4, <1>5, <1>6 DEF Before

\* Steps that leave the list alone.
LEMMA SameList ==
  ASSUME ListInv, UNCHANGED <<sysMemList, allocated, map>>,
         kpc' \in {"stacks", "pml4", "map", "dwm", "terminal"},
         walk'.k \in 0 .. 3, kpc' # "map" => walk'.k = 3
  PROVE  ListInv'
<1>1. \E r \in 1 .. Len(map) + 1, q \in Nat : ListFrom(r, q)'
  <2>1. PICK r \in 1 .. Len(map) + 1, q \in Nat : ListFrom(r, q)
    BY DEF ListInv
  <2>2. ListFrom(r, q)'
    BY <2>1 DEF ListFrom, Before
  <2> QED  BY <2>1, <2>2
<1>2. FromBelow'
  BY DEF ListInv, FromBelow, Lower, pSysMemory
<1> QED  BY <1>1, <1>2 DEF ListInv

LEMMA ListStep ==
  ASSUME ListInv, [BootNext]_allVars
  PROVE  ListInv'
<1>1. /\ kpc \in {"stacks", "pml4", "map", "dwm", "terminal"} /\ walk.k \in 0 .. 3
      /\ kpc # "map" => walk.k = 3
      /\ map \in Maps
  BY DEF ListInv
<1>2. CASE UNCHANGED allVars
  <2>1. UNCHANGED <<sysMemList, allocated, map, kpc, walk>>
    BY <1>2 DEF allVars, physVars, bootVars
  <2> QED  BY <1>1, <2>1, SameList
<1>3. CASE KeMainMalloc \/ DwmInit \/ MallocStep
  <2>1. UNCHANGED <<sysMemList, allocated, map, kpc, walk>>
    BY <1>3 DEF KeMainMalloc, DwmInit, MallocStep, physVars, bootVars
  <2> QED  BY <1>1, <2>1, SameList
<1>4. CASE IdentityMap
  <2>1. /\ UNCHANGED <<sysMemList, allocated, map>> /\ kpc' = "map" /\ walk'.k = 0
    BY <1>4 DEF IdentityMap, MapMemory
  <2> QED  BY <1>1, <2>1, SameList
<1>5. CASE LoadTables \/ StartDwm
  <2>1. /\ UNCHANGED <<sysMemList, allocated, map, walk>> /\ walk.k = 3
        /\ kpc' \in {"dwm", "terminal"}
    BY <1>1, <1>5 DEF LoadTables, StartDwm, physVars
  <2> QED  BY <1>1, <2>1, SameList
<1>6. CASE ~Clash /\ RootTable
  <2>1. kePhysAlloc /\ map' = map /\ walk' = walk /\ kpc = "stacks" /\ kpc' = "pml4"
    BY <1>6 DEF RootTable, AllocRoot
  <2>2. /\ sysMemList' \in Seq([at : Nat, pages : Nat \ {0}])
        /\ \E r \in 1 .. Len(map) + 1, q \in Nat : ListFrom(r, q)'
        /\ IsFiniteSet(allocated') /\ FromBelow'
    BY <1>6, <2>1, PhysAllocLemma
  <2> QED  BY <2>1, <2>2, <1>1 DEF ListInv
<1>7. CASE ~Clash /\ MapStep
  <2>1. MapLevel /\ map' = map /\ kpc' = kpc
    BY <1>7 DEF MapStep, bootVars
  <2>2. walk.k \in 0 .. 2 /\ kpc = "map"
    BY <1>1, <2>1 DEF MapLevel
  <2>3. walk'.k \in 0 .. 3
    <3>1. walk'.k = 3 \/ walk'.k = walk.k + 1
      BY <2>1 DEF MapLevel
    <3> QED  BY <2>2, <3>1
  <2>4. CASE UNCHANGED <<sysMemList, allocated>>
    BY <2>1, <2>2, <2>3, <2>4, SameList
  <2>5. CASE kePhysAlloc
    <3>1. /\ sysMemList' \in Seq([at : Nat, pages : Nat \ {0}])
          /\ \E r \in 1 .. Len(map) + 1, q \in Nat : ListFrom(r, q)'
          /\ IsFiniteSet(allocated') /\ FromBelow'
      BY <1>7, <2>1, <2>5, PhysAllocLemma
    <3> QED  BY <1>1, <2>1, <2>2, <2>3, <3>1 DEF ListInv
  <2>6. kePhysAlloc \/ UNCHANGED <<sysMemList, allocated>>
    BY <2>1 DEF MapLevel
  <2> QED  BY <2>4, <2>5, <2>6
<1> QED  BY <1>2, <1>3, <1>4, <1>5, <1>6, <1>7 DEF BootNext

--------------------------------------------------------------------------------
LEMMA BlocksFit ==
  ASSUME NEW size \in Nat, NEW len \in Nat \ {0}, NEW b \in Nat, b < size \div len
  PROVE  (b + 1) * len <= size
<1>1. size = len * (size \div len) + (size % len) /\ size \div len \in Nat /\ size % len \in Nat
  OBVIOUS
<1> DEFINE d == size \div len
<1>2. b + 1 <= d
  BY <1>1
<1> HIDE DEF d
<1>3. d \in Nat /\ size >= len * d
  BY <1>1 DEF d
<1>4. \A x, y, k \in Nat : x <= y => x * k <= y * k
  OBVIOUS
<1>5. (b + 1) * len <= d * len
  BY <1>2, <1>3, <1>4
<1> QED  BY <1>3, <1>5

LEMMA InMemory ==
  ASSUME SysInv, NoHoles, ListInv, ~raced, demand <= BlocksInMemory, NEW b \in Taken
  PROVE  PagesOf(b) \subseteq Pages(map[Largest(map)])
<1> DEFINE L == Largest(map)
<1>1. /\ map \in Maps /\ L \in 1 .. Len(map) /\ DOMAIN map = 1 .. Len(map) /\ Len(map) \in Nat
      /\ map[L].at \in Nat /\ map[L].pages \in Nat
  BY MapFacts DEF ListInv
<1>2. b \in Nat /\ b < BlocksInMemory
  <2>1. b \in Block /\ b \in bitMap
    BY DEF Taken, SysInv, Serial, UsedIsMarked
  <2>2. PICK m \in 0 .. NBlocks : FirstFit(m)
    BY DEF NoHoles
  <2>3. b \in Nat /\ b <= m - 1 /\ m <= demand /\ demand \in Nat /\ m \in Nat
    BY <2>1, <2>2 DEF FirstFit, NoHoles
  <2>4. BlocksInMemory \in Nat
    <3>1. BlockPages \in Nat \ {0}
      BY BootAssumption
    <3>2. sysMemorySize \in Nat
      BY <1>1 DEF sysMemorySize
    <3> QED  BY <3>1, <3>2 DEF BlocksInMemory
  <2> QED  BY <2>3, <2>4
<1>3. (b + 1) * BlockPages <= map[L].pages
  BY <1>1, <1>2, BlocksFit, BootAssumption DEF BlocksInMemory, sysMemorySize
<1>4. b * BlockPages \in Nat /\ (b + 1) * BlockPages \in Nat
  BY <1>2, BootAssumption
<1> QED  BY <1>1, <1>3, <1>4 DEF PagesOf, Pages, pSysMemory

LEMMA ExactLemma == SysInv /\ NoHoles /\ ListInv => ClashExact
<1> SUFFICES ASSUME SysInv, NoHoles, ListInv, ~raced, demand <= BlocksInMemory
             PROVE  /\ \A b \in Taken : PagesOf(b) \subseteq Pages(map[Largest(map)])
                    /\ Clash <=> Cardinality(allocated) > Cardinality(Lower)
  BY DEF ClashExact
<1>1. \A b \in Taken : PagesOf(b) \subseteq Pages(map[Largest(map)])
  BY InMemory
<1>2. map \in Maps /\ IsFiniteSet(allocated)
  BY DEF ListInv
<1>3. CASE allocated \subseteq Lower
  <2>1. ~Clash
    BY <1>1, <1>2, <1>3, LowerFacts DEF Clash
  <2>2. /\ Cardinality(allocated) <= Cardinality(Lower)
        /\ Cardinality(allocated) \in Nat /\ Cardinality(Lower) \in Nat
    BY <1>2, <1>3, LowerFacts, FS_Subset, FS_CardinalityType
  <2> QED  BY <1>1, <2>1, <2>2
<1>4. CASE pSysMemory \in allocated /\ Cardinality(allocated) > Cardinality(Lower)
  BY <1>1, <1>2, <1>4, BitmapClash
<1> QED  BY <1>3, <1>4 DEF ListInv, FromBelow

\* For memory maps with regions of any sizes and bitmaps of any size, and as long as the
\* calls of KeSysMalloc come one at a time and do not ask for more than there is: its
\* blocks are in memory, and the two allocators hand out the same page exactly when the
\* pages before the largest region do not last for the page tables.
THEOREM BootClashExact == BootSpec => []ClashExact
<1>1. BootSpec => []SysInv
  <2>1. BootInit => SysInv
    BY InitLemma DEF BootInit
  <2>2. SysInv /\ [BootNext]_allVars => SysInv'
    BY BootStep, StepLemma DEF allVars
  <2> QED  BY <2>1, <2>2, PTL DEF BootSpec
<1>2. SysInv /\ NoHoles /\ [BootNext]_allVars => NoHoles'
  BY BootNoHoles
<1>3. ListInv /\ [BootNext]_allVars => ListInv'
  BY ListStep
<1> QED  BY <1>1, <1>2, <1>3, NoHolesInit, ListInit, ExactLemma, PTL DEF BootSpec

--------------------------------------------------------------------------------
(* The identity map: quotients and remainders                              *)

LEMMA DivFacts ==
  ASSUME NEW x \in Nat, NEW m \in Nat \ {0}
  PROVE  x \div m \in Nat /\ x % m \in 0 .. m - 1 /\ x = m * (x \div m) + (x % m)
OBVIOUS

LEMMA DivUnique ==
  ASSUME NEW m \in Nat \ {0}, NEW q \in Nat, NEW r \in 0 .. m - 1
  PROVE  (m * q + r) \div m = q /\ (m * q + r) % m = r
OBVIOUS

LEMMA Spans ==
  /\ Span(0) \in Nat \ {0} /\ Span(1) \in Nat \ {0} /\ Span(2) \in Nat \ {0} /\ Span(3) = 1
  /\ \A k \in 1 .. 3 : Span(k - 1) = Span(k) * Radix /\ Span(k) \in Nat \ {0} /\ Span(k - 1) \in Nat \ {0}
<1>1. /\ Span(3) = 1 /\ Span(2) = Radix /\ Span(1) = Radix * Radix
      /\ Span(0) = Radix * Radix * Radix
  BY DEF Span
<1>2. Radix \in Nat \ {0} /\ Radix * Radix \in Nat \ {0} /\ Radix * Radix * Radix \in Nat \ {0}
  BY RadixAssumption
<1>3. Span(0) = Span(1) * Radix /\ Span(1) = Span(2) * Radix /\ Span(2) = Span(3) * Radix
  BY <1>1, <1>2
<1>4. /\ Span(0) \in Nat \ {0} /\ Span(1) \in Nat \ {0} /\ Span(2) \in Nat \ {0} /\ Span(3) = 1
  BY <1>1, <1>2
<1>5. ASSUME NEW k \in 1 .. 3
      PROVE  Span(k - 1) = Span(k) * Radix /\ Span(k) \in Nat \ {0} /\ Span(k - 1) \in Nat \ {0}
  <2>1. k = 1 \/ k = 2 \/ k = 3
    OBVIOUS
  <2>2. CASE k = 1
    BY <1>3, <1>4, <2>2
  <2>3. CASE k = 2
    BY <1>3, <1>4, <2>3
  <2>4. CASE k = 3
    BY <1>3, <1>4, <2>4
  <2> QED  BY <2>1, <2>2, <2>3, <2>4
<1> QED  BY <1>4, <1>5

\* The index at level k of an address that lies w pages into what an entry of the table
\* above stands for.
LEMMA IndexLemma ==
  ASSUME NEW k \in 1 .. 3, NEW a \in Nat, NEW w \in 0 .. Span(k - 1) - 1, NEW v,
         v = Span(k - 1) * a + w
  PROVE  /\ IndexOf(k, v) = w \div Span(k) /\ w \div Span(k) \in Index
         /\ v % Span(k) = w % Span(k)
<1> DEFINE S == Span(k)
           d == w \div S
           e == w % S
<1>1. S \in Nat \ {0} /\ Span(k - 1) = S * Radix /\ Radix \in Nat \ {0} /\ w \in Nat /\ w < S * Radix
  BY Spans, RadixAssumption
<1>2. d \in Nat /\ e \in 0 .. S - 1 /\ w = S * d + e
  <2> HIDE DEF S
  <2> QED  BY <1>1, DivFacts
<1> HIDE DEF S, d, e
<1>3. d < Radix
  <2> SUFFICES ASSUME d >= Radix PROVE FALSE
    BY <1>1, <1>2
  <2>1. S * d >= S * Radix
    BY <1>1, <1>2
  <2>2. S * d \in Nat /\ S * Radix \in Nat /\ e \in Nat
    BY <1>1, <1>2
  <2> QED  BY <1>1, <1>2, <2>1, <2>2
<1>4. v = S * (Radix * a + d) + e /\ Radix * a + d \in Nat
  <2>1. S * Radix * a = S * (Radix * a) /\ S * (Radix * a + d) = S * (Radix * a) + S * d
    BY <1>1, <1>2
  <2>2. S * (Radix * a) \in Nat /\ S * d \in Nat /\ Radix * a \in Nat
    BY <1>1, <1>2
  <2> QED  BY <1>1, <1>2, <2>1, <2>2
<1>5. v \div S = Radix * a + d /\ v % S = e
  <2> DEFINE q == Radix * a + d
  <2> HIDE DEF q
  <2>1. (S * q + e) \div S = q /\ (S * q + e) % S = e
    <3>1. S \in Nat \ {0} /\ q \in Nat /\ e \in 0 .. S - 1
      BY <1>1, <1>2, <1>4 DEF q
    <3> QED  BY <3>1, DivUnique
  <2> QED  BY <2>1, <1>4 DEF q
<1>6. (Radix * a + d) % Radix = d
  <2>1. d \in 0 .. Radix - 1
    BY <1>1, <1>2, <1>3
  <2> QED  BY <1>1, <2>1, DivUnique
<1>7. IndexOf(k, v) = d
  BY <1>5, <1>6 DEF IndexOf, S
<1> QED  BY <1>1, <1>2, <1>3, <1>5, <1>7 DEF Index, S, d, e

--------------------------------------------------------------------------------
(* What keMapMemory does at each level, for n pages mapped to themselves   *)

\* What is left of n pages when the large pages of the levels above k are taken off, how
\* many pages of level k that makes, and where they begin.
Rest(k, n) == CASE k = 1 -> n [] k = 2 -> n % Span(1) [] k = 3 -> (n % Span(1)) % Span(2) [] OTHER -> 0
Digit(k, n) == IF k = 0 THEN 0 ELSE Rest(k, n) \div Span(k)
Base(k, n) == n - Rest(k, n)

LEMMA RestFacts ==
  ASSUME NEW n \in 0 .. Span(0), NEW k \in 1 .. 3
  PROVE  /\ Rest(k, n) \in 0 .. Span(k - 1) /\ Digit(k, n) \in 0 .. Radix
         /\ Rest(k + 1, n) = Rest(k, n) % Span(k)
         /\ Rest(k, n) = Span(k) * Digit(k, n) + Rest(k + 1, n)
         /\ Rest(k + 1, n) \in 0 .. Span(k) - 1
         /\ Rest(k + 1, n) # 0 => Digit(k, n) \in Index
         /\ Base(k + 1, n) = Base(k, n) + Digit(k, n) * Span(k)
         /\ Base(k, n) \in Nat
<1>1. Radix \in Nat \ {0} /\ n \in Nat
  BY RadixAssumption, Spans
<1>2. ASSUME NEW j \in 1 .. 3, Rest(j, n) \in 0 .. Span(j - 1)
      PROVE  /\ Digit(j, n) \in 0 .. Radix
             /\ Rest(j, n) = Span(j) * Digit(j, n) + (Rest(j, n) % Span(j))
             /\ Rest(j, n) % Span(j) \in 0 .. Span(j) - 1
             /\ Rest(j, n) % Span(j) # 0 => Digit(j, n) \in Index
  <2> DEFINE r == Rest(j, n)
             S == Span(j)
             d == r \div S
             e == r % S
  <2>1. S \in Nat \ {0} /\ Span(j - 1) = S * Radix /\ r \in Nat /\ r <= S * Radix
    BY <1>2, Spans
  <2>2. Digit(j, n) = d
    BY DEF Digit
  <2>3. d \in Nat /\ e \in 0 .. S - 1 /\ r = S * d + e
    <3> HIDE DEF S, r
    <3> QED  BY <2>1, DivFacts
  <2> HIDE DEF S, r, d, e
  <2>4. S * d \in Nat /\ S * Radix \in Nat /\ e \in Nat
    BY <1>1, <2>1, <2>3
  <2>5. d <= Radix
    <3> SUFFICES ASSUME d >= Radix + 1 PROVE FALSE
      BY <1>1, <2>3
    <3>1. S * d >= S * (Radix + 1) /\ S * (Radix + 1) = S * Radix + S
      BY <1>1, <2>1, <2>3
    <3> QED  BY <2>1, <2>3, <2>4, <3>1
  <2>6. e # 0 => d # Radix
    <3> SUFFICES ASSUME e # 0, d = Radix PROVE FALSE
      OBVIOUS
    <3> QED  BY <2>1, <2>3, <2>4
  <2> QED  BY <1>1, <2>2, <2>3, <2>5, <2>6 DEF Index, r, S, d, e
<1>3. Rest(1, n) \in 0 .. Span(1 - 1)
  BY DEF Rest
<1>4. Rest(2, n) = Rest(1, n) % Span(1) /\ Rest(2, n) \in 0 .. Span(2 - 1)
  <2>1. Rest(2, n) = Rest(1, n) % Span(1)
    BY DEF Rest
  <2> QED  BY <1>2, <1>3, <2>1, Spans
<1>5. Rest(3, n) = Rest(2, n) % Span(2) /\ Rest(3, n) \in 0 .. Span(3 - 1)
  <2>1. Rest(3, n) = Rest(2, n) % Span(2)
    BY DEF Rest
  <2> QED  BY <1>2, <1>4, <2>1, Spans
<1>6. Rest(4, n) = Rest(3, n) % Span(3)
  <2>1. Rest(4, n) = 0
    BY DEF Rest
  <2>2. Rest(3, n) % Span(3) \in 0 .. Span(3) - 1
    BY <1>2, <1>5
  <2> QED  BY <2>1, <2>2, Spans
<1>7. \A j \in 1 .. 3 : /\ Rest(j, n) \in 0 .. Span(j - 1)
                        /\ Rest(j + 1, n) = Rest(j, n) % Span(j)
  <2> TAKE j \in 1 .. 3
  <2>1. j = 1 \/ j = 2 \/ j = 3
    OBVIOUS
  <2> QED  BY <2>1, <1>3, <1>4, <1>5, <1>6
<1>8. /\ Rest(k, n) \in 0 .. Span(k - 1) /\ Digit(k, n) \in 0 .. Radix
      /\ Rest(k + 1, n) = Rest(k, n) % Span(k)
      /\ Rest(k, n) = Span(k) * Digit(k, n) + Rest(k + 1, n)
      /\ Rest(k + 1, n) \in 0 .. Span(k) - 1
      /\ Rest(k + 1, n) # 0 => Digit(k, n) \in Index
  BY <1>2, <1>7
<1>9. Span(k) * Digit(k, n) = Digit(k, n) * Span(k) /\ Digit(k, n) * Span(k) \in Nat
  <2>1. Span(k) \in Nat /\ Digit(k, n) \in Nat
    BY <1>8, <1>1, Spans
  <2> QED  BY <2>1
<1>10. Base(k + 1, n) = Base(k, n) + Digit(k, n) * Span(k)
  <2>1. Rest(k, n) \in Nat /\ Rest(k + 1, n) \in Nat
    <3>1. Span(k) \in Nat /\ Span(k - 1) \in Nat
      BY Spans
    <3> QED  BY <3>1, <1>8
  <2> QED  BY <1>1, <1>8, <1>9, <2>1 DEF Base
<1>11. Base(k, n) \in Nat
  <2>1. \A j \in 1 .. 3 : Rest(j + 1, n) \in Nat /\ Rest(j, n) \in Nat /\ Rest(j + 1, n) <= Rest(j, n)
    <3> TAKE j \in 1 .. 3
    <3>1. /\ Rest(j, n) = Span(j) * Digit(j, n) + Rest(j + 1, n)
          /\ Rest(j + 1, n) \in Nat /\ Digit(j, n) \in Nat /\ Span(j) \in Nat
      <4>1. Span(j) \in Nat /\ Rest(j, n) % Span(j) \in 0 .. Span(j) - 1
        BY <1>2, <1>7, Spans
      <4>2. Digit(j, n) \in Nat /\ Rest(j + 1, n) \in Nat
        BY <1>1, <1>2, <1>7, <4>1
      <4> QED  BY <1>2, <1>7, <4>1, <4>2
    <3>2. Span(j) * Digit(j, n) \in Nat
      BY <3>1
    <3> QED  BY <3>1, <3>2
  <2>2. Rest(1, n) = n
    BY DEF Rest
  <2>3. Rest(2, n) <= n /\ Rest(3, n) <= n /\ Rest(2, n) \in Nat /\ Rest(3, n) \in Nat
    <3>1. Rest(1 + 1, n) <= Rest(1, n) /\ Rest(1 + 1, n) \in Nat
      BY <2>1
    <3>2. Rest(2 + 1, n) <= Rest(2, n) /\ Rest(2 + 1, n) \in Nat
      BY <2>1
    <3> QED  BY <1>1, <2>2, <3>1, <3>2
  <2>4. k = 1 \/ k = 2 \/ k = 3
    OBVIOUS
  <2> QED  BY <1>1, <2>2, <2>3, <2>4 DEF Base
<1> QED  BY <1>8, <1>10, <1>11

\* The pages of level k begin at a multiple of what an entry above stands for.
LEMMA BaseFacts ==
  ASSUME NEW n \in 0 .. Span(0), NEW k \in 1 .. 3
  PROVE  \E a \in Nat : Base(k, n) = Span(k - 1) * a
<1> USE Spans, RadixAssumption
<1>1. n \in Nat
  OBVIOUS
<1>2. Base(1, n) = Span(0) * 0
  BY <1>1 DEF Base, Rest
<1>3. Base(2, n) = Span(1) * Digit(1, n) /\ Digit(1, n) \in Nat
  <2>1. Base(1 + 1, n) = Base(1, n) + Digit(1, n) * Span(1) /\ Digit(1, n) \in Nat
    BY RestFacts
  <2> QED  BY <1>2, <2>1
<1>4. /\ Base(3, n) = Span(2) * (Radix * Digit(1, n) + Digit(2, n))
      /\ Radix * Digit(1, n) + Digit(2, n) \in Nat
  <2>1. Base(2 + 1, n) = Base(2, n) + Digit(2, n) * Span(2) /\ Digit(2, n) \in Nat
    BY RestFacts
  <2>2. Span(1) = Span(2) * Radix
    <3>1. Span(2 - 1) = Span(2) * Radix
      OBVIOUS
    <3> QED  BY <3>1
  <2> HIDE Spans
  <2>3. Span(2) \in Nat /\ Radix \in Nat /\ Digit(1, n) \in Nat
    BY <1>3, Spans
  <2> DEFINE x == Digit(1, n)
             y == Digit(2, n)
  <2> HIDE DEF x, y
  <2>4. Span(2) * Radix * x + y * Span(2) = Span(2) * (Radix * x + y) /\ Radix * x + y \in Nat
    BY <2>1, <2>3 DEF x, y
  <2> QED  BY <1>3, <2>1, <2>2, <2>4 DEF x, y
<1>5. k = 1 \/ k = 2 \/ k = 3
  OBVIOUS
<1>6. CASE k = 1
  BY <1>2, <1>6
<1>7. CASE k = 2
  BY <1>3, <1>7
<1>8. CASE k = 3
  BY <1>4, <1>8
<1> QED  BY <1>5, <1>6, <1>7, <1>8

--------------------------------------------------------------------------------
(* The tables: s of them below pml4, t[k] the one at level k               *)

\* The table at level k when the levels down to s are made.
Table(k, s, t, n) ==
  [i \in Index |->
     IF i < Digit(k, n) THEN [at |-> Base(k, n) + i * Span(k), present |-> TRUE, ps |-> k # 3]
     ELSE IF k < s /\ i = Digit(k, n) THEN [at |-> t[k + 1], present |-> TRUE, ps |-> FALSE]
     ELSE Empty]

Reached(s, t) ==
  /\ t[0] = pml4 /\ allocated = {t[k] : k \in 0 .. s} /\ DOMAIN entries = allocated
  /\ \A j, k \in 0 .. s : t[j] = t[k] => j = k
  /\ \A k \in 0 .. s : entries[t[k]] = Table(k, s, t, mapped)

WalkAt(s, t) ==
  walk = [k |-> IF s > 0 /\ Rest(s + 1, mapped) = 0 THEN 3 ELSE s, table |-> t[s],
          virt |-> Base(s + 1, mapped), phys |-> Base(s + 1, mapped), left |-> Rest(s + 1, mapped)]

TablesInv ==
  /\ mapped \in 0 .. Span(0)
  /\ kpc = "stacks" => sysMemList = map /\ allocated = {} /\ entries = <<>>
  /\ kpc = "pml4" => allocated = {pml4} /\ entries = [p \in {pml4} |-> [i \in Index |-> Empty]]
  /\ kpc \in {"map", "dwm", "terminal"} =>
       \E s \in 0 .. 3, t \in [0 .. 3 -> Nat] : Reached(s, t) /\ WalkAt(s, t)

LEMMA BaseIndex ==
  ASSUME NEW n \in 0 .. Span(0), NEW k \in 1 .. 3
  PROVE  IndexOf(k, Base(k, n)) = 0 /\ Base(k, n) \in Nat
<1>1. PICK a \in Nat : Base(k, n) = Span(k - 1) * a
  BY BaseFacts
<1>2. Span(k - 1) \in Nat \ {0} /\ Span(k) \in Nat \ {0}
  BY Spans
<1>3. 0 \in 0 .. Span(k - 1) - 1 /\ Base(k, n) = Span(k - 1) * a + 0 /\ Base(k, n) \in Nat
  <2> DEFINE S == Span(k - 1)
  <2> HIDE DEF S
  <2>1. S \in Nat \ {0}
    BY <1>2 DEF S
  <2>2. S * a \in Nat
    BY <2>1
  <2> QED  BY <1>1, <2>1, <2>2 DEF S
<1>4. IndexOf(k, Base(k, n)) = 0 \div Span(k)
  BY <1>3, IndexLemma
<1>5. 0 \div Span(k) = 0
  <2> DEFINE S == Span(k)
  <2> HIDE DEF S
  <2>1. \A m \in Nat \ {0} : 0 \div m = 0
    OBVIOUS
  <2> QED  BY <1>2, <2>1
<1> QED  BY <1>3, <1>4, <1>5

\* The walk goes on with the entry behind the pages of its level.
LEMMA NextIndex ==
  ASSUME NEW n \in 0 .. Span(0), NEW s \in 0 .. 2, s > 0 => Rest(s + 1, n) # 0
  PROVE  IndexOf(s, Base(s + 1, n)) = Digit(s, n) /\ Digit(s, n) \in Index
<1>1. CASE s = 0
  <2>1. n \in Nat /\ Base(1, n) = 0 /\ Digit(0, n) = 0
    BY Spans DEF Base, Rest, Digit
  <2>2. \A m \in Nat \ {0} : 0 \div m = 0 /\ 0 % m = 0
    OBVIOUS
  <2>3. (0 \div Span(0)) % Radix = 0
    BY <2>2, Spans, RadixAssumption
  <2> QED  BY <1>1, <2>1, <2>3, RadixAssumption DEF IndexOf, Index
<1>2. CASE s > 0
  <2> DEFINE S == Span(s)
             q == Digit(s, n)
             w == q * S
  <2>1. s \in 1 .. 3 /\ q \in Index /\ Base(s + 1, n) = Base(s, n) + w
    BY <1>2, RestFacts
  <2>2. PICK a \in Nat : Base(s, n) = Span(s - 1) * a
    BY <2>1, BaseFacts
  <2>3. S \in Nat \ {0} /\ Span(s - 1) = S * Radix /\ q \in 0 .. Radix - 1 /\ Radix \in Nat
    BY <2>1, Spans, RadixAssumption DEF Index
  <2>4. w \in 0 .. S * Radix - 1 /\ w \div S = q
    <3> HIDE DEF S, q
    <3>1. w = S * q + 0 /\ 0 \in 0 .. S - 1 /\ q \in Nat
      BY <2>3
    <3>2. (S * q + 0) \div S = q
      BY <3>1, <2>3, DivUnique
    <3>3. S * q + S <= S * Radix
      <4>1. q + 1 <= Radix
        BY <2>3
      <4>2. \A x, y, z \in Nat : x <= y => z * x <= z * y
        OBVIOUS
      <4>3. S * (q + 1) <= S * Radix
        BY <4>1, <4>2, <2>3
      <4>4. S * (q + 1) = S * q + S
        BY <2>3
      <4> QED  BY <4>3, <4>4
    <3>4. S * q \in Nat /\ S * Radix \in Nat
      BY <2>3
    <3> QED  BY <3>1, <3>2, <3>3, <3>4, <2>3
  <2>5. Base(s + 1, n) = Span(s - 1) * a + w /\ w \in 0 .. Span(s - 1) - 1
    BY <2>1, <2>2, <2>3, <2>4
  <2>6. IndexOf(s, Base(s + 1, n)) = w \div Span(s)
    <3> HIDE DEF w
    <3> QED  BY <2>1, <2>5, IndexLemma
  <2> QED  BY <2>1, <2>4, <2>6
<1> QED  BY <1>1, <1>2

LEMMA FilledTable ==
  ASSUME NEW n \in 0 .. Span(0), NEW k \in 1 .. 3, NEW t
  PROVE  Filled([i \in Index |-> Empty], k, Base(k, n), Base(k, n), Digit(k, n), k # 3)
           = Table(k, k, t, n)
<1>1. IndexOf(k, Base(k, n)) = 0
  BY BaseIndex
<1>2. \A i \in Index : (i + Radix - 0) % Radix = i
  <2> TAKE i \in Index
  <2>1. Radix \in Nat \ {0} /\ i \in 0 .. Radix - 1
    BY RadixAssumption DEF Index
  <2>2. (Radix * 1 + i) % Radix = i
    BY <2>1, DivUnique
  <2>3. i + Radix - 0 = Radix * 1 + i
    BY <2>1
  <2> QED  BY <2>2, <2>3
<1> DEFINE zero == [i \in Index |-> Empty]
           b == Base(k, n)
           entry(i) == IF i < Digit(k, n) THEN [at |-> b + i * Span(k), present |-> TRUE, ps |-> k # 3]
                       ELSE Empty
<1>3. Filled(zero, k, b, b, Digit(k, n), k # 3) = [i \in Index |-> entry(i)]
  <2>1. \A i \in Index : zero[i] = Empty
    OBVIOUS
  <2> HIDE DEF zero
  <2> QED  BY <1>1, <1>2, <2>1 DEF Filled
<1>4. Table(k, k, t, n) = [i \in Index |-> entry(i)]
  <2>1. ~(k < k)
    OBVIOUS
  <2> QED  BY <2>1 DEF Table
<1> QED  BY <1>3, <1>4

Pointing(table, i, page) == [table EXCEPT ![i] = [at |-> page, present |-> TRUE, ps |-> FALSE]]

LEMMA LinkedTable ==
  ASSUME NEW n \in 0 .. Span(0), NEW k \in 0 .. 2, NEW t, NEW u, Digit(k, n) \in Index
  PROVE  Pointing(Table(k, k, t, n), Digit(k, n), u[k + 1]) = Table(k, k + 1, u, n)
<1>1. ~(k < k) /\ k < k + 1 /\ ~(Digit(k, n) < Digit(k, n))
  BY RadixAssumption DEF Index
<1> QED  BY <1>1 DEF Table, Pointing

LEMMA SameTable ==
  ASSUME NEW n, NEW s \in 0 .. 2, NEW k \in 0 .. s, k < s, NEW t, NEW u, u[k + 1] = t[k + 1]
  PROVE  Table(k, s, t, n) = Table(k, s + 1, u, n)
<1>1. k < s + 1
  OBVIOUS
<1> QED  BY <1>1 DEF Table

--------------------------------------------------------------------------------
(* Every step makes the tables it should                                   *)

LEMMA TablesInit == BootInit => TablesInv
<1> SUFFICES ASSUME BootInit PROVE TablesInv
  OBVIOUS
<1>1. kpc = "stacks" /\ sysMemList = map /\ allocated = {} /\ entries = <<>> /\ mapped = 0
  BY DEF BootInit, PhysInit
<1> QED  BY <1>1, Spans DEF TablesInv

\* One iteration of keMapMemory.
LEMMA LevelStep ==
  ASSUME ListInv, TablesInv, MapLevel, UNCHANGED <<map, kpc, mapped>>
  PROVE  TablesInv'
<1>1. walk.k \in 0 .. 2 /\ kpc = "map" /\ mapped \in 0 .. Span(0)
  BY DEF ListInv, TablesInv, MapLevel
<1>2. PICK s \in 0 .. 3, t \in [0 .. 3 -> Nat] : Reached(s, t) /\ WalkAt(s, t)
  BY <1>1 DEF TablesInv
<1> DEFINE n == mapped
           b == Base(s + 1, n)
           q == Digit(s, n)
           num == Digit(s + 1, n)
           zero == [i \in Index |-> Empty]
           link == [at |-> Front, present |-> TRUE, ps |-> FALSE]
<1>3. /\ s \in 0 .. 2 /\ walk.k = s
      /\ s > 0 => Rest(s + 1, n) # 0
      /\ walk.table = t[s] /\ walk.virt = b /\ walk.phys = b /\ walk.left = Rest(s + 1, n)
  BY <1>1, <1>2 DEF WalkAt
<1>4. IndexOf(s, b) = q /\ q \in Index
  BY <1>1, <1>3, NextIndex
<1>5. entries[t[s]] = Table(s, s, t, n) /\ entries[t[s]][q] = Empty
  <2>1. entries[t[s]] = Table(s, s, t, n)
    BY <1>2, <1>3 DEF Reached
  <2>2. ~(q < q) /\ ~(s < s)
    BY <1>3, <1>4, RadixAssumption DEF Index
  <2> QED  BY <2>1, <2>2, <1>4 DEF Table
<1>6. /\ Rest(s + 1, n) \div Span(s + 1) = num
      /\ Rest(s + 1, n) - num * Span(s + 1) = Rest(s + 2, n)
      /\ b + num * Span(s + 1) = Base(s + 2, n)
  <2>1. s + 1 \in 1 .. 3 /\ s + 1 # 0 /\ (s + 1) + 1 = s + 2
    BY <1>3
  <2>2. /\ Rest(s + 1, n) = Span(s + 1) * num + Rest(s + 2, n)
        /\ Base(s + 2, n) = b + num * Span(s + 1)
        /\ num \in 0 .. Radix /\ Rest(s + 2, n) \in 0 .. Span(s + 1) - 1
    BY <1>1, <2>1, RestFacts
  <2>3. Span(s + 1) \in Nat
    BY <2>1, Spans
  <2> DEFINE S == Span(s + 1)
             r == Rest(s + 2, n)
  <2>4. Rest(s + 1, n) \div Span(s + 1) = num
    BY <2>1 DEF Digit
  <2>5. S \in Nat /\ num \in Nat /\ r \in Nat /\ Rest(s + 1, n) = S * num + r
    BY <2>2, <2>3, RadixAssumption
  <2> HIDE DEF S, r, num
  <2>6. S * num = num * S /\ S * num \in Nat
    BY <2>5
  <2>7. Rest(s + 1, n) - num * S = r
    BY <2>5, <2>6
  <2> QED  BY <2>2, <2>4, <2>7 DEF S, r, num
<1>7. /\ kePhysAlloc
      /\ entries' = [[ZeroedTable(Front) EXCEPT ![t[s]][q] = link]
                       EXCEPT ![Front] = Filled(@, s + 1, b, b, num, s # 2)]
      /\ walk' = [k |-> IF Rest(s + 2, n) = 0 THEN 3 ELSE s + 1, table |-> Front,
                  virt |-> Base(s + 2, n), phys |-> Base(s + 2, n), left |-> Rest(s + 2, n)]
  <2>1. ~entries[walk.table][IndexOf(walk.k, walk.virt)].present
    BY <1>3, <1>4, <1>5 DEF Empty
  <2> HIDE DEF n, b, q, num
  <2> QED  BY <2>1, <1>3, <1>4, <1>6 DEF MapLevel
<1>8. Front \in Nat /\ Front \notin allocated /\ allocated' = allocated \cup {Front}
  BY <1>7, FrontIsNew DEF kePhysAlloc
<1>17. PICK page \in Nat : page = Front
  BY <1>8
<1> DEFINE u == [t EXCEPT ![s + 1] = page]
<1>9. /\ u \in [0 .. 3 -> Nat] /\ u[s + 1] = Front /\ s + 1 \in 0 .. 3
      /\ \A k \in 0 .. s : u[k] = t[k] /\ t[k] \in allocated /\ t[k] # Front
  <2>1. \A k \in 0 .. s : t[k] \in allocated
    BY <1>2 DEF Reached
  <2> QED  BY <2>1, <1>3, <1>8, <1>17
<1>10. /\ DOMAIN entries = allocated /\ allocated = {t[k] : k \in 0 .. s}
       /\ \A j, k \in 0 .. s : t[j] = t[k] => j = k
       /\ \A k \in 0 .. s : entries[t[k]] = Table(k, s, t, n)
  BY <1>2 DEF Reached
<1>11. /\ DOMAIN entries' = allocated'
       /\ entries'[Front] = Filled(zero, s + 1, b, b, num, s # 2)
       /\ entries'[t[s]] = [entries[t[s]] EXCEPT ![q] = link]
       /\ \A p \in allocated : p # t[s] => entries'[p] = entries[p]
  <2> DEFINE z == ZeroedTable(Front)
             l == [z EXCEPT ![t[s]][q] = link]
  <2>1. /\ DOMAIN z = allocated \cup {Front} /\ z[Front] = zero
        /\ \A p \in allocated : z[p] = entries[p]
    BY <1>8, <1>10 DEF ZeroedTable
  <2> HIDE DEF z
  <2>2. /\ DOMAIN l = allocated \cup {Front} /\ l[Front] = zero
        /\ l[t[s]] = [entries[t[s]] EXCEPT ![q] = link]
        /\ \A p \in allocated : p # t[s] => l[p] = entries[p]
    <3>1. t[s] \in allocated /\ t[s] # Front
      BY <1>3, <1>9
    <3> HIDE DEF zero, link, q
    <3> QED  BY <2>1, <3>1, <1>8
  <2>3. entries' = [l EXCEPT ![Front] = Filled(@, s + 1, b, b, num, s # 2)]
    BY <1>7 DEF z
  <2>4. t[s] \in allocated /\ t[s] # Front
    BY <1>3, <1>9
  <2> HIDE DEF l, zero, link, q, b, num
  <2> QED  BY <2>2, <2>3, <2>4, <1>8
<1>12. entries'[u[s + 1]] = Table(s + 1, s + 1, u, n)
  <2>1. (s # 2) = (s + 1 # 3) /\ s + 1 \in 1 .. 3
    BY <1>3
  <2>2. Filled(zero, s + 1, b, b, num, s + 1 # 3) = Table(s + 1, s + 1, u, n)
    BY <1>1, <2>1, FilledTable
  <2> HIDE DEF u, zero, b, num
  <2> QED  BY <2>1, <2>2, <1>9, <1>11
<1>13. entries'[u[s]] = Table(s, s + 1, u, n)
  <2>1. Pointing(Table(s, s, t, n), q, u[s + 1]) = Table(s, s + 1, u, n)
    <3> HIDE DEF u
    <3> QED  BY <1>1, <1>3, <1>4, LinkedTable
  <2>2. u[s] = t[s]
    BY <1>3, <1>9
  <2> HIDE DEF u
  <2> QED  BY <2>1, <2>2, <1>5, <1>9, <1>11, <1>17 DEF Pointing
<1>14. ASSUME NEW k \in 0 .. s, k < s PROVE entries'[u[k]] = Table(k, s + 1, u, n)
  <2>1. k + 1 \in 0 .. s /\ k \in 0 .. s /\ s \in 0 .. s
    BY <1>3, <1>14
  <2>2. u[k + 1] = t[k + 1] /\ u[k] = t[k]
    BY <2>1, <1>9
  <2>3. Table(k, s, t, n) = Table(k, s + 1, u, n)
    <3> HIDE DEF u
    <3> QED  BY <2>2, <1>3, <1>14, SameTable
  <2>4. t[k] # t[s] /\ t[k] \in allocated
    <3>1. t[k] = t[s] => k = s
      BY <2>1, <1>10
    <3> QED  BY <3>1, <2>1, <1>3, <1>9, <1>14
  <2> HIDE DEF u
  <2> QED  BY <2>1, <2>2, <2>3, <2>4, <1>10, <1>11
<1>15. Reached(s + 1, u)'
  <2>1. \A k \in 0 .. s + 1 : k = s + 1 \/ k = s \/ (k \in 0 .. s /\ k < s)
    BY <1>3
  <2>2. \A k \in 0 .. s + 1 : entries'[u[k]] = Table(k, s + 1, u, n)
    BY <2>1, <1>12, <1>13, <1>14
  <2>3. allocated' = {u[k] : k \in 0 .. s + 1}
    <3>1. \A k \in 0 .. s + 1 : k = s + 1 \/ k \in 0 .. s
      BY <1>3
    <3>2. 0 .. s \subseteq 0 .. s + 1 /\ s + 1 \in 0 .. s + 1
      BY <1>3
    <3> HIDE DEF u
    <3>3. {u[k] : k \in 0 .. s + 1} = {t[k] : k \in 0 .. s} \cup {Front}
      BY <3>1, <3>2, <1>9
    <3> QED  BY <3>3, <1>8, <1>10
  <2>4. \A j, k \in 0 .. s + 1 : u[j] = u[k] => j = k
    <3>1. \A k \in 0 .. s + 1 : k = s + 1 \/ k \in 0 .. s
      BY <1>3
    <3> HIDE DEF u
    <3> QED  BY <3>1, <1>9, <1>10
  <2>5. u[0] = pml4'
    <3>1. 0 \in 0 .. s /\ pml4' = pml4
      BY <1>3 DEF pml4
    <3>2. t[0] = pml4
      BY <1>2 DEF Reached
    <3> HIDE DEF u
    <3> QED  BY <3>1, <3>2, <1>9
  <2>6. mapped' = n
    OBVIOUS
  <2> HIDE DEF u, n
  <2> QED  BY <2>2, <2>3, <2>4, <2>5, <2>6, <1>11 DEF Reached, n
<1>16. WalkAt(s + 1, u)'
  <2>1. s + 1 > 0 /\ (s + 1) + 1 = s + 2
    BY <1>3
  <2> HIDE DEF u
  <2> QED  BY <2>1, <1>7, <1>9 DEF WalkAt
<1> HIDE DEF u
<1> QED  BY <1>1, <1>9, <1>15, <1>16 DEF TablesInv

LEMMA SameTables ==
  ASSUME TablesInv, UNCHANGED <<map, mapped, entries, allocated, sysMemList, walk>>,
         \/ kpc' = kpc
         \/ kpc \in {"map", "dwm", "terminal"} /\ kpc' \in {"map", "dwm", "terminal"}
  PROVE  TablesInv'
<1>1. CASE kpc \in {"map", "dwm", "terminal"}
  <2>1. PICK s \in 0 .. 3, t \in [0 .. 3 -> Nat] : Reached(s, t) /\ WalkAt(s, t)
    BY <1>1 DEF TablesInv
  <2>2. Reached(s, t)' /\ WalkAt(s, t)'
    BY <2>1 DEF Reached, WalkAt, pml4
  <2> QED  BY <1>1, <2>2 DEF TablesInv
<1>2. CASE kpc \notin {"map", "dwm", "terminal"}
  <2>1. pml4' = pml4
    BY DEF pml4
  <2> QED  BY <1>2, <2>1 DEF TablesInv
<1> QED  BY <1>1, <1>2

LEMMA TablesStep ==
  ASSUME ListInv, TablesInv, [BootNext]_allVars
  PROVE  TablesInv'
<1>1. CASE KeMainMalloc \/ DwmInit \/ MallocStep \/ LoadTables \/ StartDwm \/ UNCHANGED allVars
  <2>1. UNCHANGED <<map, mapped, entries, allocated, sysMemList, walk>>
    BY <1>1 DEF KeMainMalloc, DwmInit, MallocStep, LoadTables, StartDwm, allVars, physVars, bootVars
  <2>2. \/ kpc' = kpc
        \/ kpc \in {"map", "dwm", "terminal"} /\ kpc' \in {"map", "dwm", "terminal"}
    BY <1>1 DEF KeMainMalloc, DwmInit, MallocStep, LoadTables, StartDwm, allVars, bootVars
  <2> QED  BY <2>1, <2>2, SameTables
<1>2. CASE RootTable
  <2>1. /\ kpc = "stacks" /\ kpc' = "pml4" /\ map' = map /\ mapped' = mapped
        /\ kePhysAlloc /\ entries' = ZeroedTable(Front)
    BY <1>2 DEF RootTable, AllocRoot
  <2>2. sysMemList = map /\ allocated = {} /\ entries = <<>>
    BY <2>1 DEF TablesInv
  <2>3. Front = pml4 /\ pml4' = pml4 /\ allocated' = {pml4}
    BY <2>1, <2>2 DEF Front, pml4, kePhysAlloc
  <2>4. entries' = [p \in {pml4} |-> [i \in Index |-> Empty]]
    <3>1. DOMAIN entries = {}
      BY <2>2
    <3> HIDE <2>2
    <3> QED  BY <2>1, <2>3, <3>1 DEF ZeroedTable
  <2> QED  BY <2>1, <2>3, <2>4 DEF TablesInv
<1>3. CASE IdentityMap
  <2>1. /\ kpc = "pml4" /\ kpc' = "map" /\ map' = map /\ allocated' = allocated
        /\ entries' = entries /\ mapped' \in MapSizes
        /\ walk' = [k |-> 0, table |-> pml4, virt |-> 0, phys |-> 0, left |-> mapped']
    BY <1>3 DEF IdentityMap, MapMemory
  <2>2. mapped' \in 0 .. Span(0) /\ mapped' \in Nat /\ pml4' = pml4 /\ pml4 \in Nat
    <3>1. map \in Maps
      BY DEF ListInv
    <3>2. /\ Len(map) \in Nat /\ Largest(map) \in 1 .. Len(map)
          /\ \A i \in 1 .. Len(map) : map[i].at \in Nat
      BY <3>1, MapFacts
    <3>3. 1 \in 1 .. Len(map)
      <4> DEFINE l == Largest(map)
      <4> HIDE DEF l
      <4>1. l \in 1 .. Len(map)
        BY <3>2 DEF l
      <4> QED  BY <3>2, <4>1
    <3> QED  BY <2>1, <3>2, <3>3, BootAssumption, Spans DEF pml4
  <2>3. PICK page \in Nat : page = pml4
    BY <2>2
  <2> DEFINE t == [k \in 0 .. 3 |-> page]
  <2>4. allocated = {page} /\ entries = [p \in {page} |-> [i \in Index |-> Empty]]
    BY <2>1, <2>3 DEF TablesInv
  <2>5. Table(0, 0, t, mapped') = [i \in Index |-> Empty]
    <3>1. \A i \in Index : ~(i < Digit(0, mapped'))
      BY RadixAssumption DEF Index, Digit
    <3> QED  BY <3>1 DEF Table
  <2>6. Reached(0, t)'
    <3>1. \A k \in 0 .. 0 : k = 0 /\ t[k] = page
      OBVIOUS
    <3>2. 0 \in 0 .. 0 /\ t[0] = page
      OBVIOUS
    <3>3. \A k \in 0 .. 0 : entries'[t[k]] = Table(k, 0, t, mapped')
      BY <3>1, <2>1, <2>4, <2>5
    <3>4. allocated' = {t[k] : k \in 0 .. 0}
      BY <3>1, <3>2, <2>1, <2>4
    <3> HIDE DEF t
    <3> QED  BY <3>1, <3>2, <3>3, <3>4, <2>1, <2>2, <2>3, <2>4 DEF Reached
  <2>7. WalkAt(0, t)'
    <3>1. Base(1, mapped') = 0 /\ Rest(1, mapped') = mapped'
      BY <2>2 DEF Base, Rest
    <3>2. t[0] = page
      OBVIOUS
    <3> HIDE DEF t
    <3> QED  BY <3>1, <3>2, <2>1, <2>3 DEF WalkAt
  <2>8. t \in [0 .. 3 -> Nat] /\ 0 \in 0 .. 3
    OBVIOUS
  <2> HIDE DEF t
  <2> QED  BY <2>1, <2>2, <2>6, <2>7, <2>8 DEF TablesInv
<1>4. CASE MapStep
  BY <1>4, LevelStep DEF MapStep, bootVars
<1> QED  BY <1>1, <1>2, <1>3, <1>4 DEF BootNext

--------------------------------------------------------------------------------
(* What the processor makes of them                                        *)

\* The page v lies in what an entry of the table above level k stands for.
Under(k, v, n) == v \in Base(k, n) .. Base(k, n) + Span(k - 1) - 1

LEMMA EntryLemma ==
  ASSUME NEW n \in 0 .. Span(0), NEW k \in 1 .. 3, NEW s \in k .. 3,
         s < 3 => Rest(s + 1, n) = 0, NEW t, NEW v \in Nat, Under(k, v, n)
  PROVE  LET e == Table(k, s, t, n)[IndexOf(k, v)]
         IN \/ /\ v < n /\ e.present /\ e.at \in Nat /\ e.at + (v % Span(k)) = v
               /\ k # 3 => e.ps
            \/ v >= n /\ ~e.present
            \/ /\ k < 3 /\ k < s /\ e = [at |-> t[k + 1], present |-> TRUE, ps |-> FALSE]
               /\ Under(k + 1, v, n)
<1> DEFINE S == Span(k)
           b == Base(k, n)
           w == v - b
           d == w \div S
           x == w % S
           q == Digit(k, n)
           r == Rest(k + 1, n)
           e == Table(k, s, t, n)[IndexOf(k, v)]
<1>1. /\ S \in Nat \ {0} /\ b \in Nat /\ r \in Nat /\ q \in Nat /\ r < S
      /\ Span(k - 1) \in Nat \ {0} /\ Radix \in Nat \ {0, 1} /\ n \in Nat
      /\ Rest(k, n) = S * q + r /\ Base(k + 1, n) = b + q * S
  <2>1. S \in Nat \ {0} /\ Span(k - 1) \in Nat \ {0} /\ Radix \in Nat \ {0, 1}
    BY Spans, RadixAssumption
  <2>2. n \in Nat
    BY Spans
  <2> QED  BY <2>1, <2>2, RestFacts
<1>2. w \in 0 .. Span(k - 1) - 1 /\ v = b + w
  <2> HIDE DEF b
  <2> QED  BY <1>1 DEF Under, b
<1>3. PICK a \in Nat : b = Span(k - 1) * a
  BY BaseFacts
<1>4. IndexOf(k, v) = d /\ d \in Index /\ v % S = x
  <2> HIDE DEF b, w
  <2>1. v = Span(k - 1) * a + w
    BY <1>2, <1>3
  <2> QED  BY <1>2, <2>1, IndexLemma
<1>5. d \in Nat /\ x \in 0 .. S - 1 /\ w = S * d + x
  <2> HIDE DEF S, w
  <2>1. w \in Nat
    BY <1>1, <1>2
  <2> QED  BY <1>1, <2>1, DivFacts
<1>6. b + (S * q + r) = n
  <2>1. Rest(k, n) \in Nat
    BY <1>1, RestFacts
  <2>2. b = n - Rest(k, n)
    BY DEF Base
  <2> HIDE DEF b, S, q, r
  <2> QED  BY <1>1, <2>1, <2>2
<1>7. /\ e = IF d < q THEN [at |-> b + d * S, present |-> TRUE, ps |-> k # 3]
             ELSE IF k < s /\ d = q THEN [at |-> t[k + 1], present |-> TRUE, ps |-> FALSE]
             ELSE Empty
  <2> HIDE DEF d, b, S, q
  <2> QED  BY <1>4 DEF Table, S, q, b
<1> HIDE DEF S, b, w, d, x, q, r, e
<1>8. CASE d < q
  <2>1. S * d + S <= S * q /\ S * d \in Nat /\ S * q \in Nat /\ d * S = S * d
    <3>1. \A i, j, m \in Nat : i <= j => m * i <= m * j
      OBVIOUS
    <3>2. S * (d + 1) <= S * q /\ S * (d + 1) = S * d + S
      BY <3>1, <1>1, <1>5, <1>8
    <3> QED  BY <3>2, <1>1, <1>5
  <2>2. v < n
    BY <1>1, <1>2, <1>5, <1>6, <2>1
  <2>3. e = [at |-> b + d * S, present |-> TRUE, ps |-> k # 3]
    BY <1>7, <1>8
  <2>4. (b + d * S) + x = v
    BY <1>1, <1>2, <1>5, <2>1
  <2>5. e.present /\ e.at = b + d * S /\ (k # 3 => e.ps)
    BY <2>3
  <2>6. e.at + (v % S) = v /\ e.at \in Nat
    BY <1>1, <1>4, <1>5, <2>1, <2>4, <2>5
  <2> QED  BY <2>2, <2>5, <2>6 DEF S, e
<1>9. CASE d > q
  <2>1. S * q + S <= S * d /\ S * d \in Nat /\ S * q \in Nat
    <3>1. \A i, j, m \in Nat : i <= j => m * i <= m * j
      OBVIOUS
    <3>2. S * (q + 1) <= S * d /\ S * (q + 1) = S * q + S
      BY <3>1, <1>1, <1>5, <1>9
    <3> QED  BY <3>2, <1>1, <1>5
  <2>2. v >= n
    BY <1>1, <1>2, <1>5, <1>6, <2>1
  <2>3. e = Empty
    BY <1>1, <1>5, <1>7, <1>9
  <2> QED  BY <2>2, <2>3 DEF e, Empty
<1>10. CASE d = q /\ k < s
  <2>1. e = [at |-> t[k + 1], present |-> TRUE, ps |-> FALSE]
    BY <1>1, <1>7, <1>10
  <2>2. S * q \in Nat /\ q * S = S * q
    BY <1>1
  <2>3. v = Base(k + 1, n) + x /\ Base(k + 1, n) \in Nat
    BY <1>1, <1>2, <1>5, <1>10, <2>2
  <2>4. (k + 1) - 1 = k
    OBVIOUS
  <2>5. Under(k + 1, v, n)
    BY <1>1, <1>5, <2>3, <2>4 DEF Under, S
  <2> QED  BY <1>10, <2>1, <2>5 DEF e
<1>11. CASE d = q /\ ~(k < s)
  <2>1. e = Empty
    BY <1>1, <1>7, <1>11
  <2>2. r = 0
    <3>1. s = k
      BY <1>11
    <3>2. CASE k = 3
      BY <3>2 DEF Rest, r
    <3> QED  BY <3>1, <3>2 DEF r
  <2>3. S * q \in Nat
    BY <1>1
  <2>4. v >= n
    BY <1>1, <1>2, <1>5, <1>6, <1>11, <2>2, <2>3
  <2> QED  BY <2>1, <2>4 DEF e, Empty
<1>12. d < q \/ d > q \/ d = q
  BY <1>1, <1>5
<1> QED  BY <1>8, <1>9, <1>10, <1>11, <1>12

LEMMA TranslateLemma ==
  ASSUME TablesInv, walk.k = 3, kpc \in {"dwm", "terminal"}, NEW v \in 0 .. Span(0) * Radix - 1
  PROVE  Translate(pml4, v) = IF v < mapped THEN v ELSE NoPage
<1>1. PICK s \in 0 .. 3, t \in [0 .. 3 -> Nat] : Reached(s, t) /\ WalkAt(s, t)
  BY DEF TablesInv
<1> DEFINE n == mapped
           d == v \div Span(0)
           e1 == entries[pml4][IndexOf(0, v)]
           e2 == entries[e1.at][IndexOf(1, v)]
           e3 == entries[e2.at][IndexOf(2, v)]
           e4 == entries[e3.at][IndexOf(3, v)]
           answer == IF v < n THEN v ELSE NoPage
<1>2. s \in 1 .. 3 /\ (s < 3 => Rest(s + 1, n) = 0)
  <2>1. s = 3 \/ (s > 0 /\ Rest(s + 1, n) = 0)
    BY <1>1 DEF WalkAt
  <2> QED  BY <2>1
<1>3. n \in 0 .. Span(0) /\ n \in Nat /\ Span(0) \in Nat \ {0} /\ Radix \in Nat \ {0} /\ v \in Nat
  <2>1. Span(0) \in Nat \ {0} /\ Radix \in Nat \ {0}
    BY Spans, RadixAssumption
  <2>2. Span(0) * Radix \in Nat
    BY <2>1
  <2> QED  BY <2>1, <2>2 DEF TablesInv
<1>4. /\ entries[pml4] = Table(0, s, t, n) /\ entries[t[1]] = Table(1, s, t, n)
      /\ 2 <= s => entries[t[2]] = Table(2, s, t, n)
      /\ 3 <= s => entries[t[3]] = Table(3, s, t, n)
  <2>1. t[0] = pml4 /\ \A k \in 0 .. s : entries[t[k]] = Table(k, s, t, n)
    BY <1>1 DEF Reached
  <2> QED  BY <2>1, <1>2
<1>5. IndexOf(0, v) = d /\ d \in Index /\ (d = 0 <=> v < Span(0))
  <2> DEFINE S == Span(0)
             x == v % S
  <2>1. d \in Nat /\ x \in 0 .. S - 1 /\ v = S * d + x
    <3> HIDE DEF S
    <3> QED  BY <1>3, DivFacts DEF S
  <2>2. S * Radix \in Nat /\ v < S * Radix
    BY <1>3
  <2> HIDE DEF S, x, d
  <2>3. d = 0 \/ S * d >= S
    <3> SUFFICES ASSUME d >= 1 PROVE S * d >= S
      BY <2>1
    <3>1. \A i, m \in Nat : i >= 1 => m * i >= m
      OBVIOUS
    <3> QED  BY <3>1, <2>1, <1>3 DEF S
  <2>4. d < Radix
    <3> SUFFICES ASSUME d >= Radix PROVE FALSE
      BY <1>3, <2>1
    <3>1. \A i, j, m \in Nat : i <= j => m * i <= m * j
      OBVIOUS
    <3>2. S * Radix <= S * d /\ S * d \in Nat
      BY <3>1, <1>3, <2>1 DEF S
    <3> QED  BY <3>2, <2>1, <2>2
  <2>5. d % Radix = d
    <3>1. (Radix * 0 + d) % Radix = d
      BY <1>3, <2>1, <2>4, DivUnique
    <3> QED  BY <3>1, <2>1, <1>3
  <2>6. S \in Nat /\ S * d \in Nat /\ x \in Nat /\ x < S
    BY <1>3, <2>1 DEF S
  <2>7. d = 0 => S * d = 0
    BY <2>6
  <2>8. d = 0 <=> v < S
    BY <2>1, <2>3, <2>6, <2>7
  <2> QED  BY <1>3, <2>1, <2>4, <2>5, <2>8 DEF IndexOf, Index, S, d
<1>6. e1 = IF d = 0 THEN [at |-> t[1], present |-> TRUE, ps |-> FALSE] ELSE Empty
  <2>1. Digit(0, n) = 0 /\ 0 < s /\ ~(d < 0)
    BY <1>2, <1>5 DEF Digit, Index
  <2> HIDE DEF d, n
  <2> QED  BY <2>1, <1>4, <1>5 DEF Table
<1> HIDE DEF n, d, e1, e2, e3, e4, answer
<1>7. Translate(pml4, v) =
        CASE ~e1.present -> NoPage
          [] OTHER -> CASE ~e2.present -> NoPage
                        [] e2.present /\ e2.ps -> e2.at + (v % Span(1))
                        [] OTHER -> CASE ~e3.present -> NoPage
                                      [] e3.present /\ e3.ps -> e3.at + (v % Span(2))
                                      [] OTHER -> IF e4.present THEN e4.at ELSE NoPage
  BY DEF Translate, e1, e2, e3, e4
<1>8. CASE d # 0
  <2>1. v >= n /\ ~e1.present
    BY <1>3, <1>5, <1>6, <1>8 DEF Empty
  <2>2. ~(v < n)
    BY <2>1, <1>3
  <2> QED  BY <2>1, <2>2, <1>7 DEF n
<1>9. CASE d = 0
  <2>1. e1.present /\ e1.at = t[1] /\ Under(1, v, n)
    <3>1. Base(1, n) = 0
      BY <1>3 DEF Base, Rest
    <3>2. v \in 0 .. 0 + Span(1 - 1) - 1
      BY <1>3, <1>5, <1>9
    <3> QED  BY <1>6, <1>9, <3>1, <3>2 DEF Under
  <2>2. e2 = Table(1, s, t, n)[IndexOf(1, v)]
    BY <2>1, <1>4 DEF e2
  <2>3. \/ v < n /\ e2.present /\ e2.at + (v % Span(1)) = v /\ e2.ps
        \/ v >= n /\ ~e2.present
        \/ 1 < s /\ e2 = [at |-> t[2], present |-> TRUE, ps |-> FALSE] /\ Under(2, v, n)
    BY <1>2, <1>3, <2>1, <2>2, EntryLemma
  <2>4. CASE v < n /\ e2.present /\ e2.at + (v % Span(1)) = v /\ e2.ps
    BY <2>1, <2>4, <1>7 DEF n
  <2>5. CASE v >= n /\ ~e2.present
    <3>1. ~(v < n)
      BY <2>5, <1>3
    <3> QED  BY <2>1, <2>5, <3>1, <1>7 DEF n
  <2>6. CASE 1 < s /\ e2 = [at |-> t[2], present |-> TRUE, ps |-> FALSE] /\ Under(2, v, n)
    <3>1. e2.present /\ ~e2.ps /\ e2.at = t[2] /\ s \in 2 .. 3
      BY <2>6, <1>2
    <3>2. e3 = Table(2, s, t, n)[IndexOf(2, v)]
      BY <3>1, <1>4 DEF e3
    <3>3. \/ v < n /\ e3.present /\ e3.at + (v % Span(2)) = v /\ e3.ps
          \/ v >= n /\ ~e3.present
          \/ 2 < s /\ e3 = [at |-> t[3], present |-> TRUE, ps |-> FALSE] /\ Under(3, v, n)
      BY <1>2, <1>3, <2>6, <3>1, <3>2, EntryLemma
    <3>4. CASE v < n /\ e3.present /\ e3.at + (v % Span(2)) = v /\ e3.ps
      BY <2>1, <3>1, <3>4, <1>7 DEF n
    <3>5. CASE v >= n /\ ~e3.present
      <4>1. ~(v < n)
        BY <3>5, <1>3
      <4> QED  BY <2>1, <3>1, <3>5, <4>1, <1>7 DEF n
    <3>6. CASE 2 < s /\ e3 = [at |-> t[3], present |-> TRUE, ps |-> FALSE] /\ Under(3, v, n)
      <4>1. e3.present /\ ~e3.ps /\ e3.at = t[3] /\ s \in 3 .. 3
        BY <3>6, <1>2
      <4>2. e4 = Table(3, s, t, n)[IndexOf(3, v)]
        BY <4>1, <1>4 DEF e4
      <4>3. \/ v < n /\ e4.present /\ e4.at \in Nat /\ e4.at + (v % Span(3)) = v
            \/ v >= n /\ ~e4.present
        BY <1>2, <1>3, <3>6, <4>1, <4>2, EntryLemma
      <4>4. v % Span(3) = 0
        <5>1. Span(3) = 1
          BY Spans
        <5> QED  BY <5>1, <1>3
      <4>5. IF v < n THEN e4.present /\ e4.at = v ELSE ~e4.present
        BY <4>3, <4>4, <1>3
      <4> QED  BY <2>1, <3>1, <4>1, <4>5, <1>7 DEF n
    <3> QED  BY <3>3, <3>4, <3>5, <3>6
  <2> QED  BY <2>3, <2>4, <2>5, <2>6
<1> QED  BY <1>8, <1>9

\* When KeMain loads its page tables they map each page that it asked for to itself and no
\* other page, for tables with any number of entries and whatever sizes of pages that took.
THEOREM MemoryMapsToItself == BootSpec => []IdentityMapped
<1>1. ListInv /\ [BootNext]_allVars => ListInv'
  BY ListStep
<1>2. ListInv /\ TablesInv /\ [BootNext]_allVars => TablesInv'
  BY TablesStep
<1>3. ListInv /\ TablesInv => IdentityMapped
  BY TranslateLemma DEF IdentityMapped, ListInv
<1> QED  BY <1>1, <1>2, <1>3, ListInit, TablesInit, PTL DEF BootSpec
================================================================================
