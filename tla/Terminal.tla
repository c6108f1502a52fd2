-------------------------------- MODULE Terminal --------------------------------
(***************************************************************************)
(* From a key to the line that a terminal reads.  The keyboard sends       *)
(* bytes; for each of them the interrupt handler (src/kernel/interrupt.cpp *)
(* and DwmKeyboardEvent in src/proc/dwm/dwm.cpp) updates dwmKeyboardState  *)
(* and schedules a task, with the byte, that calls the focused window's    *)
(* termKeyboardEventCallback (src/proc/terminal/terminal.cpp).  The        *)
(* callback reads the state of the shift key as it is by then, and puts a  *)
(* character into standard input.  The tasks run on any core, in any       *)
(* order, and two at a time; they are the writers of Stdin, and the        *)
(* terminal's main task is its reader.                                     *)
(*                                                                         *)
(* The window exists from the start.  The echo to standard output, which   *)
(* shares nothing with standard input, is left out.                        *)
(***************************************************************************)
EXTENDS Stdin, FiniteSets

CONSTANTS
  Plain,     \* keys of one byte for which charMap has a character
  Extended,  \* keys that send 0xE0 and then the byte of a key in Plain
  MaxKeys    \* bound on how often keys are pressed and released

ASSUME TerminalAssumption == /\ Plain \cap Extended = {} /\ Plain # {} /\ MaxKeys \in Nat
                             /\ {"shift", "e0"} \cap (Plain \cup Extended) = {}
                             /\ IsFiniteSet(Writers)

VARIABLES
  wire,         \* bytes that the keyboard has still to send
  held,         \* keys that are down
  meant,        \* characters the user has typed
  isE0Key,      \* static in DwmKeyboardEvent
  shift,        \* dwmKeyboardState.shift
  scheduled,    \* key tasks that have not started: [data, no]
  termE0Key,    \* static in termKeyboardEventCallback
  key,          \* locals of the key task that each core runs
  chars,        \* what was stored in standard input, in the order of sent
  count,        \* bytes sent so far, keys pressed or released, and extended ones of them
  hurried       \* a byte came when the task of an earlier one was not done

keyboard == <<wire, held, meant, isE0Key, count>>
termVars == <<keyboard, shift, scheduled, termE0Key, key, chars, hurried>>
allVars == <<vars, termVars>>

Shift == "shift"
E0 == [code |-> "e0", up |-> FALSE]
NoKey == [pc |-> "none", data |-> E0, shift |-> FALSE]

\* The byte of an extended key is that of some plain one.
PlainOf(k) == IF k \in Extended THEN CHOOSE p \in Plain : TRUE ELSE k
BytesOf(k, up) ==
  (IF k \in Extended THEN <<E0>> ELSE <<>>) \o <<[code |-> PlainOf(k), up |-> up]>>

TerminalInit ==
  /\ StdinInit
  /\ wire = <<>> /\ held = {} /\ meant = <<>> /\ isE0Key = FALSE
  /\ shift = FALSE /\ scheduled = {} /\ termE0Key = FALSE
  /\ key = [w \in Writers |-> NoKey]
  /\ chars = <<>> /\ count = [bytes |-> 0, keys |-> 0, extended |-> 0] /\ hurried = FALSE

\* The user presses a key (or holds it down, and the keyboard repeats it), or releases it.
UseKey(k, up) ==
  /\ ~fault /\ wire = <<>> /\ count.keys < MaxKeys
  /\ up => k \in held
  /\ wire' = BytesOf(k, up)
  /\ held' = IF up THEN held \ {k} ELSE held \cup {k}
  /\ meant' = IF k \in Plain /\ ~up THEN Append(meant, <<k, Shift \in held>>) ELSE meant
  /\ count' = [count EXCEPT !.keys = @ + 1, !.extended = IF k \in Extended THEN @ + 1 ELSE @]
  /\ UNCHANGED <<vars, isE0Key, shift, scheduled, termE0Key, key, chars, hurried>>

\* Some task of an earlier byte has not been run to its end.
Unfinished == scheduled # {} \/ \E w \in Writers : key[w].pc # "none"

\* Mutant of KeyboardEvent: the same byte is not scheduled twice.
KeyboardEventOnce ==
  /\ ~fault /\ wire # <<>>
  /\ wire' = Tail(wire)
  /\ LET data == Head(wire)
     IN /\ isE0Key' = (data = E0)
        /\ shift' = IF data.code = Shift /\ ~isE0Key THEN ~data.up ELSE shift
        /\ scheduled' = IF \E k \in scheduled : k.data = data THEN scheduled
                        ELSE scheduled \cup {[data |-> data, no |-> count.bytes]}
  /\ count' = [count EXCEPT !.bytes = @ + 1]
  /\ hurried' = (hurried \/ Unfinished)
  /\ UNCHANGED <<vars, held, meant, termE0Key, key, chars>>

\* ISR33KeyboardHandler and DwmKeyboardEvent.
KeyboardEvent ==
  /\ ~fault /\ wire # <<>>
  /\ wire' = Tail(wire)
  /\ LET data == Head(wire)
     IN /\ isE0Key' = (data = E0)
        /\ shift' = IF data.code = Shift /\ ~isE0Key THEN ~data.up ELSE shift
        /\ scheduled' = scheduled \cup {[data |-> data, no |-> count.bytes]}
  /\ count' = [count EXCEPT !.bytes = @ + 1]
  /\ hurried' = (hurried \/ Unfinished)
  /\ UNCHANGED <<vars, held, meant, termE0Key, key, chars>>

--------------------------------------------------------------------------------
(* termKeyboardEventCallback                                               *)

\* A core starts a task, which first looks at the shift keys.
StartKey(w) ==
  /\ ~fault /\ key[w].pc = "none"
  /\ \E k \in scheduled :
       /\ scheduled' = scheduled \ {k}
       /\ key' = [key EXCEPT ![w] = [pc |-> "decode", data |-> k.data, shift |-> shift]]
  /\ UNCHANGED <<vars, keyboard, shift, termE0Key, chars, hurried>>

\* Mutant of DecodeKey: the byte after 0xE0 is taken for a key of its own.
DecodeKeyPlain(w) ==
  /\ ~fault /\ key[w].pc = "decode"
  /\ LET data == key[w].data
         types == data # E0 /\ ~data.up /\ data.code \in Plain
     IN /\ termE0Key' = (data = E0)
        /\ key' = [key EXCEPT ![w] = IF types THEN [@ EXCEPT !.pc = "type"] ELSE NoKey]
  /\ UNCHANGED <<vars, keyboard, shift, scheduled, chars, hurried>>

\* It ends if there is no character to type.
DecodeKey(w) ==
  /\ ~fault /\ key[w].pc = "decode"
  /\ LET data == key[w].data
         types == data # E0 /\ ~termE0Key /\ ~data.up /\ data.code \in Plain
     IN /\ termE0Key' = (data = E0)
        /\ key' = [key EXCEPT ![w] = IF types THEN [@ EXCEPT !.pc = "type"] ELSE NoKey]
  /\ UNCHANGED <<vars, keyboard, shift, scheduled, chars, hurried>>

\* putchar(data, IOSTREAM_ID_STDIN).
TypeKey(w) ==
  /\ key[w].pc = "type"
  /\ Lock(w) \/ QueryTask(w) \/ CheckHandle(w) \/ ResumeReader(w)
  /\ UNCHANGED termVars

StoreKey(w) ==
  /\ Store(w)
  /\ chars' = Append(chars, <<key[w].data.code, key[w].shift>>)
  /\ key' = [key EXCEPT ![w] = NoKey]
  /\ UNCHANGED <<keyboard, shift, scheduled, termE0Key, hurried>>

ReadLine ==
  /\ Reap \/ Activate \/ ReaderStep
  /\ UNCHANGED termVars

TerminalNext ==
  \/ \E k \in Plain \cup Extended \cup {Shift}, up \in BOOLEAN : UseKey(k, up)
  \/ KeyboardEvent \/ ReadLine
  \/ \E w \in Writers : StartKey(w) \/ DecodeKey(w) \/ TypeKey(w) \/ StoreKey(w)

TerminalSpec == TerminalInit /\ [][TerminalNext]_allVars

--------------------------------------------------------------------------------
\* The byte tells the callback the key, but the state of the shift key, whether 0xE0
\* came before, and the order of the characters depend on when the tasks run.  As long
\* as each task is done before the next byte comes, the terminal gets the characters
\* that were typed, in order, and nothing else.
TypedAsMeant ==
  ~hurried => /\ Len(chars) <= Len(meant) /\ chars = SubSeq(meant, 1, Len(chars))
              /\ wire = <<>> /\ ~Unfinished => chars = meant

\* However fast the user types, each press of a plain key puts one character of that key
\* into standard input, unless extended keys are used too.
Times(s, p) == Cardinality({i \in DOMAIN s : s[i][1] = p})
Press(p) == [code |-> p, up |-> FALSE]
OnTheWay(p) == Cardinality({i \in DOMAIN wire : wire[i] = Press(p)})
               + Cardinality({k \in scheduled : k.data = Press(p)})
               + Cardinality({w \in Writers : key[w].pc # "none" /\ key[w].data = Press(p)})
KeysKept ==
  count.extended = 0 => \A p \in Plain : Times(chars, p) + OnTheWay(p) = Times(meant, p)
================================================================================
