-------------------------------- MODULE Allocator --------------------------------
(***************************************************************************)
(* What a memory allocator promises: the regions its callers own lie in    *)
(* the memory and never overlap, and a region changes owner only by a call.*)
(***************************************************************************)
EXTENDS Naturals
CONSTANTS MemSize, Requests
VARIABLE owned  \* regions of memory that callers own: [at, len]

Bytes(r) == r.at .. r.at + r.len - 1
Regions == {r \in [at : 0 .. MemSize, len : Requests] : r.at + r.len <= MemSize}

AllocInit == owned = {}

Grant(r) ==
  /\ \A o \in owned : Bytes(r) \cap Bytes(o) = {} /\ r.at # o.at
  /\ owned' = owned \cup {r}

GiveBack(r) == r \in owned /\ owned' = owned \ {r}

AllocNext == \E r \in Regions : Grant(r) \/ GiveBack(r)

AllocSpec == AllocInit /\ [][AllocNext]_owned
================================================================================
