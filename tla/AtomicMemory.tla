---------------------------- MODULE AtomicMemory ----------------------------
(***************************************************************************)
(* What the CPU is promised by the memory system: one memory.  A write     *)
(* takes effect once (storing the same bytes again changes nothing) before *)
(* it is acknowledged; a read returns the content at the moment it is      *)
(* acknowledged.  Posted writes, the read cache, its fills and the SDRAM's *)
(* slots must not show.                                                    *)
(***************************************************************************)
CONSTANTS
    Requests,      \* read and write cycles: [op, line, word, lanes, data]
    Data,          \* what a word can hold
    Store(_, _),   \* Store(mem, r): mem after the write r
    Fetch(_, _)    \* Fetch(mem, r): what the read r returns

VARIABLES
    mem,
    pending,       \* the set that holds the bus cycle in progress, if any
    result         \* the word last given to the CPU

vars == <<mem, pending, result>>

Begin == /\ pending = {}
         /\ \E r \in Requests : pending' = {r}
         /\ UNCHANGED <<mem, result>>

Write == /\ \E r \in pending : r.op = "write" /\ mem' = Store(mem, r)
         /\ UNCHANGED <<pending, result>>

FinishRead == /\ \E r \in pending : r.op = "read" /\ result' = Fetch(mem, r)
              /\ pending' = {}
              /\ UNCHANGED mem

FinishWrite == /\ \E r \in pending : r.op = "write" /\ Store(mem, r) = mem
               /\ result' \in Data
               /\ pending' = {}
               /\ UNCHANGED mem

Init == pending = {} /\ result \in Data

Next == Begin \/ Write \/ FinishRead \/ FinishWrite

Spec == Init /\ [][Next]_vars
=============================================================================
