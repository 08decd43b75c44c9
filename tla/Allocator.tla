------------------------------ MODULE Allocator ------------------------------
(***************************************************************************)
(* What malloc and free promise, without lists or headers: the blocks in   *)
(* use never overlap, and a request is refused, which halts the device,    *)
(* only if no gap between them is large enough.                            *)
(***************************************************************************)
EXTENDS Naturals

CONSTANTS HeapSize,   \* units of memory
          Sizes       \* the sizes that are asked for, with the header

VARIABLES live,       \* the blocks in use: <<first unit, number of units>>
          halted      \* a request was refused

Units(b) == b[1] .. (b[1] + b[2] - 1)

\* the units of b belong to the heap and to no block in use
Vacant(b) ==
    /\ Units(b) \subseteq 0 .. (HeapSize - 1)
    /\ \A c \in live : Units(b) \cap Units(c) = {}

AInit == live = {} /\ halted = FALSE

AMalloc ==
    \E w \in Sizes, a \in 0 .. (HeapSize - 1), s \in 1 .. HeapSize :
        /\ s >= w
        /\ Vacant(<<a, s>>)
        /\ live' = live \cup {<<a, s>>}
        /\ UNCHANGED halted

AFree == \E b \in live : live' = live \ {b} /\ UNCHANGED halted

ARefuse ==
    \E w \in Sizes :
        /\ \A a \in 0 .. (HeapSize - 1) : ~Vacant(<<a, w>>)
        /\ halted' = TRUE
        /\ UNCHANGED live

ANext == ~halted /\ (AMalloc \/ AFree \/ ARefuse)

ASpec == AInit /\ [][ANext]_<<live, halted>>
==============================================================================
