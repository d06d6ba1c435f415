-------------------------------- MODULE Pools -------------------------------
(***************************************************************************)
(* The pools of byte buffers (protocol/object_pool.go) and what encoders   *)
(* and ReadFrameInto do with a buffer: they use it from its start when it  *)
(* is large enough and allocate another array otherwise.  The bytes that a *)
(* former user left behind stay in the buffer.                             *)
(*                                                                         *)
(* A buffer is an identity; memory holds the capacity and the bytes of its *)
(* array.  A slice is a part of a buffer and sees whatever is written      *)
(* there later.  The operators are for the actions of Dispatch.            *)
(***************************************************************************)
EXTENDS Naturals, Sequences

CONSTANTS
    Buffer,      \* identities of buffers: bounds how many exist at a time
    NewCap,      \* the capacity of a new pooled buffer (1024 in the code)
    MaxPooled    \* the largest capacity a pool takes back (64 KB in the code)

ASSUME PoolsAssumption ==
    /\ Buffer \subseteq Nat
    /\ NewCap \in Nat \ {0}
    /\ MaxPooled \in Nat

VARIABLES
    memory,        \* the buffers
    requestPool,   \* requestBufferPool
    responsePool   \* responseBufferPool

Unallocated == [cap |-> 0, data |-> <<>>]

PoolsInit ==
    /\ memory = [b \in Buffer |-> Unallocated]
    /\ requestPool = {}
    /\ responsePool = {}

-----------------------------------------------------------------------------
(* Slices.                                                                 *)

Slice(b, from, to) == [buf |-> b, from |-> from, to |-> to]
Part(s, from, to) == Slice(s.buf, s.from + from - 1, s.from + to - 1)
Bytes(s) ==
    IF s.to > Len(memory[s.buf].data) THEN <<>> \* the array is not there any more
    ELSE SubSeq(memory[s.buf].data, s.from, s.to)

-----------------------------------------------------------------------------
(* Operations.                                                             *)

\* An identity that no pool and no goroutine refers to; which one is immaterial.
Unused(held) ==
    LET free == Buffer \ (requestPool \cup responsePool \cup held)
    IN  CHOOSE b \in free : TRUE

\* sync.Pool.Get: any pooled buffer, a new one when there is none.
Obtained(pool, held) == IF pool = {} THEN {Unused(held)} ELSE pool

\* The array of a buffer that was obtained.
Array(pool, b) == IF b \in pool THEN memory[b] ELSE [cap |-> NewCap, data |-> <<>>]

\* An array after bytes were written at its start: target[:n] keeps the rest as it was,
\* and make([]byte, n) replaces the array if it is too small.
Filled(array, bytes) ==
    IF Len(bytes) <= array.cap
    THEN [array EXCEPT !.data = bytes \o SubSeq(@, Len(bytes) + 1, Len(@))]
    ELSE [cap |-> Len(bytes), data |-> bytes]

\* PutRequestBufferToPool, PutResponseBufferToPool: large buffers are dropped.
Pooled(bs) == {b \in bs : memory[b].cap <= MaxPooled}
Dropped(bs) == [b \in Buffer |-> IF b \in bs \ Pooled(bs) THEN Unallocated ELSE memory[b]]

=============================================================================
