------------------------------ MODULE Allocator ------------------------------
(***************************************************************************)
(* The virtual-IP pool of internal/mesh/allocator.go.  An address is its   *)
(* 32-bit value, so the arithmetic of the code (the uint32 capacity that   *)
(* wraps to 0 for a /0 prefix, the addition in addIPv4) is kept modulo     *)
(* Modulus, which is 2^32 in the program and small in the model.  Every    *)
(* method runs under the allocator's mutex and is one step.                *)
(***************************************************************************)
EXTENDS GoMap

CONSTANTS
    Node,       \* node IDs; numbers, because the code sorts by node ID
    Modulus,    \* the number of values of a uint32
    Size,       \* addresses in the prefix, 2^(32 - bits)
    Base        \* the first address of the (masked) prefix

ASSUME NodeAssumption == Node \subseteq Nat

\* NewAllocator refuses prefixes longer than /30, so Size is at least 4, and
\* keeps prefix.Masked(), so the whole prefix lies in the address space.
ASSUME PrefixAssumption ==
    /\ Modulus \in Nat
    /\ Size \in 4..Modulus
    /\ Base \in Nat
    /\ Base + Size <= Modulus

VARIABLES
    byNode,     \* node ID -> leased address
    used,       \* leased address -> node ID
    next        \* the cursor: the first offset that was never tried

allocVars == <<byNode, used, next>>

Capacity == Size % Modulus

\* Mutant of Last: the subtraction is signed, so that a /0 prefix has no
\* addresses.
LastSigned == Capacity - 1

\* capacity-1, the bound of both loops, in uint32 arithmetic.
Last == (Capacity - 1) % Modulus

\* addIPv4(base, offset)
Address(offset) == (Base + offset) % Modulus

Addr == {Address(o) : o \in 0..(Size - 1)}

\* What the pool may hand out: not the network address, not .1, not the
\* broadcast address.
Usable == {Address(o) : o \in 2..(Size - 2)}

Free(offsets) == {o \in offsets : Address(o) \notin DOMAIN used}

\* Mutants of Reusable: released addresses are not looked up in used, and the
\* second scan starts at the gateway address.
ReusableIgnoresUsed == {o \in 2..(Last - 1) : o < next}
ReusableFromOne == Free({o \in 1..(Last - 1) : o < next})

Fresh == Free(next..(Last - 1))

Reusable == Free({o \in 2..(Last - 1) : o < next})

AllocatorInit ==
    /\ byNode = Empty
    /\ used = Empty
    /\ next = 2

Assign(n, offset) ==
    /\ byNode' = Put(byNode, n, Address(offset))
    /\ used' = Put(used, Address(offset), n)

\* Mutant of AllocateFresh: the cursor is moved twice.
AllocateFreshSkips(n) ==
    /\ n \notin DOMAIN byNode
    /\ \E o \in Fresh :
        /\ \A p \in Fresh : o <= p
        /\ Assign(n, o)
        /\ next' = o + 2

\* The first loop of Allocate: from the cursor to the end of the pool.
AllocateFresh(n) ==
    /\ n \notin DOMAIN byNode
    /\ \E o \in Fresh :
        /\ \A p \in Fresh : o <= p
        /\ Assign(n, o)
        /\ next' = o + 1

\* The second loop: below the cursor, which stays where it is.
AllocateReused(n) ==
    /\ n \notin DOMAIN byNode
    /\ Fresh = {}
    /\ \E o \in Reusable :
        /\ \A p \in Reusable : o <= p
        /\ Assign(n, o)
        /\ UNCHANGED next

\* The early return of Allocate, for a node that holds an address, is never
\* taken: the registry asks only for nodes without a lease, and those hold no
\* address (IndexesAgree in Registry).
Allocate(n) == AllocateFresh(n) \/ AllocateReused(n)

\* Both loops ran out: ErrPoolExhausted.
PoolExhausted(n) ==
    /\ n \notin DOMAIN byNode
    /\ Fresh = {}
    /\ Reusable = {}

\* Release, of every node of a set: registerAt and ExpireBefore call it while
\* they hold the registry's lock.
ReleaseAll(N) ==
    /\ used' = Drop(used, {byNode[n] : n \in N \cap DOMAIN byNode})
    /\ byNode' = Drop(byNode, N)
    /\ UNCHANGED next
==============================================================================
