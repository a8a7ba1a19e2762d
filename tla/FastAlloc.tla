----------------------------- MODULE FastAlloc ------------------------------
(* The replacement of PhysX's TempAllocator: size classes, free lists and   *)
(* an arena per thread, without a lock.  A block may be freed by another    *)
(* thread than the one it was carved for.                                   *)
(* Sizes are in units of 16 bytes, the header's and the smallest class's.   *)
EXTENDS Integers, Sequences, SequencesExt, FiniteSets

CONSTANTS
    Threads,
    Classes,         \* kClasses
    ArenaChunk,      \* kArenaChunk
    Sizes,           \* the sizes asked for
    MaxChunks,       \* chunks mmap gives before it fails
    MaxLive          \* blocks in use at a time

HeaderSize == 1      \* kHeaderSize
Foreign == Classes   \* a block of PhysX's own

\* A chunk has room for a block of any class, which is what lets carve take a
\* chunk of kArenaChunk each time.
ASSUME AllocAssumption ==
    /\ Classes \in Nat \ {0} /\ ArenaChunk \in Nat /\ Sizes \subseteq Nat
    /\ \A c \in 0..(Classes - 1) : 2^c \in 1..ArenaChunk

VARIABLES
    pools,           \* thread -> t_pool
    chunks,          \* chunks mapped
    live,            \* the blocks in use: [at, size, class]
    heads            \* address -> the size class in its header, kMagic set

allocVars == <<pools, chunks, live, heads>>

ClassNumbers == 0..(Classes - 1)

AllocInit ==
    /\ pools = [t \in Threads |->
                  [free |-> [c \in ClassNumbers |-> <<>>], arena |-> 0, left |-> 0]]
    /\ chunks = 0
    /\ live = {}
    /\ heads = <<>>

\* bytes_of
BytesOf(class) == 2^class

\* Mutant: class_of that forgets the header.
ClassOfPayload(size) ==
    IF \E c \in ClassNumbers : BytesOf(c) >= size
    THEN CHOOSE c \in ClassNumbers :
            BytesOf(c) >= size /\ \A d \in ClassNumbers : BytesOf(d) >= size => c <= d
    ELSE Foreign

\* class_of: the smallest class with room for the header too.
ClassOf(size) ==
    LET need == size + HeaderSize
        fit == {c \in ClassNumbers : BytesOf(c) >= need}
    IN  IF fit = {} THEN Foreign ELSE CHOOSE c \in fit : \A d \in fit : c <= d

\* carve: from what is left of the thread's arena, or from a new chunk; what
\* was left is not used again.  The chunk's address is the next one.
Carve(t, want) ==
    IF pools[t].left >= want
    THEN [at |-> pools[t].arena, mapped |-> 0,
          pool |-> [pools[t] EXCEPT !.arena = @ + want, !.left = @ - want]]
    ELSE LET chunk == IF want > ArenaChunk THEN want ELSE ArenaChunk
             base == chunks * ArenaChunk
         IN  [at |-> base, mapped |-> 1,
              pool |-> [pools[t] EXCEPT !.arena = base + want, !.left = chunk - want]]

\* alloc_hook of a size a class has room for; a thread's own free block of
\* the class comes first.  mmap's failure passes the call on to PhysX.
AllocHook(t, size) ==
    /\ Cardinality(live) < MaxLive
    /\ ClassOf(size) # Foreign
    /\ LET class == ClassOf(size)
           free == pools[t].free[class]
           carved == Carve(t, BytesOf(class))
           at == IF free # <<>> THEN Head(free) ELSE carved.at
       IN  /\ IF free # <<>>
              THEN /\ pools' = [pools EXCEPT ![t].free[class] = Tail(free)]
                   /\ UNCHANGED chunks
              ELSE /\ chunks + carved.mapped <= MaxChunks
                   /\ pools' = [pools EXCEPT ![t] = carved.pool]
                   /\ chunks' = chunks + carved.mapped
           /\ heads' = [a \in DOMAIN heads \cup {at} |->
                          IF a = at THEN class ELSE heads[a]]
           /\ live' = live \cup {[at |-> at, size |-> size, class |-> class]}

\* free_hook: the header tells whether the block is ours and its class; the
\* block goes to the freeing thread's list, its mark is taken off.
FreeHook(t, b) ==
    /\ b \in live
    /\ b.at \in DOMAIN heads
    /\ live' = live \ {b}
    /\ pools' = [pools EXCEPT ![t].free[heads[b.at]] = <<b.at>> \o @]
    /\ heads' = [a \in DOMAIN heads \ {b.at} |-> heads[a]]
    /\ UNCHANGED chunks

AllocNext ==
    \E t \in Threads :
        \/ \E size \in Sizes : AllocHook(t, size)
        \/ \E b \in live : FreeHook(t, b)

AllocSpec == AllocInit /\ [][AllocNext]_allocVars

-----------------------------------------------------------------------------
(* Properties                                                               *)

\* What the caller of a block may write, and the header before it.
Payload(b) == (b.at + HeaderSize)..(b.at + HeaderSize + b.size - 1)
Header(b) == b.at..(b.at + HeaderSize - 1)

\* No caller's memory overlaps another's, a header in use or a block that
\* waits in a free list, whichever threads carved and freed the blocks
\* (alloc_hook, free_hook, carve, class_of).
BlocksApart ==
    /\ \A b, c \in live :
          /\ Payload(b) \cap Header(c) = {}
          /\ b # c => Payload(b) \cap Payload(c) = {} /\ Header(b) \cap Header(c) = {}
    /\ \A t \in Threads, k \in ClassNumbers : \A i \in DOMAIN pools[t].free[k] :
          LET at == pools[t].free[k][i]
          IN  \A b \in live : (Payload(b) \cup Header(b)) \cap (at..(at + BytesOf(k) - 1)) = {}
=============================================================================
