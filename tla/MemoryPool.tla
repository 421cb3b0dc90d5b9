------------------------------ MODULE MemoryPool ------------------------------
(***************************************************************************)
(* ladder::MemoryPoolImpl, a list of free blocks behind a mutex, and the   *)
(* MemoryWrapper objects that take a block each, or heap memory when the   *)
(* request is too large or the list is empty.  release deletes the pool    *)
(* but not the static pointer to it: create then hands out the deleted     *)
(* pool, and using that, or releasing it again, is undefined (memWild).    *)
(***************************************************************************)
EXTENDS Naturals, Sequences, Functions

CONSTANTS
    Blocks,   \* the num_blocks_ blocks, in the order of the first list
    Wrappers  \* the MemoryWrapper objects, each in a thread of its own

ASSUME MemoryPoolAssumption == Blocks \in Seq(Range(Blocks)) /\ IsInjective(Blocks)

VARIABLES
    pool,      \* the object of the static pointer: "none", "alive", "deleted"
    instance,  \* instance_ is not null
    blocks,    \* blocks_: the free list
    wrapper,   \* each wrapper: no memory, on its way to a call, or its ptr_
    memWild    \* history: a deleted pool was used

memVars == <<pool, instance, blocks, wrapper, memWild>>

NoMemory == <<"none">>
Heap == <<"heap">>
InBlock(b) == <<"block", b>>
HeldBy(w, b) == wrapper[w] = <<"block", b>> \/ wrapper[w] = <<"back", b>>
Held == {b \in Range(Blocks) : \E w \in Wrappers : HeldBy(w, b)}

MemInit ==
    /\ pool = "none" /\ instance = FALSE /\ blocks = <<>>
    /\ wrapper = [w \in Wrappers |-> NoMemory] /\ memWild = FALSE

(* The constructor makes the list, ... *)
NewPool == pool' = "alive" /\ blocks' = Blocks

(* ... once, although instance calls create each time. *)
CreatePool ==
    /\ instance' = TRUE
    /\ IF pool = "none" THEN NewPool ELSE UNCHANGED <<pool, blocks>>

(* MemoryWrapper's constructor asks for the pool, ... *)
WrapperNew(w) ==
    /\ ~memWild /\ wrapper[w] = NoMemory
    /\ CreatePool
    /\ wrapper' = [wrapper EXCEPT ![w] = <<"ask">>]
    /\ UNCHANGED memWild

(* ... and then for a block; fits is n <= block_size_. *)
Mut_AllocatePeeks(w, fits) ==
    /\ ~memWild /\ wrapper[w] = <<"ask">>
    /\ memWild' = (pool = "deleted")
    /\ wrapper' = [wrapper EXCEPT ![w] = IF fits /\ blocks # <<>> THEN InBlock(Head(blocks)) ELSE Heap]
    /\ UNCHANGED <<pool, instance, blocks>>
Allocate(w, fits) ==
    /\ ~memWild /\ wrapper[w] = <<"ask">>
    /\ memWild' = (pool = "deleted")
    /\ IF fits /\ blocks # <<>>
       THEN wrapper' = [wrapper EXCEPT ![w] = InBlock(Head(blocks))] /\ blocks' = Tail(blocks)
       ELSE wrapper' = [wrapper EXCEPT ![w] = Heap] /\ UNCHANGED blocks
    /\ UNCHANGED <<pool, instance>>

(* The destructor deletes heap memory at once (success_ is false); for a   *)
(* block it asks for the pool again, ...                                   *)
WrapperDelete(w) ==
    /\ ~memWild
    /\ \/ /\ wrapper[w] = Heap
          /\ wrapper' = [wrapper EXCEPT ![w] = NoMemory]
          /\ UNCHANGED <<pool, instance, blocks>>
       \/ \E b \in Range(Blocks) :
             /\ wrapper[w] = InBlock(b)
             /\ wrapper' = [wrapper EXCEPT ![w] = <<"back", b>>]
             /\ CreatePool
    /\ UNCHANGED memWild

(* ... and pushes the block on the list. *)
Free(w, b) ==
    /\ ~memWild /\ wrapper[w] = <<"back", b>>
    /\ memWild' = (pool = "deleted")
    /\ wrapper' = [wrapper EXCEPT ![w] = NoMemory]
    /\ blocks' = IF pool = "alive" THEN <<b>> \o blocks ELSE blocks
    /\ UNCHANGED <<pool, instance>>

(* The destructor deletes the blocks on the list and leaks those in use. *)
DeletePool == pool' = "deleted" /\ blocks' = <<>>

ReleasePool ==
    /\ ~memWild /\ instance
    /\ memWild' = (pool = "deleted")
    /\ DeletePool /\ instance' = FALSE
    /\ UNCHANGED wrapper

MemNext ==
    \/ \E w \in Wrappers :
          \/ WrapperNew(w) \/ WrapperDelete(w)
          \/ \E fits \in BOOLEAN : Allocate(w, fits)
          \/ \E b \in Range(Blocks) : Free(w, b)
    \/ ReleasePool

MemSpec == MemInit /\ [][MemNext]_memVars

-------------------------------------------------------------------------------
(* The type invariant. *)
MemTypeOK ==
    /\ pool \in {"none", "alive", "deleted"}
    /\ {instance, memWild} \subseteq BOOLEAN
    /\ blocks \in Seq(Range(Blocks))
    /\ wrapper \in [Wrappers -> {NoMemory, Heap, <<"ask">>} \cup ({"block", "back"} \X Range(Blocks))]

(* While the pool lives each block is either on the free list, once, or in *)
(* one wrapper: none is lost, shared, or freed while it is in use.         *)
EachBlockOnce ==
    /\ pool = "alive" => /\ IsInjective(blocks)
                         /\ Range(blocks) = Range(Blocks) \ Held
    /\ \A b \in Range(Blocks) : \A v, w \in Wrappers : HeldBy(v, b) /\ HeldBy(w, b) => v = w
===============================================================================
