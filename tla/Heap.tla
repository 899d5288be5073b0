-------------------------------- MODULE Heap --------------------------------
(***************************************************************************)
(* The allocator table, and the blocks obtained through it or from the C   *)
(* runtime.  What is in a block is its owner's business: here it has a     *)
(* name and, while it is live, the family of functions that made it.       *)
(*                                                                         *)
(* A core allocation that fails ends the process, so none returns null.    *)
(***************************************************************************)
EXTENDS Integers

CONSTANTS
  Owners,     \* who holds blocks
  Host,       \* the program around the library, one of them
  Kinds,      \* the blocks an owner may hold, by name
  Families,   \* matching malloc, realloc and free functions
  Crt,        \* those of the C runtime, the library's default
  Dead        \* in place of a family: the block is not live

Entries == {"malloc", "realloc", "free"}
Buffer  == "buffer"   \* what the host gets from fir_malloc

ASSUME FamiliesAssumption == Crt \in Families /\ Dead \notin Families
ASSUME OwnersAssumption == Host \in Owners /\ Buffer \in Kinds

Blocks == Owners \X Kinds

VARIABLES
  table,     \* g_allocators: the family of each function
  heap,      \* the family that made each block
  settled,   \* something has been allocated through the table
  misfreed   \* history: blocks given to another family's free, or freed twice

heapVars == <<table, heap, settled, misfreed>>

HeapInit ==
  /\ table = [e \in Entries |-> Crt]
  /\ heap = [b \in Blocks |-> Dead]
  /\ settled = FALSE
  /\ misfreed = {}

------------------------------------------------------------------------------
Live == {b \in Blocks : heap[b] # Dead}

\* Blocks made by one family.
Made(made, family) ==
  heap' = [b \in Blocks |-> IF b \in made THEN family ELSE heap[b]]

\* Blocks given to one family's free.
Freed(freed, family) ==
  /\ heap' = [b \in Blocks |-> IF b \in freed THEN Dead ELSE heap[b]]
  /\ misfreed' = misfreed \cup {b \in freed : heap[b] # family}

\* operator new of the core classes and the containers' allocator.
Allocate(made) ==
  /\ Made(made, table["malloc"])
  /\ settled' = TRUE
  /\ UNCHANGED <<table, misfreed>>

\* Their deletes and deallocations.
Release(freed) ==
  /\ Freed(freed, table["free"])
  /\ UNCHANGED <<table, settled>>

\* calloc and free, called directly.
CrtAllocate(made) == Made(made, Crt) /\ UNCHANGED <<table, settled, misfreed>>
CrtRelease(freed) == Freed(freed, Crt) /\ UNCHANGED <<table, settled>>

------------------------------------------------------------------------------
(* The host's own calls.                                                    *)

\* Mutant of SetAllocators: the functions that are given are installed.
SetAllocatorsPartly(family, nulls) ==
  /\ table' = [e \in Entries |-> IF e \in nulls THEN table[e] ELSE family]
  /\ UNCHANGED <<heap, settled, misfreed>>

\* fir_set_allocators, some arguments null.  It looks at nothing else: it would
\* replace the functions under blocks already made.
SetAllocators(family, nulls) ==
  /\ table' = IF nulls # {} THEN table ELSE [e \in Entries |-> family]
  /\ UNCHANGED <<heap, settled, misfreed>>

HostMalloc ==
  /\ heap[<<Host, Buffer>>] = Dead
  /\ Allocate({<<Host, Buffer>>})

\* The block is handed back and another one, with its contents, obtained.
HostRealloc ==
  /\ heap[<<Host, Buffer>>] # Dead
  /\ heap' = [heap EXCEPT ![<<Host, Buffer>>] = table["realloc"]]
  /\ misfreed' = misfreed \cup
       {b \in {<<Host, Buffer>>} : heap[b] # table["realloc"]}
  /\ UNCHANGED <<table, settled>>

HostFree ==
  /\ heap[<<Host, Buffer>>] # Dead
  /\ Release({<<Host, Buffer>>})

\* The host's side of the bargain: the header wants the allocators set before the
\* first context, and the code needs them before the first block of any kind.
InstallFirst ==
  /\ ~settled
  /\ \E family \in Families, nulls \in SUBSET Entries : SetAllocators(family, nulls)

HostStep ==
  \/ InstallFirst
  \/ HostMalloc
  \/ HostRealloc
  \/ HostFree

------------------------------------------------------------------------------
\* Every block goes back, once, to the functions that made it: whatever the
\* host installed, and whether the library or the C runtime was asked for it.
FreedByMaker == misfreed = {}
=============================================================================
