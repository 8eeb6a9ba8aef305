------------------------------- MODULE WasmAbi -------------------------------
(***************************************************************************)
(* One instance of the GraphLaw WebAssembly module as its hosts see it     *)
(* through the wasm-bindgen string ABI: a stack pointer, a heap of blocks, *)
(* and a linear memory that may be replaced by a larger one, after which   *)
(* every typed array made over the old buffer is detached.                 *)
(*                                                                         *)
(* The allocator and the engine are not code of this repository.  They are *)
(* modelled from how the hosts use them: malloc gives a block of its own,  *)
(* an exported function owns its argument blocks and frees them, and a     *)
(* trap unwinds nothing.                                                   *)
(***************************************************************************)
EXTENDS Naturals, Sequences, FiniteSets

CONSTANT Empty        \* the empty string

\* What a block holds before anything is written to it, and the bytes of a
\* string (TextEncoder).
Junk == <<>>

Bytes(s) == <<s>>

\* A new instance: nothing on the stack, nothing allocated.
NewInstance == [sp |-> 0, gen |-> 0, heap |-> [a \in {} |-> Junk]]

Live(i) == DOMAIN i.heap

\* The address malloc gives: one that no live block has.
Fresh(i) == CHOOSE a \in 1 .. Cardinality(Live(i)) + 1 : a \notin Live(i)

Store(i, a, v) ==
  [i EXCEPT !.heap = [x \in Live(i) \cup {a} |-> IF x = a THEN v ELSE i.heap[x]]]

FreeAll(i, as) ==
  [i EXCEPT !.heap = [x \in Live(i) \ as |-> i.heap[x]]]

\* Any allocation, and the engine itself, may grow the memory.
Grown(i, grow) == IF grow THEN [i EXCEPT !.gen = @ + 1] ELSE i

\* malloc of a non-zero size.
Malloc(i, grow) == Grown(Store(i, Fresh(i), Junk), grow)

\* A typed array over the buffer the memory has now, and whether the memory
\* was replaced since: such an array throws when it is used.
View(i) == i.gen

Detached(i, view) == view # i.gen

\* __wbindgen_add_to_stack_pointer(-16) and (16), in frames of 16 bytes.
Push(i) == [i EXCEPT !.sp = @ + 1]

Pop(i) == [i EXCEPT !.sp = @ - 1]
=============================================================================
