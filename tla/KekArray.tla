------------------------------ MODULE KekArray ------------------------------
(***************************************************************************)
(* Arrays (vm/k_array.c, arr_realloc_elems in vm/memory.c, IDXA and ST in  *)
(* vm/vm.c).  An array object keeps its length, its allocated size and the *)
(* block of its elements; the header of a block repeats both numbers, and  *)
(* the collector believes the header.                                      *)
(*                                                                         *)
(* A scavenge copies a block as a whole but follows the cells below the    *)
(* header's length only: a pointer in a cell behind it still points to the *)
(* old segment, which is shown as STALE.  A block is dropped as soon as    *)
(* nothing refers to it: nobody can see when the collector takes it.  A    *)
(* block its array has left can only be written, through addresses taken   *)
(* before: its cells are shown as NIL.                                     *)
(***************************************************************************)
EXTENDS Integers, Sequences, FiniteSets

CONSTANTS
  Arr,        \* array objects
  Obj,        \* values that are heap pointers
  NIL,        \* the value of an element never stored
  STALE,      \* a pointer the collector did not update
  InitSize,   \* ARR_INIT_SIZE
  Literals,   \* lengths of the array literals of the program, 0 for `new Array`
  Blk,        \* names of blocks
  NOBLK,
  MaxLen,     \* bound on the length of each array
  MaxAddr,    \* bound on the addresses waiting for a store
  Unsafe      \* what the program does although it is known to go wrong:
              \*   "append in place": append to an array that has room
              \*   "native growth": store a pointer by native_arr_elem_set
              \*                    behind the allocated size

Val == Obj \cup {NIL}

ASSUME ArrayAssumption ==
  /\ InitSize \in Nat \ {0}
  /\ MaxLen \in [Arr -> Nat] /\ MaxAddr \in Nat
  /\ Literals \in [Arr -> SUBSET Nat]
  /\ \A a \in Arr : \A n \in Literals[a] : n <= MaxLen[a]
  /\ NIL \notin Obj /\ STALE \notin Val
  /\ NOBLK \notin [a : Arr, i : Nat]

\* A name is left for a new block whatever the arrays and the addresses name.
ASSUME BlockAssumption ==
  /\ IsFiniteSet(Arr) /\ IsFiniteSet(Blk)
  /\ Cardinality(Blk) > Cardinality(Arr) + MaxAddr

VARIABLES
  arr,     \* of an array: its length, alloc_size and block
  blk,     \* of a block in use: the length in its header, and its cells
  addr,    \* operands: addresses pushed by IDXA that wait for their ST
  call     \* native_grow_array while it computes the new size

vars == <<arr, blk, addr, call>>

Idle == [k |-> "idle"]
Grow(a, need, then) == [k |-> "grow", a |-> a, need |-> need, size |-> arr[a].alloc, then |-> then]

\* IDX: what a program reads at index i.
At(a, i) == blk[arr[a].b].cells[i + 1]

NewBlk(hlen, cells) == [hlen |-> hlen, cells |-> cells]
NilsShort(n) == [k \in 1..(n - 1) |-> NIL]   \* mutant: sizeof counts one already
Nils(n) == [k \in 1..n |-> NIL]

\* Blocks that an array of r or a waiting address of d refers to.
Used(r, d) == {r[a].b : a \in Arr} \cup {d[k].b : k \in DOMAIN d}
Owned(b) == \E a \in Arr : arr[a].b = b
FreeBlk == CHOOSE b \in Blk : b \notin Used(arr, addr)

---------------------------------------------------------------------------
(* The collector's view of a block.                                        *)
Scavenged(b) ==
  [b EXCEPT !.cells = [k \in DOMAIN b.cells |->
    IF k > b.hlen /\ b.cells[k] \in Obj THEN STALE ELSE b.cells[k]]]

\* A scavenge in the allocation of some other object.
Collect ==
  /\ call = Idle
  /\ blk' = [b \in DOMAIN blk |-> Scavenged(blk[b])]
  /\ UNCHANGED <<arr, addr, call>>

---------------------------------------------------------------------------
(* Lengths.                                                                *)

ArrOnly(a, n) ==                         \* mutant: the header is forgotten
  arr' = [arr EXCEPT ![a].len = n] /\ UNCHANGED blk

\* arr_set_length
arr_set_length(a, n) ==
  /\ arr' = [arr EXCEPT ![a].len = n]
  /\ blk' = [blk EXCEPT ![arr[a].b].hlen = n]

\* The address of element i of a, as IDXA pushes it.
Address(a, i) == [b |-> arr[a].b, i |-> i]

IDXA_Room(a, i) ==
  /\ call = Idle /\ Len(addr) < MaxAddr
  /\ i < arr[a].alloc
  /\ IF i >= arr[a].len THEN arr_set_length(a, i + 1) ELSE UNCHANGED <<arr, blk>>
  /\ addr' = Append(addr, Address(a, i))
  /\ UNCHANGED call

IDXA_Grow(a, i) ==
  /\ call = Idle /\ Len(addr) < MaxAddr
  /\ i >= arr[a].alloc
  /\ call' = Grow(a, i + 1, [k |-> "idxa", i |-> i])
  /\ UNCHANGED <<arr, blk, addr>>

ST(v) ==
  /\ call = Idle /\ addr # <<>>
  /\ addr' = SubSeq(addr, 1, Len(addr) - 1)
  /\ LET p == addr[Len(addr)]
     IN blk' = [b \in Used(arr, addr') |->
                  IF b = p.b /\ Owned(b) THEN [blk[b] EXCEPT !.cells[p.i + 1] = v] ELSE blk[b]]
  /\ UNCHANGED <<arr, call>>

---------------------------------------------------------------------------
(* append and native_arr_elem_set.                                         *)

\* Cells of block c with s stored from index i on.
Written(c, i, s) == [k \in DOMAIN c |-> IF k \in (i + 1)..(i + Len(s)) THEN s[k - i] ELSE c[k]]
Elements(a) == SubSeq(blk[arr[a].b].cells, 1, arr[a].len)

\* Only the array gets the new length, the block's header keeps the old one.
array_append_Room(a, b) ==
  LET n == arr[a].len + arr[b].len IN
  /\ call = Idle /\ a # b
  /\ n <= arr[a].alloc
  /\ arr[b].len > 0 => "append in place" \in Unsafe
  /\ arr' = [arr EXCEPT ![a].len = n]
  /\ blk' = [blk EXCEPT ![arr[a].b].cells = Written(@, arr[a].len, Elements(b))]
  /\ UNCHANGED <<addr, call>>

array_append_Grow(a, b) ==
  LET n == arr[a].len + arr[b].len IN
  /\ call = Idle /\ a # b
  /\ n > arr[a].alloc /\ n <= MaxLen[a]
  /\ call' = Grow(a, n, [k |-> "append", b |-> b])
  /\ UNCHANGED <<arr, blk, addr>>

native_arr_elem_set_Room(a, i, v) ==
  /\ call = Idle
  /\ i < arr[a].alloc
  /\ LET n == IF i >= arr[a].len THEN i + 1 ELSE arr[a].len
     IN /\ arr' = [arr EXCEPT ![a].len = n]
        /\ blk' = [blk EXCEPT ![arr[a].b] = NewBlk(IF i >= arr[a].len THEN n ELSE @.hlen,
                                                   Written(@.cells, i, <<v>>))]
  /\ UNCHANGED <<addr, call>>

native_arr_elem_set_Grow(a, i, v) ==
  /\ call = Idle
  /\ i >= arr[a].alloc
  /\ v \in Obj => "native growth" \in Unsafe
  /\ call' = Grow(a, i + 1, [k |-> "set", i |-> i, v |-> v])
  /\ UNCHANGED <<arr, blk, addr>>

---------------------------------------------------------------------------
(* native_grow_array, arr_realloc_elems: the loop that finds the new size, *)
(* then the allocation, which may scavenge, and the copy.                  *)

new_size_Quarter(n) == (n * 5) \div 4     \* mutant: grows by a quarter
new_size(n) == (n * 3) \div 2

GrowSize ==
  /\ call.k = "grow" /\ call.size < call.need
  /\ call' = [call EXCEPT !.size = new_size(@)]
  /\ UNCHANGED <<arr, blk, addr>>

\* The value that the C local obj of native_arr_elem_set holds afterwards: it
\* is not in the rootset.
Kept(v, gc) == IF gc /\ v \in Obj THEN STALE ELSE v

GrownShort(c, n) == Written(Nils(n), 0, SubSeq(c, 1, Len(c) - 1))   \* mutant: < length - 1
Grown(c, n) == Written(Nils(n), 0, c)

\* The elements the caller of native_grow_array stores behind it.
Stored(gc, mem, cells) ==
  CASE call.then.k = "idxa" -> cells
    [] call.then.k = "append" ->
         Written(cells, arr[call.a].len,
                 SubSeq(mem[arr[call.then.b].b].cells, 1, arr[call.then.b].len))
    [] call.then.k = "set" -> Written(cells, call.then.i, <<Kept(call.then.v, gc)>>)

\* mem is the memory after the allocation, gc whether it has scavenged.
GrowAlloc(gc) ==
  LET a == call.a
      mem == IF gc THEN [b \in DOMAIN blk |-> Scavenged(blk[b])] ELSE blk
      kept == SubSeq(mem[arr[a].b].cells, 1, arr[a].len)
      b == FreeBlk
  IN /\ call.k = "grow" /\ call.size >= call.need
     /\ arr' = [arr EXCEPT ![a] = [len |-> call.need, alloc |-> call.size, b |-> b]]
     /\ addr' = IF call.then.k = "idxa" THEN Append(addr, [b |-> b, i |-> call.then.i]) ELSE addr
     /\ blk' = [c \in Used(arr', addr') |->
                  IF c = b THEN NewBlk(call.need, Stored(gc, mem, Grown(kept, call.size)))
                  ELSE IF c = arr[a].b THEN NewBlk(arr[a].len, Nils(arr[a].alloc))
                  ELSE mem[c]]
     /\ call' = Idle

---------------------------------------------------------------------------
(* An array is created empty by `new Array` (native_new_array) or full by  *)
(* a literal, whose elements are in the constant table                     *)
(* (vm_init_const_table_elems).                                            *)
Init ==
  LET own == CHOOSE f \in [Arr -> Blk] : \A a, c \in Arr : a # c => f[a] # f[c]
  IN \E n \in [Arr -> UNION {Literals[a] : a \in Arr}] :
       /\ \A a \in Arr : n[a] \in Literals[a]
       /\ arr = [a \in Arr |-> [len |-> n[a], b |-> own[a],
                                alloc |-> IF n[a] = 0 THEN InitSize ELSE n[a]]]
       /\ blk = [b \in {own[a] : a \in Arr} |->
                   LET a == CHOOSE c \in Arr : own[c] = b
                   IN NewBlk(arr[a].len, Nils(arr[a].alloc))]
       /\ addr = <<>>
       /\ call = Idle

Index(a) == 0..(MaxLen[a] - 1)

Next ==
  \/ Collect
  \/ \E a \in Arr : \E i \in Index(a) : IDXA_Room(a, i) \/ IDXA_Grow(a, i)
  \/ \E v \in Val : ST(v)
  \/ \E a, b \in Arr : array_append_Room(a, b) \/ array_append_Grow(a, b)
  \/ \E a \in Arr : \E i \in Index(a), v \in Val :
       native_arr_elem_set_Room(a, i, v) \/ native_arr_elem_set_Grow(a, i, v)
  \/ GrowSize
  \/ \E gc \in BOOLEAN : GrowAlloc(gc)

(* native_grow_array runs until it returns: only the calls the program     *)
(* makes next are its own choice.                                          *)
Spec == Init /\ [][Next]_vars /\ WF_vars(GrowSize \/ \E gc \in BOOLEAN : GrowAlloc(gc))

---------------------------------------------------------------------------
(* Properties.                                                             *)

BlkOK(b) == b.hlen \in 0..Len(b.cells) /\ \A k \in DOMAIN b.cells : b.cells[k] \in Val \cup {STALE}

\* Arrays have blocks of their own, and these are as large as they believe.
TypeOK ==
  /\ DOMAIN blk = Used(arr, addr)
  /\ \A b \in DOMAIN blk : BlkOK(blk[b])
  /\ \A a \in Arr : arr[a].alloc = Len(blk[arr[a].b].cells)
  /\ \A a, c \in Arr : arr[a].b = arr[c].b => a = c

\* The assertion of native_array_length (k_array.c:182): array and block
\* agree on the length, so the collector updates every element that the
\* program can read.
LengthsAgree == \A a \in Arr : arr[a].len = blk[arr[a].b].hlen

\* No store through an address taken by IDXA leaves its block, and one into
\* the current block of an array hits an element the program can read.
AddressesUsable ==
  \A k \in DOMAIN addr :
    /\ addr[k].i < Len(blk[addr[k].b].cells)
    /\ addr[k].i < blk[addr[k].b].hlen

\* The loop in arr_realloc_elems is never at a size from which a round does not
\* lead on while the request is larger: whatever arrays were created with, grew
\* to or were appended, so there are no more rounds than cells missing.
NoRoundIsLost ==
  call # Idle /\ call.size < call.need => new_size(call.size) > call.size

\* native_grow_array returns: the loop of arr_realloc_elems finds a size.
GrowTerminates == (call # Idle) ~> (call = Idle)

\* Arrays are the vectors of the README: growing, copying and scavenging
\* change no element, and a store hits its element unless the array has
\* moved since the address was taken.
AsAddress(p) ==
  IF Owned(p.b)
  THEN [a |-> CHOOSE a \in Arr : arr[a].b = p.b, i |-> p.i]
  ELSE NOBLK

V == INSTANCE Vector WITH
       vec <- [a \in Arr |-> Elements(a)],
       addrs <- [k \in DOMAIN addr |-> AsAddress(addr[k])],
       DEAD <- NOBLK

ImplementsVector == V!VSpec
=============================================================================
