-------------------------------- MODULE Arena --------------------------------
(***************************************************************************)
(* The allocator of list.c.  Memory is taken from the front of zeroed      *)
(* parts of PART_SIZE bytes and never given back before the program ends.  *)
(* A byte is <<part, offset>>; parts are numbered in the order of their    *)
(* calloc.  main reads the files it is given before it calls init_alloc,   *)
(* and reading allocates.                                                  *)
(***************************************************************************)
EXTENDS Integers, Sequences, FiniteSets

CONSTANTS
  PartSize,  \* PART_SIZE
  Size,      \* sizes of requests, larger ones than a part included
  MaxParts,  \* parts that calloc can provide
  Undef      \* an entry of Mem that nobody has assigned

ASSUME PartSizeAssumption == PartSize \in Nat \ {0}
ASSUME SizeAssumption == Size \subseteq Nat
ASSUME PartsAssumption == MaxParts \in Nat
ASSUME UndefAssumption == Undef \notin Nat

VARIABLES
  memalloc,  \* the static struct: current part, At and Left in it, Mem
  blocks,    \* what callers have been given
  written,   \* bytes that a caller may have written, or print_to_mem has
  freed,     \* the pointers that end_alloc has passed to free
  phase      \* of main

vars == <<memalloc, blocks, written, freed, phase>>

Block(p, a, s) == [part |-> p, at |-> a, size |-> s]
Span(p, a, s)  == {p} \X (a..(a + s - 1))
Bytes(b)       == Span(b.part, b.at, b.size)

TypeOK ==
  /\ memalloc.part \in 0..MaxParts
  /\ memalloc.At \in Nat
  /\ memalloc.Left \in Int
  /\ memalloc.part > 0 => memalloc.At + memalloc.Left = PartSize
  /\ memalloc.Mem \in Seq(Nat \cup {Undef})
  /\ blocks \subseteq [part : Nat, at : Nat, size : Nat]
  /\ written \subseteq Nat \X Nat
  /\ freed \subseteq Nat \cup {Undef}
  /\ phase \in {"args", "run", "ended", "aborted"}

\* The struct is static: no part, nothing left.
Init ==
  /\ memalloc = [part |-> 0, At |-> 0, Left |-> 0, Mem |-> << >>]
  /\ blocks = {}
  /\ written = {}
  /\ freed = {}
  /\ phase = "args"
-----------------------------------------------------------------------------
Up == phase \in {"args", "run"}

\* get_mem counts the new part in MemSize, but does not enter it in Mem.
NewPartKeepsRest(m) == [part |-> m.part + 1, At |-> 0,
                        Left |-> m.Left + PartSize,
                        Mem |-> Append(m.Mem, Undef)]
NewPart(m) == [part |-> m.part + 1, At |-> 0, Left |-> PartSize,
               Mem |-> Append(m.Mem, Undef)]

Take(m, s) == [part |-> m.part, At |-> m.At + s, Left |-> m.Left - s,
               Mem |-> m.Mem]
GetMem(m, s) == Take(IF m.Left < s THEN NewPart(m) ELSE m, s)

\* The block that get_mem returns, from the state it leaves.
Taken(m, s) == Block(m.part, m.At - s, s)

\* A request: s bytes are given to a caller, who writes them.  The part it may
\* need is there, or calloc fails and the assertion ends the program.
Provided(m) == m.part <= MaxParts
Give(m, s) ==
  /\ Provided(m)
  /\ memalloc' = m
  /\ blocks' = blocks \cup {Taken(m, s)}
  /\ UNCHANGED <<freed, phase>>

\* Before init_alloc there are only the reader's requests, none of them empty.
get_mem(s) ==
  /\ Up /\ (phase = "args" => s > 0)
  /\ Give(GetMem(memalloc, s), s)
  /\ written' = written \cup Bytes(Taken(GetMem(memalloc, s), s))

\* The block is the last one and what is added fits: it grows where it is.
AtEnd(b) == b.part = memalloc.part /\ b.at + b.size = memalloc.At
GrowStill(n) == [memalloc EXCEPT !.Left = @ - n]
Grow(n) == Take(memalloc, n)
more_mem_in_place(b, n) ==
  /\ Up /\ AtEnd(b) /\ memalloc.Left >= n
  /\ memalloc' = Grow(n)
  /\ blocks' = (blocks \ {b}) \cup {[b EXCEPT !.size = @ + n]}
  /\ written' = written \cup Span(b.part, b.at + b.size, n)
  /\ UNCHANGED <<freed, phase>>

\* It does not fit: the block is copied, its old bytes are abandoned.
more_mem_moved(b, n) ==
  /\ Up /\ AtEnd(b) /\ memalloc.Left < n
  /\ LET s == b.size + n
         m == GetMem(memalloc, s)
     IN /\ Give(m, s)
        /\ written' = written \cup Bytes(Taken(m, s))

\* assert(memalloc.At == before + beforesize)
more_mem_not_last(b) ==
  /\ Up /\ ~AtEnd(b)
  /\ phase' = "aborted"
  /\ UNCHANGED <<memalloc, blocks, written, freed>>

\* vsnprintf prints into what is left of the part, len characters and a NUL.
\* If that was too short, the string is printed once more, elsewhere.  Left is
\* converted to size_t: a negative one sets no limit.
TooLongNoNul(len) == len > memalloc.Left
TooLong(len) == len >= memalloc.Left
Unlimited(len) == Span(memalloc.part, memalloc.At, len + 1)
Truncated(len) ==
  Span(memalloc.part, memalloc.At,
       IF memalloc.Left < 0 THEN len + 1 ELSE memalloc.Left)
print_to_mem(len) ==
  /\ Up
  /\ IF TooLong(len)
     THEN LET m == GetMem(memalloc, len + 1)
          IN /\ Give(m, len + 1)
             /\ written' = written \cup Truncated(len)
                                   \cup Bytes(Taken(m, len + 1))
     ELSE LET m == Take(memalloc, len + 1)
          IN /\ Give(m, len + 1)
             /\ written' = written \cup Bytes(Taken(m, len + 1))

\* assert(!!a) in get_mem, and its like in init_alloc
CallocFails ==
  /\ Up /\ (phase = "args" \/ \E s \in Size : memalloc.Left < s)
  /\ phase' = "aborted"
  /\ UNCHANGED <<memalloc, blocks, written, freed>>

\* init_alloc begins a list of parts of its own; blocks stay where they are.
init_alloc ==
  /\ phase = "args" /\ memalloc.part < MaxParts
  /\ memalloc' = [part |-> memalloc.part + 1, At |-> 0, Left |-> PartSize,
                  Mem |-> <<memalloc.part + 1>>]
  /\ phase' = "run"
  /\ UNCHANGED <<blocks, written, freed>>

Entries(seq) == {seq[i] : i \in DOMAIN seq}
end_alloc ==
  /\ phase = "run"
  /\ freed' = Entries(memalloc.Mem)
  /\ phase' = "ended"
  /\ UNCHANGED <<memalloc, blocks, written>>

\* A process that has exited.
Stop == ~Up /\ UNCHANGED vars

Next ==
  \/ \E s \in Size : get_mem(s) \/ print_to_mem(s)
  \/ \E b \in blocks, n \in Size : more_mem_in_place(b, n) \/ more_mem_moved(b, n)
  \/ \E b \in blocks : more_mem_not_last(b)
  \/ CallocFails \/ init_alloc \/ end_alloc \/ Stop

Spec == Init /\ [][Next]_vars
-----------------------------------------------------------------------------
\* No byte is given to two callers, whatever mixture of get_mem, more_mem and
\* print_to_mem they call, before and after init_alloc (list.c:48).
Disjoint == \A b, c \in blocks : b # c => Bytes(b) \cap Bytes(c) = {}

\* What the allocator has left of its part is still zero, although
\* print_to_mem writes there before it knows whether the string fits: the
\* reader relies on the NUL behind its copy of a file (list.c:452).
Rest == Span(memalloc.part, memalloc.At, PartSize - memalloc.At)
RestIsZero == memalloc.part > 0 => Rest \cap written = {}

\* A block that is handed out leaves its part only if it is larger than any
\* part, and it then begins at the front.  Behind a part is written only where
\* there is such a block: by its owner, or by print_to_mem, for which the
\* negative Left is no limit (list.c:49, 98).
Oversized(b) == b.size > PartSize
OnlyOversizedOverrun ==
  /\ \A b \in blocks :
       b.at + b.size > PartSize => b.at = 0 /\ Oversized(b)
  /\ \A x \in written :
       x[2] >= PartSize => \E b \in blocks : b.part = x[1] /\ Oversized(b)
-----------------------------------------------------------------------------
\* list.c:82: freeing all memory is handy for finding actual memory leaks.
EndFreesParts == phase = "ended" => freed = 1..memalloc.part
=============================================================================
