----------------------------- MODULE ArenaProofs -----------------------------
(***************************************************************************)
(* Proofs about Arena.  Everything follows from a bound: blocks and        *)
(* written bytes lie below the allocator's position <<part, At>>, which    *)
(* only moves upwards, and At and Left always add up to a part.  What lies *)
(* behind the end of a part lies there because of a block larger than one. *)
(***************************************************************************)
EXTENDS Arena, TLAPS

USE PartSizeAssumption, SizeAssumption, PartsAssumption

Allocator == [part : Nat, At : Nat, Left : Int, Mem : Seq(Nat \cup {Undef})]

\* Before the first part there is nothing; then At and Left share a part.
Balanced(m) ==
  /\ m \in Allocator
  /\ m.part = 0 => m.At = 0 /\ m.Left = 0
  /\ m.part > 0 => m.At + m.Left = PartSize

BytesBelow(m, S) ==
  \A x \in S : /\ x \in Nat \X Nat
               /\ x[1] < m.part \/ (x[1] = m.part /\ x[2] < m.At)
BlockBelow(m, b) ==
  /\ b.part \in Nat \ {0} /\ b.at \in Nat /\ b.size \in Nat
  /\ b.part < m.part \/ (b.part = m.part /\ b.at + b.size <= m.At)
Apart(b, c) ==
  \/ b.part # c.part \/ b.size = 0 \/ c.size = 0
  \/ b.at + b.size <= c.at
  \/ c.at + c.size <= b.at
Fits(b) == b.at + b.size > PartSize => b.at = 0 /\ b.size > PartSize
IsBlock(b) == b = Block(b.part, b.at, b.size)

BlocksOK ==
  /\ \A b \in blocks : IsBlock(b) /\ BlockBelow(memalloc, b) /\ Fits(b)
  /\ \A b, c \in blocks : b # c => Apart(b, c)

\* Bytes behind a part are in one that an oversized block has overrun.
Overrun(p, B)  == \E b \in B : b.part = p /\ Oversized(b)
Excused(S, B)  == \A x \in S : x[2] >= PartSize => Overrun(x[1], B)

OverrunsOK ==
  /\ memalloc.Left < 0 => Overrun(memalloc.part, blocks)
  /\ Excused(written, blocks)

IInv ==
  /\ Balanced(memalloc)
  /\ memalloc.part <= MaxParts
  /\ BytesBelow(memalloc, written)
  /\ BlocksOK
  /\ OverrunsOK
  /\ freed \subseteq Nat \cup {Undef}
  /\ phase \in {"args", "run", "ended", "aborted"}
  /\ phase = "run" => memalloc.part > 0

-----------------------------------------------------------------------------
LEMMA TakeMoves ==
  ASSUME NEW m \in Allocator, NEW s \in Nat
  PROVE  /\ Take(m, s) \in Allocator
         /\ Take(m, s).part = m.part
         /\ Take(m, s).At = m.At + s
         /\ Take(m, s).Left = m.Left - s
BY DEF Take, Allocator

LEMMA NewPartIsWhole ==
  ASSUME NEW m \in Allocator
  PROVE  /\ NewPart(m) \in Allocator
         /\ NewPart(m).part = m.part + 1
         /\ NewPart(m).At = 0
         /\ NewPart(m).Left = PartSize
BY DEF NewPart, Allocator

\* get_mem hands out the bytes at At, or the front of a new part.
LEMMA GetMemMoves ==
  ASSUME NEW m, Balanced(m), NEW s \in Nat, m.part = 0 => s > 0
  PROVE  /\ Balanced(GetMem(m, s))
         /\ GetMem(m, s).part > 0
         /\ \/ /\ GetMem(m, s).part = m.part
               /\ GetMem(m, s).At = m.At + s
               /\ s <= m.Left
            \/ /\ GetMem(m, s).part = m.part + 1
               /\ GetMem(m, s).At = s
<1>0. /\ m \in Allocator
      /\ m.part \in Nat /\ m.At \in Nat /\ m.Left \in Int
  BY DEF Balanced, Allocator
<1>1. CASE m.Left < s
  <2>1. GetMem(m, s) = Take(NewPart(m), s)
    BY <1>1 DEF GetMem
  <2>2. /\ GetMem(m, s) \in Allocator
        /\ GetMem(m, s).part = m.part + 1
        /\ GetMem(m, s).At = s
        /\ GetMem(m, s).Left = PartSize - s
    <3>1. NewPart(m) \in Allocator
      BY <1>0, NewPartIsWhole
    <3>2. /\ Take(NewPart(m), s) \in Allocator
          /\ Take(NewPart(m), s).part = NewPart(m).part
          /\ Take(NewPart(m), s).At = NewPart(m).At + s
          /\ Take(NewPart(m), s).Left = NewPart(m).Left - s
      BY <3>1, TakeMoves
    <3>. QED  BY <1>0, <2>1, <3>2, NewPartIsWhole
  <2>. QED  BY <1>0, <2>2 DEF Balanced
<1>2. CASE ~(m.Left < s)
  <2>1. GetMem(m, s) = Take(m, s)
    BY <1>2 DEF GetMem
  <2>2. /\ GetMem(m, s) \in Allocator
        /\ GetMem(m, s).part = m.part
        /\ GetMem(m, s).At = m.At + s
        /\ GetMem(m, s).Left = m.Left - s
    <3>1. /\ Take(m, s) \in Allocator
          /\ Take(m, s).part = m.part
          /\ Take(m, s).At = m.At + s
          /\ Take(m, s).Left = m.Left - s
      BY <1>0, TakeMoves
    <3>. QED  BY <2>1, <3>1
  <2>. QED  BY <1>0, <1>2, <2>2 DEF Balanced
<1>. QED  BY <1>1, <1>2

\* A request keeps the invariant when the allocator moves up by its size and
\* what has been written besides lies below.
LEMMA GivePreserves ==
  ASSUME IInv, Up, NEW m, NEW s \in Nat, Balanced(m), m.part > 0,
         \/ m.part = memalloc.part /\ m.At = memalloc.At + s /\ s <= memalloc.Left
         \/ m.part = memalloc.part + 1 /\ m.At = s,
         NEW extra, BytesBelow(m, extra), Excused(extra, blocks),
         Give(m, s), written' = written \cup extra \cup Bytes(Taken(m, s))
  PROVE  IInv'
<1>. DEFINE b == Taken(m, s)
<1>0. /\ m.part \in Nat /\ m.At \in Nat /\ m.At - s \in Nat
      /\ memalloc.part \in Nat /\ memalloc.At \in Nat /\ memalloc.Left \in Int
  BY DEF Balanced, Allocator, IInv
<1>1. b = [part |-> m.part, at |-> m.At - s, size |-> s]
  BY DEF Taken, Block
<1>fields. b.part = m.part /\ b.at = m.At - s /\ b.size = s
  BY <1>1
<1> HIDE DEF b
<1>2. IsBlock(b) /\ BlockBelow(m, b)
  BY <1>0, <1>1 DEF IsBlock, Block, BlockBelow
<1>3. Fits(b)
  <2>1. m.At + m.Left = PartSize /\ memalloc.part \in Nat
    BY <1>0 DEF Balanced
  <2>2. m.part = memalloc.part => memalloc.At + memalloc.Left = PartSize
    BY <1>0 DEF IInv, Balanced
  <2>. QED  BY <1>0, <1>1, <2>1, <2>2 DEF Fits
<1>4. \A c \in blocks : BlockBelow(m, c) /\ Apart(b, c) /\ Apart(c, b)
  <2> SUFFICES ASSUME NEW c \in blocks
               PROVE  BlockBelow(m, c) /\ Apart(b, c) /\ Apart(c, b)
    OBVIOUS
  <2>1. BlockBelow(memalloc, c)
    BY DEF IInv, BlocksOK
  <2>2. BlockBelow(m, c)
    BY <2>1, <1>0 DEF BlockBelow
  <2>3. \/ c.part < m.part
        \/ c.part = m.part /\ c.at + c.size <= m.At - s
    BY <2>1, <1>0 DEF BlockBelow
  <2>4. c.part \in Nat /\ c.at \in Nat /\ c.size \in Nat
    BY <2>1 DEF BlockBelow
  <2>5. c.part # b.part \/ c.at + c.size <= b.at
    BY <1>0, <1>fields, <2>3, <2>4
  <2>. QED  BY <2>2, <2>5 DEF Apart
<1>5. BlocksOK'
  <2>1. memalloc' = m /\ blocks' = blocks \cup {b}
    BY DEF Give, b
  <2>2. \A c \in blocks' : IsBlock(c) /\ BlockBelow(m, c) /\ Fits(c)
    BY <2>1, <1>2, <1>3, <1>4 DEF IInv, BlocksOK
  <2>3. \A c, d \in blocks' : c # d => Apart(c, d)
    BY <2>1, <1>4 DEF IInv, BlocksOK
  <2>. QED
    BY <2>1, <2>2, <2>3
    DEF BlocksOK, IsBlock, BlockBelow, Fits, Apart, Block
<1>6. BytesBelow(m, Bytes(b))
  BY <1>0, <1>1 DEF Bytes, Span, BytesBelow
<1>7. BytesBelow(m, written)
  BY <1>0 DEF BytesBelow, IInv
<1>8. BytesBelow(m, written')
  BY <1>6, <1>7 DEF BytesBelow, b
<1>9. memalloc' = m /\ m.part <= MaxParts /\ UNCHANGED <<freed, phase>>
  <2>1. m.part \in Int /\ MaxParts \in Int
    BY <1>0
  <2>. QED  BY <2>1 DEF Give, Provided
<1>10. blocks' = blocks \cup {b}
  BY DEF Give, b
<1>11. m.At > PartSize => Overrun(m.part, blocks')
  BY <1>0, <1>3, <1>fields, <1>10 DEF Fits, Overrun, Oversized
<1>12. m.Left < 0 => Overrun(m.part, blocks')
  BY <1>0, <1>11 DEF Balanced, Allocator
<1>13. Excused(Bytes(b), blocks')
  <2> SUFFICES ASSUME NEW x \in Bytes(b), x[2] >= PartSize
               PROVE  Overrun(x[1], blocks')
    BY DEF Excused
  <2>1. x[1] = m.part /\ x[2] \in Int /\ x[2] < m.At
    BY <1>0, <1>fields DEF Bytes, Span
  <2>. QED  BY <1>0, <1>11, <2>1
<1>14. Excused(written', blocks')
  BY <1>10, <1>13 DEF Excused, Overrun, IInv, OverrunsOK, b
<1>15. OverrunsOK'
  BY <1>9, <1>12, <1>14 DEF OverrunsOK, Excused, Overrun
<1>. QED  BY <1>5, <1>8, <1>9, <1>15 DEF IInv, Balanced, BytesBelow

LEMMA InitOK == Init => IInv
BY DEF Init, IInv, Balanced, Allocator, BytesBelow, BlocksOK, OverrunsOK, Excused

LEMMA GetMemStep ==
  ASSUME IInv, NEW s \in Size, get_mem(s)
  PROVE  IInv'
<1>1. s \in Nat /\ Balanced(memalloc) /\ memalloc.part \in Nat
  BY DEF IInv, Balanced, Allocator
<1>2. memalloc.part = 0 => s > 0
  BY <1>1 DEF get_mem, Up, IInv
<1>3. BytesBelow(GetMem(memalloc, s), {})
  BY DEF BytesBelow
<1>. Excused({}, blocks)
  BY DEF Excused
<1>4. Up /\ Give(GetMem(memalloc, s), s)
  BY DEF get_mem
<1>5. written' = written \cup {} \cup Bytes(Taken(GetMem(memalloc, s), s))
  BY DEF get_mem
<1>. QED  BY <1>1, <1>2, <1>3, <1>4, <1>5, GetMemMoves, GivePreserves

LEMMA MoveStep ==
  ASSUME IInv, NEW b \in blocks, NEW n \in Size, more_mem_moved(b, n)
  PROVE  IInv'
<1>. DEFINE s == b.size + n
<1>1. n \in Nat /\ b.size \in Nat /\ s \in Nat
  BY DEF IInv, BlocksOK, BlockBelow
<1>2. Balanced(memalloc) /\ memalloc.part > 0
  BY DEF IInv, BlocksOK, BlockBelow, Balanced, Allocator
<1>3. BytesBelow(GetMem(memalloc, s), {})
  BY DEF BytesBelow
<1>. Excused({}, blocks)
  BY DEF Excused
<1>4. Up /\ Give(GetMem(memalloc, s), s)
  BY DEF more_mem_moved
<1>5. written' = written \cup {} \cup Bytes(Taken(GetMem(memalloc, s), s))
  BY DEF more_mem_moved
<1>. HIDE DEF s
<1>6. memalloc.part \in Nat /\ (memalloc.part = 0 => s > 0)
  BY <1>2 DEF Balanced, Allocator
<1>7. /\ Balanced(GetMem(memalloc, s)) /\ GetMem(memalloc, s).part > 0
      /\ \/ /\ GetMem(memalloc, s).part = memalloc.part
            /\ GetMem(memalloc, s).At = memalloc.At + s
            /\ s <= memalloc.Left
         \/ /\ GetMem(memalloc, s).part = memalloc.part + 1
            /\ GetMem(memalloc, s).At = s
  BY <1>1, <1>2, <1>6, GetMemMoves
<1>. QED  BY <1>1, <1>3, <1>4, <1>5, <1>7, GivePreserves

\* The string fits with its NUL; or it is printed again in a new part, and
\* what the first attempt has written stays below.
LEMMA PrintStep ==
  ASSUME IInv, NEW len \in Size, print_to_mem(len)
  PROVE  IInv'
<1>0. /\ len \in Nat /\ len + 1 \in Nat /\ Balanced(memalloc)
      /\ memalloc \in Allocator /\ memalloc.part \in Nat
      /\ memalloc.At \in Nat /\ memalloc.Left \in Int /\ Up
  BY DEF IInv, Balanced, Allocator, print_to_mem
<1>1. CASE TooLong(len)
  <2>. DEFINE m == GetMem(memalloc, len + 1)
  <2>1. /\ Give(m, len + 1)
        /\ written' = written \cup Truncated(len) \cup Bytes(Taken(m, len + 1))
    BY <1>1 DEF print_to_mem
  <2>2. memalloc.Left < len + 1
    BY <1>0, <1>1 DEF TooLong
  <2>3. /\ Balanced(m) /\ m.part > 0
        /\ m.part = memalloc.part + 1 /\ m.At = len + 1
    BY <1>0, <2>2, GetMemMoves
  <2>4. BytesBelow(m, Truncated(len))
    BY <1>0, <2>3 DEF BytesBelow, Truncated, Span
  <2>5. Excused(Truncated(len), blocks)
    <3> SUFFICES ASSUME NEW x \in Truncated(len), x[2] >= PartSize
                 PROVE  Overrun(memalloc.part, blocks)
      BY DEF Excused, Truncated, Span
    <3>1. CASE memalloc.Left < 0
      BY <3>1 DEF IInv, OverrunsOK
    <3>2. CASE ~(memalloc.Left < 0)
      <4>1. x[2] \in Int /\ memalloc.At <= x[2] /\ x[2] < memalloc.At + memalloc.Left
        BY <1>0, <3>2 DEF Truncated, Span
      <4>. QED  BY <1>0, <4>1 DEF Balanced
    <3>. QED  BY <3>1, <3>2
  <2>. HIDE DEF m
  <2>. QED  BY <1>0, <2>1, <2>3, <2>4, <2>5, GivePreserves
<1>2. CASE ~TooLong(len)
  <2>. DEFINE m == Take(memalloc, len + 1)
  <2>1. /\ Give(m, len + 1)
        /\ written' = written \cup {} \cup Bytes(Taken(m, len + 1))
    BY <1>2 DEF print_to_mem
  <2>2. len + 1 <= memalloc.Left
    BY <1>0, <1>2 DEF TooLong
  <2>3. /\ m \in Allocator /\ m.part = memalloc.part
        /\ m.At = memalloc.At + (len + 1) /\ m.Left = memalloc.Left - (len + 1)
    BY <1>0, TakeMoves
  <2>4. memalloc.part > 0
    BY <1>0, <2>2 DEF Balanced
  <2>5. Balanced(m) /\ m.part > 0
    BY <1>0, <2>3, <2>4 DEF Balanced
  <2>6. BytesBelow(m, {}) /\ Excused({}, blocks)
    BY DEF BytesBelow, Excused
  <2>. HIDE DEF m
  <2>. QED  BY <1>0, <2>1, <2>2, <2>3, <2>5, <2>6, GivePreserves
<1>. QED  BY <1>1, <1>2

\* The last block grows: the position moves with its end.
LEMMA GrowStep ==
  ASSUME IInv, NEW b \in blocks, NEW n \in Size, more_mem_in_place(b, n)
  PROVE  IInv'
<1>. DEFINE d == [b EXCEPT !.size = @ + n]
<1>0. /\ n \in Nat /\ Balanced(memalloc) /\ memalloc \in Allocator
      /\ memalloc.part \in Nat /\ memalloc.At \in Nat /\ memalloc.Left \in Int
      /\ IsBlock(b) /\ BlockBelow(memalloc, b) /\ Fits(b)
  BY DEF IInv, Balanced, Allocator, BlocksOK
<1>1. /\ b.part = memalloc.part /\ b.at + b.size = memalloc.At
      /\ n <= memalloc.Left /\ memalloc' = Take(memalloc, n)
      /\ blocks' = (blocks \ {b}) \cup {d}
      /\ written' = written \cup Span(b.part, b.at + b.size, n)
      /\ UNCHANGED <<freed, phase>>
  BY <1>0 DEF more_mem_in_place, AtEnd, Grow
<1>2. d = Block(b.part, b.at, b.size + n)
  BY <1>0 DEF IsBlock, Block
<1>3. d.part = b.part /\ d.at = b.at /\ d.size = b.size + n
  BY <1>2 DEF Block
<1>. HIDE DEF d
<1>4. /\ memalloc'.part = memalloc.part
      /\ memalloc'.At = memalloc.At + n
      /\ memalloc'.Left = memalloc.Left - n
      /\ memalloc' \in Allocator
  BY <1>0, <1>1, TakeMoves
<1>5. Balanced(memalloc')
  BY <1>0, <1>1, <1>4 DEF Balanced, BlockBelow
<1>6. IsBlock(d) /\ BlockBelow(memalloc', d) /\ Fits(d)
  <2>1. IsBlock(d)
    BY <1>2, <1>3 DEF IsBlock
  <2>2. BlockBelow(memalloc', d)
    BY <1>0, <1>1, <1>3, <1>4 DEF BlockBelow
  <2>3. memalloc.At + memalloc.Left = PartSize
    BY <1>0, <1>1 DEF Balanced, BlockBelow
  <2>4. d.at + d.size <= PartSize
    BY <1>0, <1>1, <1>3, <2>3 DEF BlockBelow
  <2>5. Fits(d)
    BY <1>0, <1>3, <2>4 DEF Fits, BlockBelow
  <2>. QED  BY <2>1, <2>2, <2>5
<1>7. \A c \in blocks \ {b} : Apart(c, d) /\ Apart(d, c) /\ BlockBelow(memalloc', c)
  <2> SUFFICES ASSUME NEW c \in blocks, c # b
               PROVE  Apart(c, d) /\ Apart(d, c) /\ BlockBelow(memalloc', c)
    OBVIOUS
  <2>1. BlockBelow(memalloc, c) /\ Apart(c, b) /\ Apart(b, c)
    BY DEF IInv, BlocksOK
  <2>2. BlockBelow(memalloc', c)
    BY <1>0, <1>4, <2>1 DEF BlockBelow
  <2>3. c.part # b.part \/ c.size = 0 \/ c.at + c.size <= b.at \/ b.size = 0
    <3>1. CASE c.part = b.part /\ b.at + b.size <= c.at
      BY <1>0, <1>1, <2>1, <3>1 DEF BlockBelow
    <3>. QED  BY <3>1, <2>1 DEF Apart
  <2>4. CASE b.size = 0
    BY <1>0, <1>1, <1>3, <2>1, <2>2, <2>4 DEF Apart, BlockBelow
  <2>. QED  BY <1>3, <2>2, <2>3, <2>4 DEF Apart
<1>8. BlocksOK'
  <2>1. \A c \in blocks' : IsBlock(c) /\ BlockBelow(memalloc', c) /\ Fits(c)
    BY <1>1, <1>6, <1>7 DEF IInv, BlocksOK
  <2>2. \A c, e \in blocks' : c # e => Apart(c, e)
    BY <1>1, <1>7 DEF IInv, BlocksOK
  <2>. QED
    BY <2>1, <2>2 DEF BlocksOK, IsBlock, BlockBelow, Fits, Apart, Block
<1>9. BytesBelow(memalloc', written')
  <2>1. BytesBelow(memalloc', written)
    BY <1>0, <1>4 DEF IInv, BytesBelow
  <2>2. BytesBelow(memalloc', Span(b.part, b.at + b.size, n))
    BY <1>0, <1>1, <1>4 DEF BytesBelow, Span, BlockBelow
  <2>. QED  BY <1>1, <2>1, <2>2 DEF BytesBelow
<1>10. \A p : Overrun(p, blocks) => Overrun(p, blocks')
  BY <1>0, <1>1, <1>3 DEF Overrun, Oversized, BlockBelow
<1>11. Excused(Span(b.part, b.at + b.size, n), blocks')
  <2>1. memalloc.At + memalloc.Left = PartSize
    BY <1>0, <1>1 DEF Balanced, BlockBelow
  <2>2. \A x \in Span(b.part, b.at + b.size, n) : x[2] \in Int /\ x[2] < PartSize
    BY <1>0, <1>1, <2>1 DEF Span
  <2>. QED  BY <2>2 DEF Excused
<1>12. OverrunsOK'
  <2>1. ~(memalloc'.Left < 0)
    BY <1>0, <1>1, <1>4
  <2>2. Excused(written', blocks')
    BY <1>1, <1>10, <1>11 DEF Excused, IInv, OverrunsOK
  <2>. QED  BY <2>1, <2>2 DEF OverrunsOK, Excused, Overrun
<1>. QED  BY <1>1, <1>4, <1>5, <1>8, <1>9, <1>12 DEF IInv, Balanced, BytesBelow

LEMMA InitAllocStep ==
  ASSUME IInv, init_alloc
  PROVE  IInv'
<1>. DEFINE m == [part |-> memalloc.part + 1, At |-> 0, Left |-> PartSize,
                  Mem |-> <<memalloc.part + 1>>]
<1>0. memalloc.part \in Nat /\ memalloc.At \in Nat
  BY DEF IInv, Balanced, Allocator
<1>1. /\ memalloc' = m /\ phase' = "run" /\ memalloc.part < MaxParts
      /\ UNCHANGED <<blocks, written, freed>>
  BY DEF init_alloc
<1>2. Balanced(m) /\ m.part = memalloc.part + 1 /\ m.At = 0
  BY <1>0 DEF Balanced, Allocator
<1>3. \A b \in blocks : BlockBelow(memalloc, b) => BlockBelow(m, b)
  BY <1>0, <1>2 DEF BlockBelow
<1>4. BytesBelow(m, written)
  BY <1>0, <1>2 DEF BytesBelow, IInv
<1>. HIDE DEF m
<1>5. BlocksOK'
  BY <1>1, <1>3 DEF IInv, BlocksOK, IsBlock, BlockBelow, Fits, Apart, Block
<1>6. m.part <= MaxParts /\ m.part > 0
  BY <1>0, <1>1, <1>2
<1>7. OverrunsOK'
  BY <1>1 DEF IInv, OverrunsOK, Excused, Overrun, m
<1>. QED  BY <1>1, <1>2, <1>4, <1>5, <1>6, <1>7 DEF IInv, Balanced, BytesBelow

\* The other steps leave the allocator alone.
LEMMA EndStep ==
  ASSUME IInv, UNCHANGED <<memalloc, blocks, written>>,
         freed' \in {freed, Entries(memalloc.Mem)},
         phase' \in {phase, "ended", "aborted"}
  PROVE  IInv'
<1>1. Entries(memalloc.Mem) \subseteq Nat \cup {Undef}
  BY DEF IInv, Balanced, Allocator, Entries
<1>2. BlocksOK'
  BY DEF IInv, BlocksOK, IsBlock, BlockBelow, Fits, Apart, Block
<1>3. freed' \subseteq Nat \cup {Undef}
  BY <1>1 DEF IInv
<1>4. OverrunsOK'
  BY DEF IInv, OverrunsOK, Excused, Overrun
<1>. QED  BY <1>2, <1>3, <1>4 DEF IInv, Balanced, BytesBelow

LEMMA StepOK == IInv /\ [Next]_vars => IInv'
<1> SUFFICES ASSUME IInv, [Next]_vars PROVE IInv'
  OBVIOUS
<1>1. CASE \E s \in Size : get_mem(s)
  BY <1>1, GetMemStep
<1>2. CASE \E s \in Size : print_to_mem(s)
  BY <1>2, PrintStep
<1>3. CASE \E b \in blocks, n \in Size : more_mem_in_place(b, n)
  BY <1>3, GrowStep
<1>4. CASE \E b \in blocks, n \in Size : more_mem_moved(b, n)
  BY <1>4, MoveStep
<1>5. CASE \E b \in blocks : more_mem_not_last(b)
  BY <1>5, EndStep DEF more_mem_not_last
<1>6. CASE CallocFails
  BY <1>6, EndStep DEF CallocFails
<1>7. CASE init_alloc
  BY <1>7, InitAllocStep
<1>8. CASE end_alloc
  BY <1>8, EndStep DEF end_alloc
<1>9. CASE Stop
  BY <1>9, EndStep DEF Stop, vars
<1>10. CASE UNCHANGED vars
  BY <1>10, EndStep DEF vars
<1>. QED
  BY <1>1, <1>2, <1>3, <1>4, <1>5, <1>6, <1>7, <1>8, <1>9, <1>10 DEF Next

LEMMA Invariant == Spec => []IInv
BY InitOK, StepOK, PTL DEF Spec

-----------------------------------------------------------------------------
\* No byte is given to two callers, for every part size and every order of
\* get_mem, more_mem and print_to_mem (list.c:48-109).
THEOREM DisjointCorrect == Spec => []Disjoint
<1>1. IInv => Disjoint
  <2> SUFFICES ASSUME IInv, NEW b \in blocks, NEW c \in blocks, b # c
               PROVE  Bytes(b) \cap Bytes(c) = {}
    BY DEF Disjoint
  <2>1. Apart(b, c) /\ BlockBelow(memalloc, b) /\ BlockBelow(memalloc, c)
    BY DEF IInv, BlocksOK
  <2>. QED  BY <2>1 DEF Apart, BlockBelow, Bytes, Span
<1>. QED  BY <1>1, Invariant, PTL

\* What the allocator has left of its part is zero, the remains of a string
\* that did not fit notwithstanding (list.c:98).
THEOREM RestIsZeroCorrect == Spec => []RestIsZero
<1>1. IInv => RestIsZero
  <2> SUFFICES ASSUME IInv, NEW x \in Rest, x \in written PROVE FALSE
    BY DEF RestIsZero
  <2>1. x \in {memalloc.part} \X (memalloc.At .. memalloc.At + (PartSize - memalloc.At) - 1)
    BY DEF Rest, Span
  <2>2. x[1] < memalloc.part \/ (x[1] = memalloc.part /\ x[2] < memalloc.At)
    BY DEF IInv, BytesBelow
  <2>3. memalloc.part \in Nat /\ memalloc.At \in Nat
    BY DEF IInv, Balanced, Allocator
  <2>4. x[1] = memalloc.part /\ x[2] \in Int /\ memalloc.At <= x[2]
    BY <2>1, <2>3
  <2>. QED  BY <2>2, <2>3, <2>4
<1>. QED  BY <1>1, Invariant, PTL

\* Only a block larger than a part leaves its part, and nothing else is written
\* behind a part that no such block has overrun (list.c:49, 98).
THEOREM OverrunCorrect == Spec => []OnlyOversizedOverrun
<1>1. IInv => OnlyOversizedOverrun
  BY DEF IInv, BlocksOK, Fits, OverrunsOK, Excused, Overrun, Oversized,
         OnlyOversizedOverrun
<1>. QED  BY <1>1, Invariant, PTL

\* The allocator's variables keep their types, and At and Left share a part.
THEOREM TypeCorrect == Spec => []TypeOK
<1>1. IInv => TypeOK
  <2> SUFFICES ASSUME IInv PROVE TypeOK
    OBVIOUS
  <2>1. /\ memalloc \in Allocator /\ memalloc.part \in 0..MaxParts
        /\ memalloc.At \in Nat /\ memalloc.Left \in Int
        /\ memalloc.part > 0 => memalloc.At + memalloc.Left = PartSize
    BY DEF IInv, Balanced, Allocator
  <2>2. blocks \subseteq [part : Nat, at : Nat, size : Nat]
    BY DEF IInv, BlocksOK, IsBlock, BlockBelow, Block
  <2>3. written \subseteq Nat \X Nat
    BY DEF IInv, BytesBelow
  <2>. QED  BY <2>1, <2>2, <2>3 DEF TypeOK, IInv, Allocator
<1>. QED  BY <1>1, Invariant, PTL
=============================================================================
