---------------------------- MODULE HashMapProofs ----------------------------
(***************************************************************************)
(* Proofs about HashMap for every hash function, table size and chain      *)
(* length.  The second part proves that it implements Dictionary until     *)
(* something is removed.                                                   *)
(***************************************************************************)
EXTENDS HashMap, TLAPS, FiniteSetTheorems, WellFoundedInduction

Arrays == UNION {[D -> Slot] : D \in SUBSET Nat}
PutCall    == [op : {"put"}, key : Key, value : Value]
RehashCall == [op : {"rehash"}, curr : Arrays, i : Nat]
Frame == PutCall \cup RehashCall

\* The C stack; only the loop of hashmap_rehash calls hashmap_put again.
CallsOK ==
  /\ calls \in Seq(Frame)
  /\ \A c \in 2..Len(calls) : calls[c] \in PutCall => calls[c-1] \in RehashCall

TableOK ==
  /\ table_size \in Nat /\ table_size >= InitialSize
  /\ size \in Int
  /\ data \in Table(table_size)
  /\ status \in {"running", "ok", "omem", "missing"}
  /\ removed \in BOOLEAN

\* The element in slot i can be reached: its chain is in use up to i.
OnChain(i) ==
  \E n \in Chain : /\ i = Probe(data[i].key, n)
                   /\ \A m \in 0..(n - 1) : Probe(data[i].key, m) \in InUse

ChainsOK ==
  /\ \A i \in InUse : OnChain(i)
  /\ \A i, j \in InUse : data[i].key = data[j].key => i = j

TInv == TableOK /\ CallsOK
IInv == TInv /\ HalfEmpty
CInv == TInv /\ (~removed => ChainsOK)

-----------------------------------------------------------------------------
LEMMA SlotFacts ==
  ASSUME NEW s \in Slot
  PROVE  /\ s # Free <=> s.key \in Key
         /\ s = Free <=> s.key = NULL
BY NullAssumption DEF Slot, Element, Free

LEMMA ModFacts ==
  ASSUME NEW a \in Nat, NEW n \in Nat \ {0}
  PROVE  a % n \in 0..(n - 1)
OBVIOUS

LEMMA ProbeInTable ==
  ASSUME TableOK, NEW k \in Key, NEW n \in Chain
  PROVE  Probe(k, n) \in 0..(table_size - 1)
<1>1. Hash[k] + n \in Nat /\ table_size \in Nat \ {0}
  BY HashAssumption, SizeAssumption DEF TableOK, Chain
<1> QED BY <1>1, ModFacts DEF Probe

\* First is the smallest member of a non-empty set.
LEMMA FirstFacts ==
  ASSUME NEW S \in SUBSET Nat, S # {}
  PROVE  First(S) \in S /\ \A m \in S : First(S) <= m
<1>1. \E n \in S : \A m \in S : n <= m
  <2>1. PICK R : R = OpToRel(<, Nat)
    OBVIOUS
  <2>2. \A a, b \in Nat : a < b => <<a, b>> \in R
    BY <2>1 DEF OpToRel
  <2>3. IsWellFoundedOn(R, Nat)
    BY <2>1, NatLessThanWellFounded
  <2>4. PICK n \in S : \A m \in S : <<m, n>> \notin R
    BY <2>3, WFMin
  <2>5. ASSUME NEW m \in S PROVE n <= m
    <3>1. m \in Nat /\ n \in Nat /\ ~(m < n)
      BY <2>2, <2>4
    <3> QED BY <3>1
  <2> QED BY <2>5
<1> QED BY <1>1 DEF First

\* hashmap_hash returns the first slot of the chain that is free or holds k.
LEMMA HashFacts ==
  ASSUME TableOK, NEW k \in Key, ~Full(k)
  PROVE  \E n \in Chain :
           /\ HashOf(k) = Probe(k, n) /\ HashOf(k) \in 0..(table_size - 1)
           /\ data[HashOf(k)].key \in {NULL, k}
           /\ \A m \in Chain : data[Probe(k, m)].key \in {NULL, k} => n <= m
<1>1. Usable(k) # {} /\ Usable(k) \in SUBSET Nat
  BY DEF Full, Usable, Places, Chain
<1>2. PICK n : n = First(Usable(k))
  OBVIOUS
<1>3. n \in Usable(k) /\ \A m \in Usable(k) : n <= m
  BY <1>1, <1>2, FirstFacts
<1>4. n \in Chain /\ data[Probe(k, n)].key \in {NULL, k}
  BY <1>3 DEF Usable, Places
<1>5. \A m \in Chain : data[Probe(k, m)].key \in {NULL, k} => n <= m
  BY <1>3 DEF Usable, Places
<1>6. HashOf(k) = Probe(k, n)
  BY <1>2 DEF HashOf
<1> QED BY <1>4, <1>5, <1>6, ProbeInTable

-----------------------------------------------------------------------------
LEMMA TopFacts ==
  ASSUME CallsOK, calls # << >>
  PROVE  /\ Len(calls) \in Nat \ {0} /\ Top \in Frame
         /\ Top.op = "put" => Top \in PutCall
         /\ Top.op = "rehash" => Top \in RehashCall
         /\ Rest \in Seq(Frame) /\ Len(Rest) = Len(calls) - 1
         /\ \A c \in 1..Len(Rest) : Rest[c] = calls[c]
<1>1. Len(calls) \in Nat \ {0} /\ Top \in Frame /\ calls \in Seq(Frame)
  BY DEF CallsOK, Top
<1>2. /\ Top.op = "put" => Top \in PutCall
      /\ Top.op = "rehash" => Top \in RehashCall
  BY <1>1 DEF Frame, PutCall, RehashCall
<1>3. PICK n \in Nat : n = Len(calls) - 1
  BY <1>1
<1>4. \A c \in 1..n : calls[c] \in Frame
  BY <1>1, <1>3
<1>5. /\ SubSeq(calls, 1, n) \in Seq(Frame) /\ Len(SubSeq(calls, 1, n)) = n
      /\ \A c \in 1..n : SubSeq(calls, 1, n)[c] = calls[c]
  BY <1>3, <1>4
<1> QED BY <1>1, <1>2, <1>3, <1>5 DEF Rest

LEMMA PushOK ==
  ASSUME CallsOK, NEW s \in Seq(Frame), Len(s) = Len(calls),
         \A c \in 1..Len(s) :
           s[c] \in PutCall <=> calls[c] \in PutCall,
         NEW fr \in Frame, calls' = Append(s, fr),
         fr \in PutCall /\ calls # << >> => s[Len(s)] \in RehashCall
  PROVE  CallsOK'
<1>1. calls' \in Seq(Frame) /\ Len(calls') = Len(s) + 1
  OBVIOUS
<1>2. \A c \in 1..Len(s) : calls'[c] = s[c]
  OBVIOUS
<1>3. calls'[Len(s) + 1] = fr /\ Len(s) \in Nat
  OBVIOUS
<1>4. ASSUME NEW c \in 2..Len(calls'), calls'[c] \in PutCall
      PROVE  calls'[c-1] \in RehashCall
  <2>1. CASE c = Len(s) + 1
    BY <1>1, <1>2, <1>3, <1>4, <2>1
  <2>2. CASE c \in 2..Len(s)
    <3>1. s[c] \in PutCall /\ calls[c] \in PutCall
      BY <1>2, <1>4, <2>2
    <3>2. calls[c-1] \in RehashCall
      BY <2>2, <3>1 DEF CallsOK
    <3>3. calls[c-1] \notin PutCall
      BY <3>2 DEF RehashCall, PutCall
    <3>4. s[c-1] \in RehashCall
      BY <1>3, <2>2, <3>3 DEF Frame
    <3> QED BY <1>2, <1>3, <2>2, <3>4
  <2> QED BY <1>1, <1>3, <2>1, <2>2
<1> QED BY <1>1, <1>4 DEF CallsOK

\* Every prefix of a C stack is one.
LEMMA PopOK ==
  ASSUME CallsOK, calls # << >>, calls' = Rest
  PROVE  CallsOK'
<1>1. /\ Rest \in Seq(Frame) /\ Len(Rest) = Len(calls) - 1
      /\ \A c \in 1..Len(Rest) : Rest[c] = calls[c]
      /\ Len(calls) \in Nat \ {0}
  BY TopFacts
<1>2. \A c \in 2..Len(Rest) : Rest[c] \in PutCall => Rest[c-1] \in RehashCall
  <2> TAKE c \in 2..Len(Rest)
  <2>1. c \in 2..Len(calls) /\ c - 1 \in 1..Len(Rest) /\ c \in 1..Len(Rest)
    BY <1>1
  <2> QED BY <1>1, <2>1 DEF CallsOK
<1> QED BY <1>1, <1>2 DEF CallsOK

LEMMA ReturnOK ==
  ASSUME CallsOK, Running("put"), calls' = Return
  PROVE  CallsOK'
<1>1. /\ Rest \in Seq(Frame) /\ Len(Rest) = Len(calls) - 1
      /\ \A c \in 1..Len(Rest) : Rest[c] = calls[c]
      /\ Len(calls) \in Nat \ {0} /\ Top \in PutCall
  BY TopFacts DEF Running
<1>2. CASE Rest = << >>
  BY <1>2 DEF Return, CallsOK
<1>3. CASE Rest # << >>
  <2>1. PICK n \in Nat \ {0} : n = Len(Rest)
    BY <1>1, <1>3
  <2>2. calls[n] \in RehashCall
    <3>1. n + 1 = Len(calls) /\ n + 1 \in 2..Len(calls)
      BY <1>1, <2>1
    <3>2. calls[n + 1] \in PutCall
      BY <1>1, <3>1 DEF Top
    <3> QED BY <3>1, <3>2 DEF CallsOK
  <2>3. Rest[n] \in RehashCall
    BY <1>1, <2>1, <2>2
  <2>4. PICK fr : fr = [Rest[n] EXCEPT !.i = @ + 1]
    OBVIOUS
  <2>5. fr \in RehashCall
    BY <2>3, <2>4 DEF RehashCall
  <2>6. calls' = [Rest EXCEPT ![n] = fr]
    BY <1>3, <2>1, <2>4 DEF Return
  <2>7. /\ calls' \in Seq(Frame) /\ Len(calls') = n /\ calls'[n] = fr
        /\ \A c \in 1..n : c # n => calls'[c] = Rest[c]
    BY <1>1, <2>1, <2>5, <2>6 DEF Frame
  <2>8. ASSUME NEW c \in 2..n, calls'[c] \in PutCall
        PROVE  calls'[c-1] \in RehashCall
    <3>1. c # n
      BY <2>5, <2>7, <2>8 DEF PutCall, RehashCall
    <3>2. calls'[c] = calls[c] /\ calls'[c-1] = calls[c-1]
      <4>1. c \in 1..n /\ c - 1 \in 1..n /\ c - 1 # n
        BY <2>1
      <4>2. calls'[c] = Rest[c] /\ calls'[c-1] = Rest[c-1]
        BY <2>7, <3>1, <4>1
      <4> QED BY <1>1, <2>1, <4>1, <4>2
    <3>3. c \in 2..Len(calls)
      BY <1>1, <2>1
    <3> QED BY <2>8, <3>2, <3>3 DEF CallsOK
  <2> QED BY <2>7, <2>8 DEF CallsOK
<1> QED BY <1>2, <1>3

-----------------------------------------------------------------------------
LEMMA InitT == Init => TInv
<1> SUFFICES ASSUME Init PROVE TInv
  OBVIOUS
<1>1. Empty(InitialSize) \in Table(InitialSize)
  BY DEF Empty, Table, Slot
<1>2. TableOK
  <2>1. removed \in BOOLEAN
    BY DEF Init
  <2> QED BY <1>1, <2>1, SizeAssumption DEF Init, TableOK
<1>3. CallsOK
  BY DEF Init, CallsOK
<1> QED BY <1>2, <1>3 DEF TInv

LEMMA SetDataT == ASSUME TInv, SetData PROVE TInv'
<1>1. CallsOK'
  BY ReturnOK DEF SetData, TInv
<1>2. Top \in PutCall
  BY TopFacts DEF SetData, Running, TInv
<1>3. [key |-> Top.key, data |-> Top.value] \in Slot
  BY <1>2 DEF PutCall, Slot, Element
<1>4. data' \in Table(table_size)
  BY <1>3 DEF SetData, TInv, TableOK, Table
<1>5. size' \in Int /\ status' \in {"running", "ok", "omem", "missing"}
  BY DEF SetData, TInv, TableOK
<1>6. TableOK'
  BY <1>4, <1>5 DEF SetData, TInv, TableOK
<1> QED BY <1>1, <1>6 DEF TInv

LEMMA RehashT == ASSUME TInv, Rehash PROVE TInv'
<1>1. /\ table_size \in Nat /\ 2 * table_size \in Nat
      /\ 2 * table_size >= InitialSize
  BY SizeAssumption DEF TInv, TableOK
<1>2. TableOK'
  <2>1. Empty(2 * table_size) \in Table(2 * table_size)
    BY DEF Empty, Table, Slot
  <2> QED BY <1>1, <2>1 DEF Rehash, TInv, TableOK
<1>3. CallsOK'
  <2>1. data \in Arrays
    BY DEF TInv, TableOK, Table, Arrays
  <2>2. PICK fr : fr = RehashFrame(data, 0)
    OBVIOUS
  <2>3. fr \in RehashCall
    BY <2>1, <2>2 DEF RehashFrame, RehashCall
  <2>4. fr \in Frame /\ fr \notin PutCall
    BY <2>3 DEF Frame, PutCall, RehashCall
  <2>5. calls' = Append(calls, fr) /\ calls \in Seq(Frame)
    BY <2>2 DEF Rehash, TInv, CallsOK
  <2> QED BY <2>4, <2>5, PushOK DEF TInv
<1> QED BY <1>2, <1>3 DEF TInv

LEMMA ReinsertT == ASSUME TInv, Reinsert PROVE TInv'
<1>1. /\ calls # << >> /\ Top \in RehashCall /\ calls \in Seq(Frame)
      /\ Len(calls) \in Nat \ {0}
  BY TopFacts DEF Reinsert, Running, TInv, CallsOK
<1>2. PICK D \in SUBSET Nat : Top.curr \in [D -> Slot]
  BY <1>1 DEF RehashCall, Arrays
<1>3. Indices(Top) \in SUBSET Nat /\ Indices(Top) # {}
  BY <1>2 DEF Reinsert, Indices
<1>4. PICK j : j = First(Indices(Top))
  OBVIOUS
<1>5. j \in Nat /\ j \in Indices(Top)
  BY <1>3, <1>4, FirstFacts
<1>6. Top.curr[j] \in Element
  BY <1>2, <1>5 DEF Indices, Slot
<1>7. PICK put, top : /\ put = PutFrame(Top.curr[j].key, Top.curr[j].data)
                      /\ top = [Top EXCEPT !.i = j]
  OBVIOUS
<1>8. put \in PutCall /\ top \in RehashCall
  BY <1>1, <1>5, <1>6, <1>7 DEF PutFrame, PutCall, Element, RehashCall
<1>9. PICK s : s = [calls EXCEPT ![Len(calls)] = top]
  OBVIOUS
<1>10. calls' = Append(s, put)
  BY <1>4, <1>7, <1>9 DEF Reinsert, Top
<1>11. /\ s \in Seq(Frame) /\ Len(s) = Len(calls) /\ s[Len(s)] = top
       /\ \A c \in 1..Len(s) : c # Len(s) => s[c] = calls[c]
  BY <1>1, <1>8, <1>9 DEF Frame
<1>12. top \notin PutCall /\ Top \notin PutCall
  BY <1>1, <1>8 DEF PutCall, RehashCall
<1>13. \A c \in 1..Len(s) : s[c] \in PutCall <=> calls[c] \in PutCall
  BY <1>11, <1>12 DEF Top
<1>14. CallsOK'
  BY <1>8, <1>10, <1>11, <1>13, PushOK DEF TInv, Frame
<1>15. TableOK'
  BY DEF Reinsert, TInv, TableOK
<1> QED BY <1>14, <1>15 DEF TInv

LEMMA PutT == ASSUME TInv, NEW k \in Key, NEW v \in Value, hashmap_put(k, v)
              PROVE  TInv'
<1>1. PICK fr : fr = PutFrame(k, v)
  OBVIOUS
<1>2. fr \in Frame
  BY <1>1 DEF PutFrame, PutCall, Frame
<1>3. calls' = <<fr>>
  BY <1>1 DEF hashmap_put
<1>4. CallsOK'
  BY <1>2, <1>3 DEF CallsOK
<1>5. TableOK'
  BY DEF hashmap_put, TInv, TableOK
<1> QED BY <1>4, <1>5 DEF TInv

\* hashmap_remove blanks a slot in use, or does nothing.
LEMMA RemoveT ==
  ASSUME TInv, NEW k \in Key, hashmap_remove(k)
  PROVE  /\ TInv'
         /\ \/ data' = data /\ size' = size
            \/ removed' /\ \E h \in InUse : /\ data' = [data EXCEPT ![h] = Free]
                                            /\ size' = size - 1
<1>1. PICK found : found = Places(k, {k})
  OBVIOUS
<1>2. \/ data' = data /\ size' = size
      \/ /\ removed'
         /\ \E h \in InUse : data' = [data EXCEPT ![h] = Free] /\ size' = size - 1
  <2>1. CASE found = {}
    BY <1>1, <2>1 DEF hashmap_remove, Shrink
  <2>2. CASE found # {}
    <3>1. found \in SUBSET Nat
      BY <1>1 DEF Places, Chain
    <3>2. PICK n : n = First(found)
      OBVIOUS
    <3>3. n \in Chain /\ data[Probe(k, n)].key = k
      BY <1>1, <2>2, <3>1, <3>2, FirstFacts DEF Places
    <3>4. Probe(k, n) \in InUse
      <4>1. Probe(k, n) \in DOMAIN data
        BY <3>3, ProbeInTable DEF TInv, TableOK, Table
      <4>2. data[Probe(k, n)] # Free
        BY <3>3, NullAssumption DEF Free
      <4> QED BY <4>1, <4>2 DEF InUse
    <3>5. data' = [data EXCEPT ![Probe(k, n)] = Free] /\ size' = size - 1
      BY <1>1, <2>2, <3>2 DEF hashmap_remove, Shrink
    <3>6. removed'
      BY <1>1, <2>2 DEF hashmap_remove
    <3> QED BY <3>4, <3>5, <3>6
  <2> QED BY <2>1, <2>2
<1>3. TableOK'
  <2>1. data' \in Table(table_size)
    BY <1>2 DEF TInv, TableOK, Table, Slot
  <2>2. size' \in Int
    BY <1>2 DEF TInv, TableOK
  <2>3. status' \in {"missing", "ok"} /\ removed' \in BOOLEAN
    BY DEF hashmap_remove, TInv, TableOK
  <2> QED BY <2>1, <2>2, <2>3 DEF hashmap_remove, TInv, TableOK
<1>4. CallsOK'
  BY DEF hashmap_remove, TInv, CallsOK
<1> QED BY <1>2, <1>3, <1>4 DEF TInv

LEMMA StepT == TInv /\ [Next]_vars => TInv'
<1> SUFFICES ASSUME TInv, [Next]_vars PROVE TInv'
  OBVIOUS
<1>1. CASE SetData
  BY <1>1, SetDataT
<1>2. CASE Rehash
  BY <1>2, RehashT
<1>3. CASE OutOfMemory
  BY <1>3 DEF OutOfMemory, TInv, TableOK, CallsOK
<1>4. CASE Reinsert
  BY <1>4, ReinsertT
<1>5. CASE EndRehash
  <2>1. CallsOK'
    BY <1>5, PopOK DEF EndRehash, Running, TInv
  <2>2. TableOK'
    BY <1>5 DEF EndRehash, TInv, TableOK
  <2> QED BY <2>1, <2>2 DEF TInv
<1>6. ASSUME NEW k \in Key, NEW v \in Value, hashmap_put(k, v) PROVE TInv'
  BY <1>6, PutT
<1>7. ASSUME NEW k \in Key, hashmap_remove(k) PROVE TInv'
  BY <1>7, RemoveT
<1>8. CASE UNCHANGED vars
  BY <1>8 DEF vars, TInv, TableOK, CallsOK
<1> QED BY <1>1, <1>2, <1>3, <1>4, <1>5, <1>6, <1>7, <1>8 DEF Next, Continue

\* The table has as many slots as table_size says, all of them free or
\* elements, and every call on the C stack has proper arguments.
THEOREM TypeCorrect == Spec => []TypeOK
<1>1. TInv => TypeOK
  <2> SUFFICES ASSUME TInv, NEW c \in 1..Len(calls) PROVE FrameOK(calls[c])
    BY DEF TInv, TableOK, TypeOK
  <2>1. calls[c] \in PutCall \/ calls[c] \in RehashCall
    BY DEF TInv, CallsOK, Frame
  <2>2. CASE calls[c] \in PutCall
    BY <2>2 DEF PutCall, FrameOK
  <2>3. CASE calls[c] \in RehashCall
    <3>1. calls[c].op = "rehash" /\ calls[c].curr \in Arrays
      BY <2>3 DEF RehashCall
    <3>2. PICK D \in SUBSET Nat : calls[c].curr \in [D -> Slot]
      BY <3>1 DEF Arrays
    <3> QED BY <3>1, <3>2 DEF FrameOK
  <2> QED BY <2>1, <2>2, <2>3
<1> QED BY <1>1, InitT, StepT, PTL DEF Spec

-----------------------------------------------------------------------------
\* What a step does to the table: nothing, or it fills a place of the chain
\* of a key, or frees a place, or starts an empty table of twice the size.
Fill(k, e) ==
  /\ ~Full(k) /\ e.key = k
  /\ data' = [data EXCEPT ![HashOf(k)] = e]
  /\ size' = size + 1 /\ table_size' = table_size

Clear(h) ==
  /\ data' = [data EXCEPT ![h] = Free]
  /\ size' = size - 1 /\ table_size' = table_size

Double ==
  /\ data' = Empty(2 * table_size)
  /\ size' = 0 /\ table_size' = 2 * table_size

LEMMA TableSteps ==
  ASSUME TInv, [Next]_vars
  PROVE  \/ UNCHANGED <<data, size, table_size>>
         \/ \E k \in Key, e \in Element : Fill(k, e)
         \/ removed' /\ \E h \in InUse : Clear(h)
         \/ Double
<1>1. CASE SetData
  <2>1. Top \in PutCall
    BY <1>1, TopFacts DEF SetData, Running, TInv
  <2>2. PICK k, e : k = Top.key /\ e = [key |-> k, data |-> Top.value]
    OBVIOUS
  <2>3. k \in Key /\ e \in Element /\ e.key = k
    BY <2>1, <2>2 DEF PutCall, Element
  <2>4. Fill(k, e)
    BY <1>1, <2>2, <2>3 DEF SetData, Fill
  <2> QED BY <2>3, <2>4
<1>2. CASE Rehash
  BY <1>2 DEF Rehash, Double
<1>3. CASE OutOfMemory \/ Reinsert \/ EndRehash
  BY <1>3 DEF OutOfMemory, Reinsert, EndRehash
<1>4. CASE \E k \in Key, v \in Value : hashmap_put(k, v)
  BY <1>4 DEF hashmap_put
<1>5. ASSUME NEW k \in Key, hashmap_remove(k)
      PROVE  \/ UNCHANGED <<data, size, table_size>>
             \/ removed' /\ \E h \in InUse : Clear(h)
  <2>1. table_size' = table_size
    BY <1>5 DEF hashmap_remove
  <2> QED BY <1>5, <2>1, RemoveT DEF Clear
<1>6. CASE UNCHANGED vars
  BY <1>6 DEF vars
<1> QED BY <1>1, <1>2, <1>3, <1>4, <1>5, <1>6 DEF Next, Continue

LEMMA InUseFinite ==
  ASSUME TableOK
  PROVE  IsFiniteSet(InUse) /\ Cardinality(InUse) \in Nat
<1>1. InUse \subseteq 0..(table_size - 1) /\ 0 \in Int /\ table_size - 1 \in Int
  BY DEF InUse, TableOK, Table
<1>2. IsFiniteSet(0..(table_size - 1))
  BY <1>1, FS_Interval
<1> QED BY <1>1, <1>2, FS_Subset, FS_CardinalityType

LEMMA FillUse ==
  ASSUME TableOK, NEW k \in Key, NEW e \in Element, Fill(k, e)
  PROVE  /\ HashOf(k) \in DOMAIN data /\ DOMAIN data' = DOMAIN data
         /\ data'[HashOf(k)] = e
         /\ \A i \in DOMAIN data : i # HashOf(k) => data'[i] = data[i]
         /\ InUse' = InUse \cup {HashOf(k)}
<1>1. HashOf(k) \in DOMAIN data
  BY HashFacts DEF Fill, TableOK, Table
<1>2. /\ data'[HashOf(k)] = e /\ DOMAIN data' = DOMAIN data
      /\ \A i \in DOMAIN data : i # HashOf(k) => data'[i] = data[i]
  BY <1>1 DEF Fill, TableOK, Table
<1>3. e # Free
  BY NullAssumption DEF Element, Free
<1> QED BY <1>1, <1>2, <1>3 DEF InUse

LEMMA EmptyUse ==
  ASSUME Double PROVE InUse' = {}
BY DEF Double, Empty, InUse

LEMMA HalfInit == Init => HalfEmpty
<1> SUFFICES ASSUME Init PROVE HalfEmpty
  OBVIOUS
<1>1. InUse = {}
  BY DEF Init, Empty, InUse
<1>2. Cardinality(InUse) = 0
  BY <1>1, FS_EmptySet
<1> QED BY <1>2, SizeAssumption DEF Init, HalfEmpty

LEMMA HalfStep == IInv /\ [Next]_vars => IInv'
<1> SUFFICES ASSUME IInv, [Next]_vars PROVE IInv'
  OBVIOUS
<1>1. /\ TInv' /\ TInv /\ TableOK /\ HalfEmpty
      /\ IsFiniteSet(InUse) /\ Cardinality(InUse) \in Nat
      /\ size \in Int /\ table_size \in Nat
  BY StepT, InUseFinite DEF IInv, TInv, TableOK
<1>2. CASE UNCHANGED <<data, size, table_size>>
  BY <1>1, <1>2 DEF HalfEmpty, InUse, IInv
<1>3. ASSUME NEW k \in Key, NEW e \in Element, Fill(k, e) PROVE HalfEmpty'
  <2>1. InUse' = InUse \cup {HashOf(k)}
    BY <1>1, <1>3, FillUse
  <2>2. Cardinality(InUse') <= Cardinality(InUse) + 1
    BY <1>1, <2>1, FS_AddElement
  <2>3. Cardinality(InUse') \in Nat
    BY <1>1, <2>1, FS_AddElement, FS_CardinalityType
  <2>4. PICK half \in Int : half = table_size \div 2
    BY <1>1
  <2>5. size < half
    BY <1>1, <1>3, <2>4 DEF Fill, Full, HalfUsed
  <2>6. size' = size + 1 /\ table_size' \div 2 = half
    BY <1>3, <2>4 DEF Fill
  <2> QED BY <1>1, <2>2, <2>3, <2>4, <2>5, <2>6 DEF HalfEmpty
<1>4. ASSUME NEW h \in InUse, Clear(h) PROVE HalfEmpty'
  <2>1. InUse' = InUse \ {h}
    BY <1>1, <1>4 DEF Clear, InUse, TableOK, Table
  <2>2. Cardinality(InUse') = Cardinality(InUse) - 1
    BY <1>1, <2>1, FS_RemoveElement
  <2>3. PICK half \in Int : half = table_size \div 2
    BY <1>1
  <2>4. size' = size - 1 /\ table_size' \div 2 = half
    BY <1>4, <2>3 DEF Clear
  <2> QED BY <1>1, <2>2, <2>3, <2>4 DEF HalfEmpty
<1>5. CASE Double
  <2>1. Cardinality(InUse') = 0
    BY <1>5, EmptyUse, FS_EmptySet
  <2>2. size' = 0 /\ table_size' \div 2 = table_size
    BY <1>1, <1>5 DEF Double
  <2>3. HalfEmpty'
    BY <1>1, <2>1, <2>2 DEF HalfEmpty
  <2> QED BY <1>1, <2>3 DEF IInv
<1> QED BY <1>1, <1>2, <1>3, <1>4, <1>5, TableSteps DEF IInv

\* The table is never more than half full, for every program, table size and
\* chain length, also with hashmap_remove (hashmap.c:215).
THEOREM HalfEmptyCorrect == Spec => []HalfEmpty
<1>1. Init => IInv
  BY InitT, HalfInit DEF IInv
<1>2. IInv => HalfEmpty
  BY DEF IInv
<1> QED BY <1>1, <1>2, HalfStep, PTL DEF Spec

-----------------------------------------------------------------------------
\* A new element is at the end of its chain, and the only one of its key.
LEMMA FillChains ==
  ASSUME TInv, ChainsOK, NEW k \in Key, NEW e \in Element, Fill(k, e)
  PROVE  ChainsOK'
<1>1. /\ TableOK /\ ~Full(k) /\ e.key = k /\ table_size' = table_size
      /\ \A i \in InUse : i \in DOMAIN data /\ data[i].key \in Key
      /\ \A i \in DOMAIN data : i \notin InUse => data[i].key = NULL
  <2>1. \A i \in DOMAIN data : data[i] \in Slot
    BY DEF TInv, TableOK, Table
  <2> QED BY <2>1, SlotFacts DEF TInv, Fill, InUse
<1>2. \A q, n : Probe(q, n)' = Probe(q, n)
  BY <1>1 DEF Probe
<1>3. PICK h : h = HashOf(k)
  OBVIOUS
<1>4. PICK n \in Chain :
        /\ h = Probe(k, n) /\ data[h].key \in {NULL, k}
        /\ \A m \in Chain : data[Probe(k, m)].key \in {NULL, k} => n <= m
  BY <1>1, <1>3, HashFacts
<1>5. /\ h \in DOMAIN data /\ DOMAIN data' = DOMAIN data
      /\ data'[h] = e /\ InUse' = InUse \cup {h}
      /\ \A i \in DOMAIN data : i # h => data'[i] = data[i]
  BY <1>1, <1>3, FillUse
<1>6. \A m \in 0..(n - 1) : Probe(k, m) \in InUse
  <2> TAKE m \in 0..(n - 1)
  <2>1. m \in Chain /\ ~(n <= m)
    BY SizeAssumption, <1>4 DEF Chain
  <2>2. data[Probe(k, m)].key # NULL
    BY <1>4, <2>1
  <2>3. Probe(k, m) \in DOMAIN data
    BY <1>1, <2>1, ProbeInTable DEF TableOK, Table
  <2> QED BY <1>1, <2>2, <2>3
<1>7. ASSUME NEW i \in InUse, data[i].key = k PROVE i = h
  <2>1. PICK m \in Chain :
          i = Probe(k, m) /\ \A p \in 0..(m - 1) : Probe(k, p) \in InUse
    BY <1>7 DEF ChainsOK, OnChain
  <2>2. n <= m
    BY <1>4, <1>7, <2>1
  <2>3. CASE n = m
    BY <1>4, <2>1, <2>3
  <2>4. CASE n # m
    <3>1. n \in 0..(m - 1)
      BY <2>2, <2>4 DEF Chain
    <3>2. h \in InUse
      BY <1>4, <2>1, <3>1
    <3>3. data[h].key = k
      BY <1>1, <1>4, <3>2, NullAssumption
    <3> QED BY <1>7, <3>2, <3>3 DEF ChainsOK
  <2> QED BY <2>3, <2>4
<1>8. ASSUME NEW i \in InUse' PROVE OnChain(i)'
  <2>1. CASE i = h
    <3>1. data'[i].key = k
      BY <1>1, <1>5, <2>1
    <3>2. \A m \in 0..(n - 1) : Probe(k, m) \in InUse'
      BY <1>5, <1>6
    <3> QED BY <1>2, <1>4, <2>1, <3>1, <3>2 DEF OnChain
  <2>2. CASE i # h
    <3>1. i \in InUse /\ data'[i] = data[i]
      BY <1>1, <1>5, <1>8, <2>2
    <3>2. PICK m \in Chain :
            /\ i = Probe(data[i].key, m)
            /\ \A p \in 0..(m - 1) : Probe(data[i].key, p) \in InUse
      BY <3>1 DEF ChainsOK, OnChain
    <3>3. \A p \in 0..(m - 1) : Probe(data[i].key, p) \in InUse'
      BY <1>5, <3>2
    <3> QED BY <1>2, <3>1, <3>2, <3>3 DEF OnChain
  <2> QED BY <2>1, <2>2
<1>9. ASSUME NEW i \in InUse', NEW j \in InUse', data'[i].key = data'[j].key
      PROVE  i = j
  <2>1. \A m \in InUse' : m # h =>
          m \in InUse /\ data'[m] = data[m] /\ data'[m].key # k
    BY <1>1, <1>5, <1>7
  <2>2. data'[h].key = k
    BY <1>1, <1>5
  <2>3. CASE i = h \/ j = h
    BY <1>9, <2>1, <2>2, <2>3
  <2>4. CASE i # h /\ j # h
    BY <1>9, <2>1, <2>4 DEF ChainsOK
  <2> QED BY <2>3, <2>4
<1> QED BY <1>8, <1>9 DEF ChainsOK

\* No step takes a removal back.
LEMMA RemovedStays == TInv /\ [Next]_vars => (removed => removed')
BY DEF Next, Continue, SetData, Rehash, OutOfMemory, Reinsert, EndRehash,
       hashmap_put, hashmap_remove, vars

LEMMA ChainStep == CInv /\ [Next]_vars => CInv'
<1> SUFFICES ASSUME TInv, ~removed => ChainsOK, [Next]_vars, ~removed'
             PROVE  ChainsOK'
  BY StepT DEF CInv
<1>1. TInv' /\ TInv /\ ChainsOK
  BY StepT, RemovedStays
<1>2. CASE UNCHANGED <<data, size, table_size>>
  <2>1. InUse' = InUse /\ \A q, n : Probe(q, n)' = Probe(q, n)
    BY <1>2 DEF InUse, Probe
  <2>2. \A i : OnChain(i) => OnChain(i)'
    BY <1>2, <2>1 DEF OnChain
  <2>3. ChainsOK'
    BY <1>1, <1>2, <2>1, <2>2 DEF ChainsOK
  <2> QED BY <2>3
<1>3. CASE \E k \in Key, e \in Element : Fill(k, e)
  BY <1>1, <1>3, FillChains
<1>4. CASE Double
  BY <1>1, <1>4, EmptyUse DEF ChainsOK
<1> QED BY <1>1, <1>2, <1>3, <1>4, TableSteps

LEMMA ChainsFind == CInv => Findable
<1> SUFFICES ASSUME TInv, ChainsOK, NEW i \in InUse
             PROVE  Get(data[i].key) = data[i].data
  BY DEF CInv, Findable, Found
<1>1. PICK k, found : k = data[i].key /\ found = Places(k, {k})
  OBVIOUS
<1>2. k \in Key /\ k # NULL
  <2>1. data[i] \in Slot /\ data[i] # Free
    BY DEF InUse, TInv, TableOK, Table
  <2> QED BY <1>1, <2>1, SlotFacts, NullAssumption
<1>3. found # {} /\ found \in SUBSET Nat
  BY <1>1 DEF ChainsOK, OnChain, Places, Chain
<1>4. PICK n : n = First(found)
  OBVIOUS
<1>5. n \in Chain /\ data[Probe(k, n)].key = k
  BY <1>1, <1>3, <1>4, FirstFacts DEF Places
<1>6. Probe(k, n) \in InUse
  <2>1. Probe(k, n) \in DOMAIN data
    BY <1>2, <1>5, ProbeInTable DEF TInv, TableOK, Table
  <2>2. data[Probe(k, n)] # Free
    BY <1>2, <1>5 DEF Free
  <2> QED BY <2>1, <2>2 DEF InUse
<1>7. Probe(k, n) = i
  BY <1>1, <1>5, <1>6 DEF ChainsOK
<1> QED BY <1>1, <1>3, <1>4, <1>7 DEF Get

\* Until something is removed, hashmap_get finds every element, for every hash
\* function and however the tables grow (hashmap.c:319).
THEOREM FindableCorrect == Spec => []Findable
<1>1. Init => CInv
  <2>1. Init => ChainsOK
    BY DEF Init, Empty, InUse, ChainsOK
  <2> QED BY <2>1, InitT DEF CInv
<1>2. CInv /\ [Next]_vars => CInv'
  BY ChainStep
<1>3. CInv => Findable
  BY ChainsFind
<1> QED BY <1>1, <1>2, <1>3, PTL DEF Spec
-----------------------------------------------------------------------------
(***************************************************************************)
(* The refinement.  While tables are doubled, an element is in the new     *)
(* table or still waits in an old one that a call of hashmap_rehash holds. *)
(* The steps inside of a put move elements between the two and so do not   *)
(* change the dictionary; the last one adds the new element.               *)
(***************************************************************************)
Waits(fr) == IF fr.op = "rehash" THEN {fr.curr[j] : j \in Indices(fr)} ELSE {}
Stored    == {data[i] : i \in InUse}

\* The program is inside of hashmap_put while there are calls.
StatusOK == /\ status = "running" <=> calls # << >>
            /\ calls # << >> => calls[1].op = "put"

\* A put called by hashmap_rehash puts the element its loop is at.
IsAt(fr, put) == /\ fr.i \in Indices(fr)
                 /\ fr.curr[fr.i] = [key |-> put.key, data |-> put.value]
PutsOK == \A c \in 2..Len(calls) : calls[c].op = "put" => IsAt(calls[c-1], calls[c])

KeyOnce == \A e, f \in Elements : e.key = f.key => e = f

DInv == TInv /\ StatusOK /\ PutsOK /\ (~removed => ChainsOK /\ KeyOnce)

-----------------------------------------------------------------------------
LEMMA ElementsAre ==
  \A e : e \in Elements <=> \/ e \in Stored
                            \/ \E c \in 1..Len(calls) : e \in Waits(calls[c])
BY DEF Elements, Pending, Stored, Waits

LEMMA ElementsAreNext ==
  \A e : e \in Elements' <=> \/ e \in Stored'
                             \/ \E c \in 1..Len(calls') : e \in Waits(calls'[c])
BY DEF Elements, Pending, Stored, Waits

LEMMA KindFacts ==
  /\ \A fr \in Frame : /\ fr.op = "put" <=> fr \in PutCall
                       /\ fr.op = "rehash" <=> fr \in RehashCall
  /\ \A fr \in PutCall : fr.op = "put" /\ fr \notin RehashCall
  /\ \A fr \in RehashCall : fr.op = "rehash"
BY DEF Frame, PutCall, RehashCall

LEMMA ElementTypes ==
  ASSUME TInv
  PROVE  Elements \subseteq Element
<1>1. Stored \subseteq Element
  BY DEF Stored, InUse, TInv, TableOK, Table, Slot
<1>2. ASSUME NEW c \in 1..Len(calls) PROVE Waits(calls[c]) \subseteq Element
  <2>1. CASE calls[c].op = "rehash"
    <3>1. calls[c] \in RehashCall
      BY <2>1, KindFacts DEF TInv, CallsOK
    <3>2. PICK D \in SUBSET Nat : calls[c].curr \in [D -> Slot]
      BY <3>1 DEF RehashCall, Arrays
    <3> QED BY <3>2 DEF Waits, Indices, Slot
  <2>2. CASE calls[c].op # "rehash"
    BY <2>2 DEF Waits
  <2> QED BY <2>1, <2>2
<1> QED BY <1>1, <1>2, ElementsAre

\* The dictionary that a set of elements with distinct keys makes.
ContentsOf(E) == [k \in Key |-> IF \E e \in E : e.key = k
                               THEN (CHOOSE e \in E : e.key = k).data ELSE NULL]

LEMMA ContentsFacts ==
  ASSUME NEW E \in SUBSET Element, \A e, f \in E : e.key = f.key => e = f
  PROVE  /\ \A e \in E : e.key \in Key /\ ContentsOf(E)[e.key] = e.data /\ e.data # NULL
         /\ \A k \in Key : (\A e \in E : e.key # k) => ContentsOf(E)[k] = NULL
<1>1. ASSUME NEW e \in E
      PROVE  e.key \in Key /\ ContentsOf(E)[e.key] = e.data /\ e.data # NULL
  <2>1. e.key \in Key /\ e.data # NULL
    BY NullAssumption DEF Element
  <2>2. e = CHOOSE f \in E : f.key = e.key
    OBVIOUS
  <2> QED BY <2>1, <2>2 DEF ContentsOf
<1>2. \A k \in Key : (\A e \in E : e.key # k) => ContentsOf(E)[k] = NULL
  BY DEF ContentsOf
<1> QED BY <1>1, <1>2

LEMMA ContentsAre == /\ Contents = ContentsOf(Elements)
                     /\ Contents' = ContentsOf(Elements')
BY DEF Contents, ContentsOf

-----------------------------------------------------------------------------
LEMMA RetopFrames ==
  ASSUME NEW s \in Seq(Frame), s # << >>, NEW e \in Frame
  PROVE  LET t == [s EXCEPT ![Len(s)] = e]
         IN /\ t \in Seq(Frame) /\ Len(t) = Len(s) /\ t[Len(s)] = e
            /\ \A i \in 1..(Len(s) - 1) : t[i] = s[i]
OBVIOUS

\* Returning from hashmap_put: to the program, or to a loop that moves on.
LEMMA ReturnFacts ==
  ASSUME CallsOK, Running("put")
  PROVE  \/ Rest = << >> /\ Return = << >> /\ Len(calls) = 1
         \/ /\ Rest # << >>
            /\ \E n \in Nat \ {0}, fr \in RehashCall :
                 /\ Len(calls) = n+1 /\ calls[n] \in RehashCall /\ Top = calls[n+1]
                 /\ Len(Return) = n /\ Return[n] = fr
                 /\ fr.curr = calls[n].curr /\ fr.i = calls[n].i + 1
                 /\ \A c \in 1..(n-1) : Return[c] = calls[c]
<1>1. /\ Rest \in Seq(Frame) /\ Len(Rest) = Len(calls) - 1
      /\ \A c \in 1..Len(Rest) : Rest[c] = calls[c]
      /\ Len(calls) \in Nat \ {0} /\ Top \in PutCall
  BY TopFacts DEF Running
<1>2. CASE Rest = << >>
  BY <1>1, <1>2 DEF Return
<1>3. CASE Rest # << >>
  <2>1. PICK n \in Nat \ {0} : n = Len(Rest)
    BY <1>1, <1>3
  <2>2. n + 1 = Len(calls) /\ n + 1 \in 2..Len(calls) /\ Top = calls[n+1]
    BY <1>1, <2>1 DEF Top
  <2>3. calls[n] \in RehashCall
    <3>1. calls[n + 1] \in PutCall /\ (n + 1) - 1 = n
      BY <1>1, <2>2
    <3> QED BY <2>2, <3>1 DEF CallsOK
  <2>4. Rest[n] = calls[n]
    BY <1>1, <2>1
  <2>5. PICK fr : fr = [calls[n] EXCEPT !.i = @ + 1]
    OBVIOUS
  <2>6. fr \in RehashCall /\ fr.curr = calls[n].curr /\ fr.i = calls[n].i + 1
    BY <2>3, <2>5 DEF RehashCall
  <2>7. Return = [Rest EXCEPT ![n] = fr]
    BY <1>3, <2>1, <2>4, <2>5 DEF Return
  <2>8. /\ Len(Return) = n /\ Return[n] = fr
        /\ \A c \in 1..(n-1) : Return[c] = Rest[c]
    <3>1. fr \in Frame /\ Rest # << >>
      BY <1>3, <2>6 DEF Frame
    <3> QED BY <1>1, <2>1, <2>7, <3>1, RetopFrames
  <2>9. \A c \in 1..(n-1) : Return[c] = calls[c]
    BY <1>1, <2>1, <2>8
  <2>10. Len(Return) = n /\ Return[n] = fr
    BY <2>8
  <2> QED BY <1>3, <2>2, <2>3, <2>6, <2>9, <2>10
<1> QED BY <1>2, <1>3

\* The element of a nested put moves from its old table to the new one.
LEMMA ReturnWaits ==
  ASSUME NEW old \in RehashCall, NEW fr \in RehashCall, NEW put,
         fr.curr = old.curr, fr.i = old.i + 1, IsAt(old, put)
  PROVE  Waits(old) = Waits(fr) \cup {[key |-> put.key, data |-> put.value]}
<1>1. old.op = "rehash" /\ fr.op = "rehash" /\ old.i \in Nat
  BY DEF RehashCall
<1>2. PICK D \in SUBSET Nat : old.curr \in [D -> Slot]
  BY DEF RehashCall, Arrays
<1>3. \A j \in Nat : j >= old.i <=> j = old.i \/ j >= old.i + 1
  BY <1>1
<1>4. Indices(old) = Indices(fr) \cup {old.i}
  BY <1>1, <1>2, <1>3 DEF Indices, IsAt
<1> QED BY <1>1, <1>4 DEF Waits, IsAt

-----------------------------------------------------------------------------
\* What the steps inside of a put do to the C stack and to the elements.
LEMMA PutElements ==
  ASSUME DInv, NEW k \in Key, NEW v \in Value, hashmap_put(k, v)
  PROVE  Elements' = Elements /\ PutsOK' /\ StatusOK'
<1>1. /\ calls = << >> /\ calls' = <<PutFrame(k, v)>> /\ data' = data
      /\ status' = "running"
  BY DEF hashmap_put
<1>2. /\ Len(calls) = 0 /\ Len(calls') = 1 /\ calls'[1] = PutFrame(k, v)
      /\ calls' # << >>
  BY <1>1
<1>3. Waits(calls'[1]) = {} /\ Stored' = Stored
  BY <1>1, <1>2 DEF Waits, PutFrame, Stored, InUse
<1>4. Elements' = Elements
  <2>1. \A e : e \in Elements <=> e \in Stored
    BY <1>2, ElementsAre
  <2>2. \A e : e \in Elements' <=> e \in Stored
    <3>1. \A c : c \in 1..1 <=> c = 1
      OBVIOUS
    <3> QED BY <1>2, <1>3, <3>1, ElementsAreNext
  <2> QED BY <2>1, <2>2
<1>5. PutsOK' /\ StatusOK'
  BY <1>1, <1>2 DEF PutsOK, StatusOK, PutFrame
<1> QED BY <1>4, <1>5

LEMMA RehashElements ==
  ASSUME DInv, Rehash
  PROVE  Elements' = Elements /\ PutsOK' /\ StatusOK'
<1>1. PICK fr : fr = RehashFrame(data, 0)
  OBVIOUS
<1>2. /\ calls' = Append(calls, fr) /\ calls \in Seq(Frame) /\ calls # << >>
      /\ Double /\ status' = status /\ fr.op = "rehash" /\ fr.curr = data /\ fr.i = 0
  BY <1>1 DEF Rehash, Running, Double, RehashFrame, DInv, TInv, CallsOK
<1>3. PICK n \in Nat \ {0} :
        /\ n = Len(calls) /\ Len(calls') = n+1 /\ calls'[n+1] = fr
        /\ \A c \in 1..n : calls'[c] = calls[c]
  BY <1>2
<1>4. Waits(fr) = Stored /\ Stored' = {}
  <2>1. DOMAIN data \subseteq Nat /\ \A i \in Nat : i >= 0
    BY DEF DInv, TInv, TableOK, Table
  <2>2. Indices(fr) = InUse
    BY <1>2, <2>1 DEF Indices, InUse
  <2> QED BY <1>2, <2>2, EmptyUse DEF Waits, Stored
<1>5. Elements' = Elements
  <2>1. \A c : c \in 1..(n+1) <=> c \in 1..n \/ c = n+1
    OBVIOUS
  <2>2. \A e : (\E c \in 1..Len(calls') : e \in Waits(calls'[c]))
              <=> \/ \E c \in 1..Len(calls) : e \in Waits(calls[c])
                  \/ e \in Stored
    BY <1>3, <1>4, <2>1
  <2> QED BY <1>4, <2>2, ElementsAre, ElementsAreNext
<1>6. PutsOK'
  <2> SUFFICES ASSUME NEW c \in 2..Len(calls'), calls'[c].op = "put"
               PROVE  IsAt(calls'[c-1], calls'[c])
    BY DEF PutsOK, IsAt, Indices
  <2>1. c \in 2..n /\ c \in 1..n /\ c-1 \in 1..n
    BY <1>2, <1>3
  <2> QED BY <1>3, <2>1 DEF DInv, PutsOK
<1>7. StatusOK'
  BY <1>2, <1>3 DEF DInv, StatusOK
<1> QED BY <1>5, <1>6, <1>7

LEMMA ReinsertElements ==
  ASSUME DInv, Reinsert
  PROVE  Elements' = Elements /\ PutsOK' /\ StatusOK'
<1>1. /\ calls # << >> /\ Top \in RehashCall /\ Top.op = "rehash"
      /\ calls \in Seq(Frame)
  BY TopFacts DEF Reinsert, Running, DInv, TInv, CallsOK
<1>2. PICK D \in SUBSET Nat : Top.curr \in [D -> Slot]
  BY <1>1 DEF RehashCall, Arrays
<1>3. PICK j : j = First(Indices(Top))
  OBVIOUS
<1>4. j \in Indices(Top) /\ \A m \in Indices(Top) : j <= m
  <2>1. Indices(Top) \in SUBSET Nat /\ Indices(Top) # {}
    BY <1>2 DEF Reinsert, Indices
  <2> QED BY <1>3, <2>1, FirstFacts
<1>5. PICK put, top : /\ put = PutFrame(Top.curr[j].key, Top.curr[j].data)
                      /\ top = [Top EXCEPT !.i = j]
  OBVIOUS
<1>6. /\ top.op = "rehash" /\ top.curr = Top.curr /\ top.i = j /\ top \in RehashCall
      /\ put.op = "put" /\ put.key = Top.curr[j].key /\ put.value = Top.curr[j].data
  BY <1>1, <1>2, <1>4, <1>5 DEF RehashCall, PutFrame, Indices
<1>7. PICK s : s = [calls EXCEPT ![Len(calls)] = top]
  OBVIOUS
<1>8. PICK n \in Nat \ {0} :
        /\ n = Len(calls) /\ Len(calls') = n+1 /\ calls'[n+1] = put
        /\ calls'[n] = top /\ Top = calls[n]
        /\ \A c \in 1..(n-1) : calls'[c] = calls[c]
  <2>1. calls' = Append(s, put)
    BY <1>3, <1>5, <1>7 DEF Reinsert, Top
  <2>2. /\ s \in Seq(Frame) /\ Len(s) = Len(calls) /\ s[Len(calls)] = top
        /\ \A c \in 1..Len(calls) : c # Len(calls) => s[c] = calls[c]
    BY <1>1, <1>6, <1>7 DEF Frame
  <2>3. Len(calls) \in Nat \ {0}
    BY <1>1
  <2> QED BY <2>1, <2>2, <2>3 DEF Top
<1>9. Indices(top) = Indices(Top)
  <2>1. j \in Nat /\ Top.i \in Nat /\ D \subseteq Nat /\ j >= Top.i
    BY <1>1, <1>2, <1>4 DEF RehashCall, Indices
  <2>2. \A m \in D : Top.curr[m] # Free /\ m >= Top.i => m >= j
    BY <1>2, <1>4, <2>1 DEF Indices
  <2>3. \A m \in D : m >= j => m >= Top.i
    BY <2>1
  <2> QED BY <1>2, <1>6, <2>2, <2>3 DEF Indices
<1>10. Waits(top) = Waits(Top) /\ Waits(put) = {}
  BY <1>1, <1>6, <1>9 DEF Waits
<1>11. Elements' = Elements
  <2>1. /\ \A c : c \in 1..(n+1) <=> c \in 1..(n-1) \/ c = n \/ c = n+1
        /\ \A c : c \in 1..n <=> c \in 1..(n-1) \/ c = n
    OBVIOUS
  <2>2. \A e : (\E c \in 1..Len(calls') : e \in Waits(calls'[c]))
              <=> \E c \in 1..Len(calls) : e \in Waits(calls[c])
    BY <1>8, <1>10, <2>1
  <2>3. Stored' = Stored
    BY DEF Reinsert, Stored, InUse
  <2> QED BY <2>2, <2>3, ElementsAre, ElementsAreNext
<1>12. PutsOK'
  <2> SUFFICES ASSUME NEW c \in 2..Len(calls'), calls'[c].op = "put"
               PROVE  IsAt(calls'[c-1], calls'[c])
    BY DEF PutsOK, IsAt, Indices
  <2>1. CASE c = n+1
    <3>1. Top.curr[j] = [key |-> put.key, data |-> put.value]
      <4>1. Top.curr[j] \in Element
        BY <1>2, <1>4 DEF Indices, Slot
      <4> QED BY <1>6, <4>1 DEF Element
    <3>2. calls'[c-1] = top /\ calls'[c] = put
      BY <1>8, <2>1
    <3> QED BY <1>4, <1>6, <1>9, <3>1, <3>2 DEF IsAt
  <2>2. CASE c # n+1
    <3>1. c # n
      BY <1>6, <1>8
    <3>2. c \in 2..Len(calls) /\ c \in 1..(n-1) /\ c-1 \in 1..(n-1)
      BY <1>8, <2>2, <3>1
    <3> QED BY <1>8, <3>2 DEF DInv, PutsOK
  <2> QED BY <2>1, <2>2
<1>13. StatusOK'
  <2>1. status' = status /\ calls' # << >> /\ status = "running" /\ calls[1].op = "put"
    BY <1>1, <1>8 DEF Reinsert, DInv, StatusOK
  <2>2. calls'[1].op = "put"
    <3>1. n # 1
      BY <1>1, <1>8, <2>1
    <3> QED BY <1>8, <2>1, <3>1
  <2> QED BY <2>1, <2>2 DEF StatusOK
<1> QED BY <1>11, <1>12, <1>13

LEMMA EndRehashElements ==
  ASSUME DInv, EndRehash
  PROVE  Elements' = Elements /\ PutsOK' /\ StatusOK'
<1>1. /\ calls # << >> /\ Top.op = "rehash" /\ Indices(Top) = {}
      /\ calls' = Rest /\ data' = data /\ status' = status
  BY DEF EndRehash, Running
<1>2. PICK n \in Nat : /\ Len(calls) = n+1 /\ Top = calls[n+1] /\ Len(calls') = n
                       /\ \A c \in 1..n : calls'[c] = calls[c]
  <2>1. /\ Len(calls) \in Nat \ {0} /\ Len(Rest) = Len(calls) - 1
        /\ \A c \in 1..Len(Rest) : Rest[c] = calls[c]
    BY <1>1, TopFacts DEF DInv, TInv
  <2>2. PICK n \in Nat : n = Len(calls) - 1
    BY <2>1
  <2> QED BY <1>1, <2>1, <2>2 DEF Top
<1>3. Elements' = Elements
  <2>1. Waits(Top) = {} /\ Stored' = Stored
    BY <1>1 DEF Waits, Stored, InUse
  <2>2. \A c : c \in 1..(n+1) <=> c \in 1..n \/ c = n+1
    OBVIOUS
  <2>3. \A e : (\E c \in 1..Len(calls') : e \in Waits(calls'[c]))
              <=> \E c \in 1..Len(calls) : e \in Waits(calls[c])
    BY <1>2, <2>1, <2>2
  <2> QED BY <2>1, <2>3, ElementsAre, ElementsAreNext
<1>4. PutsOK'
  <2> SUFFICES ASSUME NEW c \in 2..Len(calls'), calls'[c].op = "put"
               PROVE  IsAt(calls'[c-1], calls'[c])
    BY DEF PutsOK, IsAt, Indices
  <2>1. c \in 2..Len(calls) /\ c \in 1..n /\ c-1 \in 1..n
    BY <1>2
  <2> QED BY <1>2, <2>1 DEF DInv, PutsOK
<1>5. StatusOK'
  <2>1. status = "running" /\ calls[1].op = "put" /\ n # 0
    BY <1>1, <1>2 DEF DInv, StatusOK
  <2>2. calls' # << >> /\ calls'[1].op = "put"
    BY <1>2, <2>1
  <2> QED BY <1>1, <2>1, <2>2 DEF StatusOK
<1> QED BY <1>3, <1>4, <1>5

-----------------------------------------------------------------------------
\* A put that finds a place, called by the program or by hashmap_rehash.
LEMMA SetFill ==
  ASSUME TInv, SetData
  PROVE  \E k \in Key, e \in Element :
           /\ Top \in PutCall /\ k = Top.key /\ e = [key |-> k, data |-> Top.value]
           /\ e.key = k /\ e.data = Top.value /\ Fill(k, e)
<1>1. Top \in PutCall
  BY TopFacts DEF SetData, Running, TInv
<1>2. PICK k, e : k = Top.key /\ e = [key |-> k, data |-> Top.value]
  OBVIOUS
<1>3. k \in Key /\ e \in Element /\ e.key = k /\ e.data = Top.value
  BY <1>1, <1>2 DEF PutCall, Element
<1>4. Fill(k, e)
  BY <1>2, <1>3 DEF SetData, Fill
<1> QED BY <1>1, <1>2, <1>3, <1>4

LEMMA SetDataCalls ==
  ASSUME DInv, SetData
  PROVE  PutsOK' /\ StatusOK'
<1>1. /\ CallsOK /\ Running("put") /\ calls' = Return
      /\ status' = IF Rest = << >> THEN "ok" ELSE status
  BY DEF SetData, DInv, TInv
<1>2. CASE Rest = << >>
  <2>1. calls' = << >> /\ Len(calls') = 0 /\ status' = "ok"
    BY <1>1, <1>2 DEF Return
  <2> QED BY <2>1 DEF PutsOK, StatusOK
<1>3. CASE Rest # << >>
  <2>1. PICK n \in Nat \ {0}, fr \in RehashCall :
          /\ Len(calls) = n+1 /\ calls[n] \in RehashCall
          /\ Len(calls') = n /\ calls'[n] = fr
          /\ \A c \in 1..(n-1) : calls'[c] = calls[c]
    BY <1>1, <1>3, ReturnFacts
  <2>2. PutsOK'
    <3> SUFFICES ASSUME NEW c \in 2..Len(calls'), calls'[c].op = "put"
                 PROVE  IsAt(calls'[c-1], calls'[c])
      BY DEF PutsOK, IsAt, Indices
    <3>1. c # n
      BY <2>1 DEF RehashCall
    <3>2. c \in 2..Len(calls) /\ c \in 1..(n-1) /\ c-1 \in 1..(n-1)
      BY <2>1, <3>1
    <3> QED BY <2>1, <3>2 DEF DInv, PutsOK
  <2>3. StatusOK'
    <3>1. status' = "running" /\ calls[1].op = "put" /\ calls' # << >>
      BY <1>1, <1>3, <2>1 DEF Running, DInv, StatusOK
    <3>2. calls'[1].op = "put"
      <4>1. n # 1
        BY <2>1, <3>1 DEF RehashCall
      <4> QED BY <2>1, <3>1, <4>1
    <3> QED BY <3>1, <3>2 DEF StatusOK
  <2> QED BY <2>2, <2>3
<1> QED BY <1>2, <1>3

\* Filling a place of k puts an element there, over the one of k or a free slot.
LEMMA FillStored ==
  ASSUME TInv, NEW k \in Key, NEW e \in Element, Fill(k, e)
  PROVE  /\ e \in Stored'
         /\ \A f \in Stored : f.key # k => f \in Stored'
         /\ \A f \in Stored' : f = e \/ f \in Stored
<1>1. PICK h : h = HashOf(k)
  OBVIOUS
<1>2. /\ h \in DOMAIN data /\ data'[h] = e /\ InUse' = InUse \cup {h}
      /\ \A i \in DOMAIN data : i # h => data'[i] = data[i]
  BY <1>1, FillUse DEF TInv
<1>3. data[h].key \in {NULL, k}
  BY <1>1, HashFacts DEF TInv, Fill
<1>4. \A i \in InUse : i \in DOMAIN data /\ data[i].key # NULL
  <2>1. \A i \in DOMAIN data : data[i] \in Slot
    BY DEF TInv, TableOK, Table
  <2> QED BY <2>1, SlotFacts DEF InUse
<1> QED BY <1>2, <1>3, <1>4 DEF Stored

\* hashmap_rehash's put moves an element from an old table to the new one.
LEMMA NestedElements ==
  ASSUME DInv, ~removed, SetData, Rest # << >>
  PROVE  Elements' = Elements
<1>1. PICK k \in Key, e \in Element :
        /\ Top \in PutCall /\ k = Top.key /\ e = [key |-> k, data |-> Top.value]
        /\ e.key = k /\ Fill(k, e)
  BY SetFill DEF DInv
<1>2. CallsOK /\ Running("put") /\ calls' = Return
  BY DEF SetData, DInv, TInv
<1>3. PICK n \in Nat \ {0}, fr \in RehashCall :
        /\ Len(calls) = n+1 /\ calls[n] \in RehashCall /\ Top = calls[n+1]
        /\ Len(calls') = n /\ calls'[n] = fr
        /\ fr.curr = calls[n].curr /\ fr.i = calls[n].i + 1
        /\ \A c \in 1..(n-1) : calls'[c] = calls[c]
  BY <1>2, ReturnFacts
<1>4. IsAt(calls[n], Top)
  <2>1. n+1 \in 2..Len(calls) /\ (n+1)-1 = n /\ calls[n+1].op = "put"
    BY <1>2, <1>3 DEF Running
  <2> QED BY <1>3, <2>1 DEF DInv, PutsOK
<1>5. Waits(calls[n]) = Waits(fr) \cup {e} /\ Waits(Top) = {}
  BY <1>1, <1>2, <1>3, <1>4, ReturnWaits DEF Waits, Running
<1>6. e \in Elements
  <2>1. n \in 1..Len(calls)
    BY <1>3
  <2> QED BY <1>5, <2>1, ElementsAre
<1>7. \A f : f \in Stored' <=> f \in Stored \/ f = e
  <2>1. \A f \in Stored : f.key = k => f = e
    BY <1>1, <1>6, ElementsAre DEF DInv, KeyOnce
  <2> QED BY <1>1, <2>1, FillStored DEF DInv
<1>8. \A f : (\E c \in 1..Len(calls) : f \in Waits(calls[c]))
            <=> f = e \/ \E c \in 1..Len(calls') : f \in Waits(calls'[c])
  <2>1. /\ \A c : c \in 1..(n+1) <=> c \in 1..(n-1) \/ c = n \/ c = n+1
        /\ \A c : c \in 1..n <=> c \in 1..(n-1) \/ c = n
    OBVIOUS
  <2> QED BY <1>3, <1>5, <2>1
<1> QED BY <1>7, <1>8, ElementsAre, ElementsAreNext

\* The program's put stores the element, and replaces one with that key.
LEMMA OuterElements ==
  ASSUME DInv, ~removed, SetData, Rest = << >>
  PROVE  \E k \in Key, e \in Element :
           /\ e.key = k
           /\ \A f : f \in Elements' <=> f = e \/ (f \in Elements /\ f.key # k)
<1>1. PICK k \in Key, e \in Element : e.key = k /\ Fill(k, e)
  BY SetFill DEF DInv
<1>2. CallsOK /\ Running("put") /\ calls' = Return
  BY DEF SetData, DInv, TInv
<1>3. Len(calls) = 1 /\ Len(calls') = 0
  BY <1>2, ReturnFacts
<1>4. \A f : f \in Elements <=> f \in Stored
  <2>1. Waits(calls[1]) = {}
    BY <1>2, <1>3 DEF Running, Top, Waits
  <2>2. \A c : c \in 1..1 <=> c = 1
    OBVIOUS
  <2> QED BY <1>3, <2>1, <2>2, ElementsAre
<1>5. \A f : f \in Elements' <=> f \in Stored'
  BY <1>3, ElementsAreNext
<1>6. ASSUME NEW f \in Stored', f.key = k PROVE f = e
  <2>1. ChainsOK'
    BY <1>1, FillChains DEF DInv
  <2>2. PICK i \in InUse' : f = data'[i]
    BY <1>6 DEF Stored
  <2>3. PICK j \in InUse' : e = data'[j]
    BY <1>1, FillStored DEF Stored, DInv
  <2>4. i = j
    BY <1>1, <1>6, <2>1, <2>2, <2>3 DEF ChainsOK
  <2> QED BY <2>2, <2>3, <2>4
<1>7. \A f : f \in Stored' <=> f = e \/ (f \in Stored /\ f.key # k)
  BY <1>1, <1>6, FillStored DEF DInv
<1> QED BY <1>1, <1>4, <1>5, <1>7

\* The program outside of hashmap_put: the table holds all elements.
LEMMA IdleElements ==
  /\ calls = << >> => \A e : e \in Elements <=> e \in Stored
  /\ calls' = << >> => \A e : e \in Elements' <=> e \in Stored'
<1>1. \A c : c \notin 1..0
  OBVIOUS
<1>2. Len(<< >>) = 0
  OBVIOUS
<1> QED BY <1>1, <1>2, ElementsAre, ElementsAreNext

\* Running out of memory loses the elements that wait in the old tables.
LEMMA OutOfMemoryElements ==
  ASSUME DInv, OutOfMemory
  PROVE  Elements' \subseteq Elements
<1>1. \A e : e \in Elements' <=> e \in Stored
  BY IdleElements DEF OutOfMemory, Stored, InUse
<1> QED BY <1>1, ElementsAre

\* hashmap_remove finds the element of its key, if there is one.
LEMMA RemoveElements ==
  ASSUME DInv, ~removed, NEW k \in Key, hashmap_remove(k)
  PROVE  /\ \A f : f \in Elements' <=> f \in Elements /\ f.key # k
         /\ status' = IF \E f \in Elements : f.key = k THEN "ok" ELSE "missing"
<1>1. PICK found : found = Places(k, {k})
  OBVIOUS
<1>2. /\ calls = << >> /\ calls' = << >>
      /\ data' = IF found = {} THEN data
                 ELSE [data EXCEPT ![Probe(k, First(found))] = Free]
      /\ status' = IF found = {} THEN "missing" ELSE "ok"
  BY <1>1 DEF hashmap_remove
<1>3. /\ \A f : f \in Elements <=> f \in Stored
      /\ \A f : f \in Elements' <=> f \in Stored'
  BY <1>2, IdleElements
<1>4. CASE found = {}
  <2>1. \A f \in Stored : f.key # k
    BY <1>1, <1>4 DEF DInv, ChainsOK, OnChain, Places, Stored
  <2>2. Stored' = Stored
    BY <1>2, <1>4 DEF Stored, InUse
  <2> QED BY <1>2, <1>3, <1>4, <2>1, <2>2
<1>5. CASE found # {}
  <2>1. found \in SUBSET Nat
    BY <1>1 DEF Places, Chain
  <2>2. PICK h : h = Probe(k, First(found))
    OBVIOUS
  <2>3. data[h].key = k /\ h \in DOMAIN data
    <3>1. First(found) \in found
      BY <1>5, <2>1, FirstFacts
    <3>2. First(found) \in Chain
      BY <1>1, <3>1 DEF Places
    <3>3. h \in DOMAIN data
      BY <2>2, <3>2, ProbeInTable DEF DInv, TInv, TableOK, Table
    <3> QED BY <1>1, <2>2, <3>1, <3>3 DEF Places
  <2>4. h \in InUse
    BY <2>3, NullAssumption DEF InUse, Free
  <2>5. InUse' = InUse \ {h} /\ \A i \in InUse' : data'[i] = data[i]
    <3>1. data' = [data EXCEPT ![h] = Free]
      BY <1>2, <1>5, <2>2
    <3> QED BY <2>3, <3>1 DEF InUse
  <2>6. \A i \in InUse : data[i].key = k => i = h
    BY <2>3, <2>4 DEF DInv, ChainsOK
  <2>7. \A f : f \in Stored' <=> f \in Stored /\ f.key # k
    BY <2>3, <2>5, <2>6 DEF Stored
  <2>8. data[h] \in Elements
    BY <1>3, <2>4 DEF Stored
  <2> QED BY <1>2, <1>3, <1>5, <2>3, <2>7, <2>8
<1> QED BY <1>4, <1>5

-----------------------------------------------------------------------------
LEMMA InitD == Init => DInv /\ Abstract!Init
<1> SUFFICES ASSUME Init PROVE DInv /\ Abstract!Init
  OBVIOUS
<1>1. TInv /\ calls = << >> /\ Len(calls) = 0 /\ status = "ok" /\ InUse = {}
  BY InitT DEF Init, Empty, InUse
<1>2. \A e : e \notin Elements
  BY <1>1, IdleElements DEF Stored
<1>3. DInv
  BY <1>1, <1>2 DEF DInv, StatusOK, PutsOK, KeyOnce, ChainsOK
<1>4. Contents = [k \in Key |-> NULL]
  BY <1>2, ContentsAre DEF ContentsOf
<1> QED BY <1>1, <1>3, <1>4 DEF Abstract!Init

\* Every step keeps the invariant.
LEMMA StepD == DInv /\ [Next]_vars => DInv'
<1> SUFFICES ASSUME DInv, [Next]_vars PROVE DInv'
  OBVIOUS
<1>1. TInv' /\ (removed => removed') /\ (~removed' => ChainsOK')
  BY StepT, RemovedStays, ChainStep DEF DInv, CInv
<1>2. SUFFICES PutsOK' /\ StatusOK' /\ (~removed' => KeyOnce')
  BY <1>1 DEF DInv
<1>3. ASSUME Elements' \subseteq Elements PROVE ~removed' => KeyOnce'
  BY <1>1, <1>3 DEF DInv, KeyOnce
<1>4. CASE Rehash
  BY <1>3, <1>4, RehashElements
<1>5. CASE Reinsert
  BY <1>3, <1>5, ReinsertElements
<1>6. CASE EndRehash
  BY <1>3, <1>6, EndRehashElements
<1>7. ASSUME NEW k \in Key, NEW v \in Value, hashmap_put(k, v)
      PROVE  PutsOK' /\ StatusOK' /\ (~removed' => KeyOnce')
  BY <1>3, <1>7, PutElements
<1>8. CASE SetData
  <2>1. PutsOK' /\ StatusOK'
    BY <1>8, SetDataCalls
  <2>2. ASSUME ~removed', Rest # << >> PROVE KeyOnce'
    BY <1>1, <1>3, <1>8, <2>2, NestedElements
  <2>3. ASSUME ~removed', Rest = << >> PROVE KeyOnce'
    BY <1>1, <1>8, <2>3, OuterElements DEF DInv, KeyOnce
  <2> QED BY <2>1, <2>2, <2>3
<1>9. CASE OutOfMemory
  <2>1. PutsOK' /\ StatusOK'
    <3>1. calls' = << >> /\ Len(calls') = 0 /\ status' = "omem"
      BY <1>9 DEF OutOfMemory
    <3> QED BY <3>1 DEF PutsOK, StatusOK
  <2> QED BY <1>3, <1>9, <2>1, OutOfMemoryElements
<1>10. ASSUME NEW k \in Key, hashmap_remove(k)
       PROVE  PutsOK' /\ StatusOK' /\ (~removed' => KeyOnce')
  <2>1. PutsOK' /\ StatusOK'
    <3>1. calls' = << >> /\ Len(calls') = 0 /\ status' \in {"ok", "missing"}
      BY <1>10 DEF hashmap_remove
    <3> QED BY <3>1 DEF PutsOK, StatusOK
  <2>2. ASSUME ~removed' PROVE KeyOnce'
    BY <1>1, <1>10, <2>2, RemoveElements DEF DInv, KeyOnce
  <2> QED BY <2>1, <2>2
<1>11. CASE UNCHANGED vars
  <2>1. Elements' = Elements
    BY <1>11, ElementsAre, ElementsAreNext DEF vars, Stored, InUse
  <2>2. PutsOK' /\ StatusOK'
    BY <1>11 DEF vars, DInv, PutsOK, StatusOK, IsAt, Indices
  <2> QED BY <1>3, <2>1, <2>2
<1> QED BY <1>4, <1>5, <1>6, <1>7, <1>8, <1>9, <1>10, <1>11 DEF Next, Continue

-----------------------------------------------------------------------------
\* The value of a key depends on the elements of that key only.
LEMMA SameValue ==
  ASSUME NEW E \in SUBSET Element, NEW F \in SUBSET Element,
         \A e, f \in E : e.key = f.key => e = f,
         \A e, f \in F : e.key = f.key => e = f,
         NEW k \in Key, \A e \in Element : e.key = k => (e \in E <=> e \in F)
  PROVE  ContentsOf(F)[k] = ContentsOf(E)[k]
<1>1. CASE \E e \in E : e.key = k
  <2>1. PICK e \in E : e.key = k
    BY <1>1
  <2>2. e \in F
    BY <2>1
  <2>3. ContentsOf(E)[k] = e.data
    BY <2>1, ContentsFacts
  <2>4. ContentsOf(F)[k] = e.data
    BY <2>1, <2>2, ContentsFacts
  <2> QED BY <2>3, <2>4
<1>2. CASE \A e \in E : e.key # k
  <2>1. \A e \in F : e.key # k
    BY <1>2
  <2>2. ContentsOf(E)[k] = NULL
    BY <1>2, ContentsFacts
  <2>3. ContentsOf(F)[k] = NULL
    BY <2>1, ContentsFacts
  <2> QED BY <2>2, <2>3
<1> QED BY <1>1, <1>2

LEMMA ContentsFunction ==
  /\ Contents = [k \in Key |-> Contents[k]]
  /\ Contents' = [k \in Key |-> Contents'[k]]
  /\ DOMAIN Contents = Key
BY DEF Contents

\* The program's put returns: Put.
LEMMA OuterPuts ==
  ASSUME DInv, DInv', ~removed, SetData, Rest = << >>
  PROVE  \E k \in Key, v \in Value : Abstract!Put(k, v)
<1>1. PICK k \in Key, e \in Element :
        /\ e.key = k
        /\ \A f : f \in Elements' <=> f = e \/ (f \in Elements /\ f.key # k)
  BY OuterElements
<1>2. /\ Elements \in SUBSET Element /\ Elements' \in SUBSET Element
      /\ \A f, g \in Elements : f.key = g.key => f = g
      /\ \A f, g \in Elements' : f.key = g.key => f = g
      /\ e.data \in Value
  BY <1>1, ElementTypes DEF DInv, KeyOnce, Element
<1>3. Contents'[k] = e.data
  BY <1>1, <1>2, ContentsFacts, ContentsAre
<1>4. ASSUME NEW q \in Key, q # k PROVE Contents'[q] = Contents[q]
  <2>1. \A f \in Element : f.key = q => (f \in Elements <=> f \in Elements')
    BY <1>1, <1>4
  <2> QED BY <1>2, <2>1, SameValue, ContentsAre
<1>5. Contents' = [Contents EXCEPT ![k] = e.data]
  BY <1>3, <1>4, ContentsFunction
<1>6. status = "running" /\ status' = "ok"
  BY DEF SetData, Running, DInv, StatusOK
<1> QED BY <1>2, <1>5, <1>6 DEF Abstract!Put

\* calloc fails: Fail, which loses the elements that were not yet moved.
LEMMA OutOfMemoryFails ==
  ASSUME DInv, ~removed, OutOfMemory
  PROVE  \E lost \in SUBSET Key : Abstract!Fail(lost)
<1>1. PICK lost \in SUBSET Key : lost = {k \in Key : \A f \in Elements' : f.key # k}
  OBVIOUS
<1>2. /\ Elements \in SUBSET Element /\ Elements' \in SUBSET Element
      /\ \A f, g \in Elements : f.key = g.key => f = g
      /\ \A f, g \in Elements' : f.key = g.key => f = g
  BY OutOfMemoryElements, ElementTypes DEF DInv, KeyOnce
<1>3. ASSUME NEW q \in lost PROVE Contents'[q] = NULL
  BY <1>1, <1>2, <1>3, ContentsFacts, ContentsAre
<1>4. ASSUME NEW q \in Key, q \notin lost PROVE Contents'[q] = Contents[q]
  <2>1. PICK f \in Elements' : f.key = q
    BY <1>1, <1>4
  <2>2. \A g \in Element : g.key = q => (g \in Elements <=> g \in Elements')
    BY <1>2, <2>1, OutOfMemoryElements
  <2> QED BY <1>2, <2>2, SameValue, ContentsAre
<1>5. Contents' = [k \in Key |-> IF k \in lost THEN NULL ELSE Contents[k]]
  BY <1>3, <1>4, ContentsFunction
<1>6. status = "running" /\ status' = "omem"
  BY DEF OutOfMemory, Running, DInv, StatusOK
<1> QED BY <1>5, <1>6 DEF Abstract!Fail

\* hashmap_remove, the first time: Remove.
LEMMA RemoveRemoves ==
  ASSUME DInv, ~removed, NEW k \in Key, hashmap_remove(k)
  PROVE  Abstract!Remove(k)
<1>1. /\ \A f : f \in Elements' <=> f \in Elements /\ f.key # k
      /\ status' = IF \E f \in Elements : f.key = k THEN "ok" ELSE "missing"
  BY RemoveElements
<1>2. /\ Elements \in SUBSET Element /\ Elements' \in SUBSET Element
      /\ \A f, g \in Elements : f.key = g.key => f = g
      /\ \A f, g \in Elements' : f.key = g.key => f = g
  BY <1>1, ElementTypes DEF DInv, KeyOnce
<1>3. Contents'[k] = NULL
  BY <1>1, <1>2, ContentsFacts, ContentsAre
<1>4. ASSUME NEW q \in Key, q # k PROVE Contents'[q] = Contents[q]
  <2>1. \A f \in Element : f.key = q => (f \in Elements <=> f \in Elements')
    BY <1>1, <1>4
  <2> QED BY <1>2, <2>1, SameValue, ContentsAre
<1>5. Contents' = [Contents EXCEPT ![k] = NULL]
  BY <1>3, <1>4, ContentsFunction
<1>6. status' = IF Contents[k] = NULL THEN "missing" ELSE "ok"
  <2>1. (\E f \in Elements : f.key = k) => Contents[k] # NULL
    BY <1>2, ContentsFacts, ContentsAre
  <2>2. (\A f \in Elements : f.key # k) => Contents[k] = NULL
    BY <1>2, ContentsFacts, ContentsAre
  <2> QED BY <1>1, <2>1, <2>2
<1>7. status # "running"
  BY DEF hashmap_remove, DInv, StatusOK
<1> QED BY <1>5, <1>6, <1>7 DEF Abstract!Remove

\* Every other step of a put moves elements or nothing.
LEMMA StepImplements ==
  ASSUME DInv, DInv', ~removed, [Next]_vars
  PROVE  Abstract!Next \/ UNCHANGED <<Contents, status>>
<1>1. Elements' = Elements => Contents' = Contents
  BY ContentsAre
<1>2. CASE SetData
  <2>1. CASE Rest = << >>
    BY <1>2, <2>1, OuterPuts DEF Abstract!Next
  <2>2. CASE Rest # << >>
    BY <1>1, <1>2, <2>2, NestedElements DEF SetData
  <2> QED BY <2>1, <2>2
<1>3. CASE Rehash
  BY <1>1, <1>3, RehashElements DEF Rehash
<1>4. CASE OutOfMemory
  BY <1>4, OutOfMemoryFails DEF Abstract!Next
<1>5. CASE Reinsert
  BY <1>1, <1>5, ReinsertElements DEF Reinsert
<1>6. CASE EndRehash
  BY <1>1, <1>6, EndRehashElements DEF EndRehash
<1>7. ASSUME NEW k \in Key, NEW v \in Value, hashmap_put(k, v)
      PROVE  Abstract!Next
  <2>1. Contents' = Contents
    BY <1>1, <1>7, PutElements
  <2>2. status # "running" /\ status' = "running"
    BY <1>7 DEF hashmap_put, DInv, StatusOK
  <2> QED BY <2>1, <2>2 DEF Abstract!Next, Abstract!Call
<1>8. ASSUME NEW k \in Key, hashmap_remove(k) PROVE Abstract!Next
  BY <1>8, RemoveRemoves DEF Abstract!Next
<1>9. CASE UNCHANGED vars
  <2>1. Elements' = Elements /\ status' = status
    BY <1>9, ElementsAre, ElementsAreNext DEF vars, Stored, InUse
  <2> QED BY <1>1, <2>1
<1> QED BY <1>2, <1>3, <1>4, <1>5, <1>6, <1>7, <1>8, <1>9 DEF Next, Continue

\* Up to and including its first removal the table is the dictionary that
\* hashmap.h promises, however often a put grows it (hashmap.c:211-317).
THEOREM DictionaryImplemented == Spec => ImplementsDictionary
<1>1. Init => DInv /\ Abstract!Init
  BY InitD
<1>2. DInv /\ [Next]_vars => DInv'
  BY StepD
<1>3. DInv /\ DInv' /\ [Next]_vars =>
        [removed \/ Abstract!Next]_<<Contents, status>>
  BY StepImplements
<1> QED BY <1>1, <1>2, <1>3, PTL DEF Spec, ImplementsDictionary
=============================================================================
