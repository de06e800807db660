------------------------------- MODULE HashMap -------------------------------
(***************************************************************************)
(* hashmap.c: the open-addressing table behind every symbol table of the   *)
(* compiler (functions, globals, types, modules).                          *)
(*                                                                         *)
(* A key is looked for, and stored, in MaxChain slots behind its hash      *)
(* value only.  When those are taken, or size has reached half the table,  *)
(* hashmap_put doubles the table and puts every element again, which may   *)
(* double it once more in the middle of that: hashmap_put and              *)
(* hashmap_rehash call each other.  calls is their C stack.                *)
(***************************************************************************)
EXTENDS Integers, Sequences, FiniteSets

CONSTANTS
  Key,          \* strings, compared by contents
  Value,        \* what callers store
  NULL,         \* the key and data of a free slot
  Hash,         \* hash_of_string
  InitialSize,  \* INITIAL_SIZE
  MaxChain,     \* MAX_CHAIN_LENGTH
  MaxTable      \* largest table that calloc can provide

ASSUME NullAssumption == NULL \notin Key /\ NULL \notin Value
ASSUME HashAssumption == Hash \in [Key -> Nat]
ASSUME SizeAssumption == /\ InitialSize \in Nat /\ InitialSize >= 2
                         /\ MaxChain \in Nat \ {0}
                         /\ MaxTable \in Nat

VARIABLES
  table_size,  \* m->table_size
  size,        \* m->size
  data,        \* m->data: a slot is in use when its key is not NULL
  calls,       \* calls of hashmap_put and hashmap_rehash, innermost last
  status,      \* of the last call of the program: it is running, or its result
  removed      \* ghost: hashmap_remove has removed an element

vars == <<table_size, size, data, calls, status, removed>>

Element == [key : Key, data : Value]
Free    == [key |-> NULL, data |-> NULL]
Slot    == Element \cup {Free}
Table(n) == [0..(n - 1) -> Slot]
EmptyPlusOne(n) == [i \in 0..n |-> Free]
Empty(n) == [i \in 0..(n - 1) |-> Free]

\* hashmap_put's arguments; hashmap_rehash's old table and its loop counter.
PutFrame(key, value) == [op |-> "put", key |-> key, value |-> value]
RehashFrame(curr, i) == [op |-> "rehash", curr |-> curr, i |-> i]
IndicesFromOne(fr) == {j \in DOMAIN fr.curr : j > fr.i /\ fr.curr[j] # Free}
Indices(fr) == {j \in DOMAIN fr.curr : j >= fr.i /\ fr.curr[j] # Free}

FrameOK(fr) ==
  \/ fr.op = "put" /\ fr.key \in Key /\ fr.value \in Value
  \/ /\ fr.op = "rehash"
     /\ \A j \in DOMAIN fr.curr : fr.curr[j] \in Slot

TypeOK ==
  /\ table_size \in Nat /\ table_size >= InitialSize
  /\ size \in Int
  /\ data \in Table(table_size)
  /\ \A c \in 1..Len(calls) : FrameOK(calls[c])
  /\ status \in {"running", "ok", "omem", "missing"}
  /\ removed \in BOOLEAN

Init ==
  /\ table_size = InitialSize
  /\ size = 0
  /\ data = Empty(InitialSize)
  /\ calls = << >>
  /\ status = "ok"
  /\ removed = FALSE
-----------------------------------------------------------------------------
\* The slots a key may be in, in the order they are tried.
Chain       == 0..(MaxChain - 1)
Probe(k, n) == (Hash[k] + n) % table_size
First(S)    == CHOOSE n \in S : \A m \in S : n <= m
Places(k, keys) == {n \in Chain : data[Probe(k, n)].key \in keys}

\* hashmap_hash: the first slot that is free or has the key, or MAP_FULL.
NeverReplace(k) == Places(k, {NULL})
Usable(k)  == Places(k, {NULL, k})
OverHalf   == size > table_size \div 2
HalfUsed   == size >= table_size \div 2
Full(k)    == HalfUsed \/ Usable(k) = {}
HashOf(k)  == Probe(k, First(Usable(k)))

\* hashmap_get and hashmap_get_ptr: free slots do not end the search.
Get(k) == LET found == Places(k, {k})
          IN IF found = {} THEN NULL ELSE data[Probe(k, First(found))].data
-----------------------------------------------------------------------------
Top  == calls[Len(calls)]
Rest == SubSeq(calls, 1, Len(calls) - 1)
Running(op) == calls # << >> /\ Top.op = op

\* The caller of a hashmap_put that returns MAP_OK is the program or the loop
\* of hashmap_rehash, which goes on to the next slot.
Return == IF Rest = << >> THEN << >>
          ELSE [Rest EXCEPT ![Len(Rest)].i = @ + 1]

hashmap_put(k, v) ==
  /\ calls = << >>
  /\ calls' = <<PutFrame(k, v)>>
  /\ status' = "running"
  /\ UNCHANGED <<table_size, size, data, removed>>

\* A place was found: set the data.
SetData ==
  /\ Running("put") /\ ~Full(Top.key)
  /\ data' = [data EXCEPT ![HashOf(Top.key)] =
                [key |-> Top.key, data |-> Top.value]]
  /\ size' = size + 1
  /\ calls' = Return
  /\ status' = IF Rest = << >> THEN "ok" ELSE status
  /\ UNCHANGED <<table_size, removed>>

\* hashmap_rehash, up to its loop.
Rehash ==
  /\ Running("put") /\ Full(Top.key)
  /\ 2 * table_size <= MaxTable
  /\ table_size' = 2 * table_size
  /\ size' = 0
  /\ data' = Empty(2 * table_size)
  /\ calls' = Append(calls, RehashFrame(data, 0))
  /\ UNCHANGED <<status, removed>>

IgnoreOutOfMemory ==
  /\ Running("put") /\ Full(Top.key) /\ UNCHANGED vars

\* calloc fails: every call on the stack returns MAP_OMEM.
OutOfMemory ==
  /\ Running("put") /\ Full(Top.key)
  /\ calls' = << >>
  /\ status' = "omem"
  /\ UNCHANGED <<table_size, size, data, removed>>

\* hashmap_rehash: the next element that is in use is put again.
Reinsert ==
  /\ Running("rehash") /\ Indices(Top) # {}
  /\ LET j == First(Indices(Top))
     IN calls' = Append([calls EXCEPT ![Len(calls)].i = j],
                        PutFrame(Top.curr[j].key, Top.curr[j].data))
  /\ UNCHANGED <<table_size, size, data, status, removed>>

\* The loop is over; hashmap_put tries again.
EndRehash ==
  /\ Running("rehash") /\ Indices(Top) = {}
  /\ calls' = Rest
  /\ UNCHANGED <<table_size, size, data, status, removed>>

AlwaysShrink(found) == size - 1
Shrink(found) == IF found = {} THEN size ELSE size - 1

hashmap_remove(k) ==
  /\ calls = << >>
  /\ LET found == Places(k, {k}) IN
     /\ data' = IF found = {} THEN data
                ELSE [data EXCEPT ![Probe(k, First(found))] = Free]
     /\ size' = Shrink(found)
     /\ status' = IF found = {} THEN "missing" ELSE "ok"
     /\ removed' = (removed \/ found # {})
  /\ UNCHANGED <<table_size, calls>>

Continue == SetData \/ Rehash \/ OutOfMemory \/ Reinsert \/ EndRehash

Next == \/ \E k \in Key, v \in Value : hashmap_put(k, v)
        \/ Continue
        \/ \E k \in Key : hashmap_remove(k)

\* A C function that was called goes on running.
Spec == Init /\ [][Next]_vars /\ WF_vars(Continue)
-----------------------------------------------------------------------------
InUse == {i \in DOMAIN data : data[i] # Free}

\* The table never fills up: size, which counts puts, bounds the number of
\* elements, and half the table bounds size (hashmap.c:215), also in the
\* middle of nested rehashes.
HalfEmpty == Cardinality(InUse) <= size /\ size <= table_size \div 2

\* Until something is removed, hashmap_get finds every element the table
\* holds, however the chains of different keys overlap and whatever rehashes
\* have moved (hashmap.c:319).  Afterwards a key may be stored twice.
Found    == \A i \in InUse : Get(data[i].key) = data[i].data
Findable == ~removed => Found

\* Elements of the old tables that have not been put again yet.
Pending == UNION {{fr.curr[j] : j \in Indices(fr)} :
                  fr \in {calls[c] : c \in {d \in 1..Len(calls) :
                                             calls[d].op = "rehash"}}}
Elements == {data[i] : i \in InUse} \cup Pending
Contents == [k \in Key |->
  IF \E e \in Elements : e.key = k
  THEN (CHOOSE e \in Elements : e.key = k).data ELSE NULL]

\* Up to and including the first removal the table is the dictionary of
\* hashmap.h: nothing is lost or altered by growing, and a failing put only
\* loses elements.
Abstract == INSTANCE Dictionary WITH dict <- Contents
ImplementsDictionary ==
  Abstract!Init /\ [][removed \/ Abstract!Next]_<<Contents, status>>

\* hashmap_put returns: doubling the table ends, in an insertion or in
\* MAP_OMEM, however many keys share a hash value (hashmap.c:288).
PutReturns == status = "running" ~> status # "running"
=============================================================================
