---------------------------- MODULE CuckooTable ----------------------------
(***************************************************************************)
(* The cuckoo hash table (cuckoo_hashing.h): w buckets of d slots, which   *)
(* both hash functions share.  When the buckets of a key are full, insert  *)
(* calls itself to move a key out of them.  It takes the value of the key  *)
(* it moves by value, but the key as a pointer into the slot it is in.     *)
(*                                                                         *)
(* The map that a caller of operator[] and erase means to have is kept     *)
(* beside the table.                                                       *)
(***************************************************************************)
EXTENDS Integers, FiniteSets, FiniteSetsExt, Sequences, SequencesExt

CONSTANTS
    TableKey,    \* the keys used; none is all zero bytes
    TableVal,    \* the values assigned
    Buckets,     \* w
    Depth,       \* d
    MaxMoves,    \* the default of remained
    Hash         \* Hash[k][key]: the bucket of hashs[k], k \in {0, 1}

ASSUME CuckooAssumption ==
    /\ Buckets \in Nat \ {0}
    /\ Depth \in Nat \ {0}
    /\ MaxMoves \in Nat \ {0}
    /\ Hash \in [{0, 1} -> [TableKey -> 1 .. Buckets]]

VARIABLES
    slots,     \* buckets: the key and the value in each place
    meant,     \* key -> value, as assigned and not erased
    crossed    \* a path passed a slot twice

cuckooVars == <<slots, meant, crossed>>

Place == (1 .. Buckets) \X (1 .. Depth)
EmptySlot == [key |-> "empty", val |-> 0]

-----------------------------------------------------------------------------
\* The slots that insert and operator[] look at for a key, in their order,
\* leaving out the hash function fromK.
SlotsOf(key, fromK) ==
    LET bucket(k) == [i \in 1 .. Depth |-> [k |-> k, place |-> <<Hash[k][key], i>>]]
    IN (IF fromK = 0 THEN <<>> ELSE bucket(0)) \o (IF fromK = 1 THEN <<>> ELSE bucket(1))

IsEmpty(t, p) == t[p].key = EmptySlot.key

\* What a pointer to a key points to: a slot, or the caller's own key.
KeyAt(t, ptr) == IF ptr \in Place THEN t[ptr].key ELSE ptr

Failed == [ok |-> FALSE]
Done(t, path) == [ok |-> TRUE, table |-> t, path |-> path]

RECURSIVE InsertKey(_, _, _, _, _), InsertMoving(_, _, _, _, _)

\* Faulty variant: the key that was moved keeps its old value in its slot.
InsertMovingKeepsVal(t, ptr, val, places, remained) ==
    IF places = <<>> THEN Failed
    ELSE LET p == Head(places).place
             r == InsertKey(t, p, t[p].val, Head(places).k, remained - 1)
         IN IF r.ok
              THEN Done([r.table EXCEPT ![p] = [@ EXCEPT !.key = KeyAt(r.table, ptr)]],
                        Append(r.path, p))
              ELSE InsertMoving(t, ptr, val, Tail(places), remained)

\* Takes the first of the places that what is in it can be moved out of.
InsertMoving(t, ptr, val, places, remained) ==
    IF places = <<>> THEN Failed
    ELSE LET p == Head(places).place
             r == InsertKey(t, p, t[p].val, Head(places).k, remained - 1)
         IN IF r.ok
              THEN Done([r.table EXCEPT ![p] = [key |-> KeyAt(r.table, ptr), val |-> val]],
                        Append(r.path, p))
              ELSE InsertMoving(t, ptr, val, Tail(places), remained)

\* Faulty variant: the key is put in its place before what was there is moved.
InsertKeyEagerly(t, ptr, val, fromK, remained) ==
    LET places == SlotsOf(KeyAt(t, ptr), fromK)
    IN IF remained = 0 THEN Failed
       ELSE LET p == places[1].place
            IN Done([t EXCEPT ![p] = [key |-> KeyAt(t, ptr), val |-> val]], <<p>>)

\* insert(key, val, from_k, remained).
InsertKey(t, ptr, val, fromK, remained) ==
    LET places == SlotsOf(KeyAt(t, ptr), fromK)
        free == {i \in DOMAIN places : IsEmpty(t, places[i].place)}
        p == places[Min(free)].place
    IN IF remained = 0 THEN Failed
       ELSE IF free # {}
         THEN Done([t EXCEPT ![p] = [key |-> KeyAt(t, ptr), val |-> val]], <<p>>)
         ELSE InsertMoving(t, ptr, val, places, remained)

\* The places operator[], query and erase find a key in; they use the first.
Holding(t, key) == SelectSeq(SlotsOf(key, -1), LAMBDA s : t[s.place].key = key)
FirstHolding(t, key) == Head(Holding(t, key)).place

-----------------------------------------------------------------------------
CuckooInit ==
    /\ slots = [p \in Place |-> EmptySlot]
    /\ meant = <<>>
    /\ crossed = FALSE

\* table[key] = val, for a key that operator[] finds.
AssignFound(key, val) ==
    /\ Holding(slots, key) # <<>>
    /\ slots' = [slots EXCEPT ![FirstHolding(slots, key)].val = val]
    /\ meant' = [meant EXCEPT ![key] = val]
    /\ UNCHANGED crossed

\* table[key] = val, for a new key: operator[] inserts it with the value 0.
AssignNew(key, val) ==
    LET r == InsertKey(slots, key, 0, -1, MaxMoves)
    IN /\ Holding(slots, key) = <<>>
       /\ r.ok
       /\ slots' = [r.table EXCEPT ![FirstHolding(r.table, key)].val = val]
       /\ meant' = [j \in DOMAIN meant \cup {key} |-> IF j = key THEN val ELSE meant[j]]
       /\ crossed' = (crossed \/ ~IsInjective(r.path))

\* operator[] throws: no path was found, which changes nothing.
AssignThrows(key) ==
    /\ Holding(slots, key) = <<>>
    /\ ~InsertKey(slots, key, 0, -1, MaxMoves).ok
    /\ UNCHANGED cuckooVars

\* erase; the value that stays in the slot is never read.
EraseKey(key) ==
    /\ Holding(slots, key) # <<>>
    /\ slots' = [slots EXCEPT ![FirstHolding(slots, key)] = EmptySlot]
    /\ meant' = [j \in DOMAIN meant \ {key} |-> meant[j]]
    /\ UNCHANGED crossed

CuckooNext ==
    \E key \in TableKey :
        \/ \E val \in TableVal : AssignFound(key, val) \/ AssignNew(key, val)
        \/ AssignThrows(key)
        \/ EraseKey(key)

CuckooSpec == CuckooInit /\ [][CuckooNext]_cuckooVars

-----------------------------------------------------------------------------
(* Properties.                                                             *)

\* However keys are moved out of each other's way, the table holds exactly
\* the keys of the map, each once and where its hash functions find it.
KeysKept ==
    /\ {slots[p].key : p \in Place} \ {EmptySlot.key} = DOMAIN meant
    /\ \A key \in DOMAIN meant : Holding(slots, key) # <<>>
    /\ \A p, q \in Place : (slots[p].key = slots[q].key /\ p # q) => IsEmpty(slots, p)

\* Each key has the value last assigned to it, as long as no path that keys
\* were moved along passed a slot twice: then the key a pointer points to
\* has changed when it is copied, while its value was copied before.
ValuesKept ==
    ~crossed =>
        \A key \in DOMAIN meant :
            Holding(slots, key) # <<>> => slots[FirstHolding(slots, key)].val = meant[key]
=============================================================================
