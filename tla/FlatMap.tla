------------------------------- MODULE FlatMap -------------------------------
(***************************************************************************)
(* FlatMap (stack/flat_map.h), the open-addressing table under the TMSI    *)
(* and link indexes of the subscriber registry.  mSlots is the probe       *)
(* table: a slot is kEmpty, kTomb or the index of an entry; entries never  *)
(* move and are recycled through a free list.  A probe loop has no bound   *)
(* of its own: it ends at the key or at a kEmpty slot, and `hung' records  *)
(* a call that meets neither.                                              *)
(***************************************************************************)
EXTENDS Integers, Sequences, FiniteSets, SequencesExt, FiniteSetsExt

CONSTANTS Keys,        \* the keys the owner uses
          HashFns,     \* the functions hashKey() may be on these keys
          MinCapacity, \* the first table's size (8 in the code)
          MaxCapacity, \* bound: no growth past this size
          MaxEntries   \* bound: entry indexes ever allocated at once

ASSUME CapacityAssumption ==
    /\ MinCapacity \in Nat \ {0}
    /\ MaxCapacity \in Nat
    /\ MaxEntries \in Nat
    /\ HashFns \subseteq [Keys -> Nat]

VARIABLES hash,   \* hashKey: fixed by the build, any function
          slots,  \* mSlots
          ents,   \* the entries of mSlabs: [key, live, slot]
          free,   \* mFree
          size,   \* mSize
          tomb,   \* mTomb
          hung    \* a probe loop that does not end

vars == <<hash, slots, ents, free, size, tomb, hung>>

kEmpty == -1
kTomb == -2
NoKey == "no key"

(* A table is the function from 0..capacity-1; mSlots.empty() is the one  *)
(* with no slot.                                                          *)
Capacity == Cardinality(DOMAIN slots)

(* The slot the n-th step of the probe for k looks at.                    *)
Probe(tbl, k, n) == (hash[k] + n) % Cardinality(DOMAIN tbl)

(* The steps at which a probe of a table for k stops: an empty            *)
(* slot, or the slot of the entry that has the key.                       *)
Holds(s, k) == s >= 0 /\ ents[s + 1].live /\ ents[s + 1].key = k
Stops(tbl, k) == {n \in DOMAIN tbl :
                    LET s == tbl[Probe(tbl, k, n)] IN s = kEmpty \/ Holds(s, k)}

(* rehash(): every live entry, in index order, into the first free slot   *)
(* of its probe sequence; tombstones are dropped.                         *)
Placed(acc, i, cap) ==
    LET h == hash[acc.ents[i].key]
        n == Min({j \in 0..(cap - 1) : acc.tbl[(h + j) % cap] = kEmpty})
        p == (h + n) % cap
    IN [tbl |-> [acc.tbl EXCEPT ![p] = i - 1], ents |-> [acc.ents EXCEPT ![i].slot = p]]
Rehashed(es, cap) ==
    LET place[i \in 0..Len(es)] ==
          IF i = 0 THEN [tbl |-> [p \in 0..(cap - 1) |-> kEmpty], ents |-> es]
          ELSE IF ~es[i].live THEN place[i - 1]
          ELSE Placed(place[i - 1], i, cap)
    IN place[Len(es)]

(* acquireEntry(): the last dead index, or a new one.                     *)
Acquired(k, at) ==
    LET e == [key |-> k, live |-> TRUE, slot |-> at]
    IN IF free # <<>>
       THEN [idx |-> Last(free), ents |-> [ents EXCEPT ![Last(free) + 1] = e],
             free |-> Front(free)]
       ELSE [idx |-> Len(ents), ents |-> Append(ents, e), free |-> free]

(* The slot an insertion of k takes when its probe stopped at step n: the *)
(* first tombstone it passed, else the empty slot it stopped at.          *)
InsertSlot(tbl, k, n) ==
    LET tombs == {m \in 0..(n - 1) : tbl[Probe(tbl, k, m)] = kTomb}
    IN Probe(tbl, k, IF tombs = {} THEN n ELSE Min(tombs))

Init ==
    /\ hash \in HashFns
    /\ slots = <<>>
    /\ ents = <<>> /\ free = <<>>
    /\ size = 0 /\ tomb = 0
    /\ hung = FALSE

(* emplace() of a key that is not there: the first table if there is     *)
(* none, the insertion, then the 70 % check.                              *)
Insert(k) ==
    LET tbl == IF Capacity = 0 THEN [i \in 0..(MinCapacity - 1) |-> kEmpty] ELSE slots
        cap == Cardinality(DOMAIN tbl)
        n == Min(Stops(tbl, k))
        at == InsertSlot(tbl, k, n)
        got == Acquired(k, at)
        grows == (size + 1) * 10 > cap * 7
        re == Rehashed(got.ents, 2 * cap)
    IN /\ Stops(tbl, k) # {} /\ tbl[Probe(tbl, k, n)] = kEmpty
       /\ free # <<>> \/ Len(ents) < MaxEntries
       /\ grows => 2 * cap <= MaxCapacity
       /\ slots' = IF grows THEN re.tbl ELSE [tbl EXCEPT ![at] = got.idx]
       /\ ents' = IF grows THEN re.ents ELSE got.ents
       /\ free' = got.free
       /\ size' = size + 1
       /\ tomb' = IF grows THEN 0 ELSE IF tbl[at] = kTomb THEN tomb - 1 ELSE tomb
       /\ UNCHANGED <<hash, hung>>

(* erase(find(k)) of a key that is there: a tombstone in the slot the     *)
(* entry remembers, then the 50 % check.                                  *)
FaultFreesSlot(k) ==
    /\ Capacity > 0 /\ Stops(slots, k) # {}
    /\ LET s == slots[Probe(slots, k, Min(Stops(slots, k)))]
       IN /\ s # kEmpty
          /\ slots' = [slots EXCEPT ![ents[s + 1].slot] = kEmpty]
          /\ ents' = [ents EXCEPT ![s + 1] = [key |-> NoKey, live |-> FALSE, slot |-> @.slot]]
          /\ free' = Append(free, s)
          /\ size' = size - 1
    /\ UNCHANGED <<hash, tomb, hung>>
FaultSwapErase(k) ==
    /\ Capacity > 0 /\ Stops(slots, k) # {}
    /\ LET s == slots[Probe(slots, k, Min(Stops(slots, k)))]
           last == Len(ents) - 1
           moved == [slots EXCEPT ![ents[last + 1].slot] = s]
       IN /\ s # kEmpty
          /\ slots' = [moved EXCEPT ![ents[s + 1].slot] = kTomb]
          /\ ents' = Front([ents EXCEPT ![s + 1] = ents[last + 1]])
          /\ size' = size - 1 /\ tomb' = tomb + 1
    /\ UNCHANGED <<hash, free, hung>>
Erase(k) ==
    /\ Capacity > 0 /\ Stops(slots, k) # {}
    /\ LET s == slots[Probe(slots, k, Min(Stops(slots, k)))]
           es == [ents EXCEPT ![s + 1] = [key |-> NoKey, live |-> FALSE, slot |-> @.slot]]
           cleans == (tomb + 1) * 2 > Capacity
           re == Rehashed(es, Capacity)
       IN /\ s # kEmpty
          /\ slots' = IF cleans THEN re.tbl ELSE [slots EXCEPT ![ents[s + 1].slot] = kTomb]
          /\ ents' = IF cleans THEN re.ents ELSE es
          /\ free' = Append(free, s)
          /\ size' = size - 1
          /\ tomb' = IF cleans THEN 0 ELSE tomb + 1
    /\ UNCHANGED <<hash, hung>>

(* find() or emplace() of a key whose probe meets neither the key nor an  *)
(* empty slot: the loop goes round the table for ever.                    *)
Spin(k) ==
    /\ Capacity > 0 /\ Stops(slots, k) = {}
    /\ hung' = TRUE
    /\ UNCHANGED <<hash, slots, ents, free, size, tomb>>

(* reserve(): a larger table; the slabs it adds change no index.          *)
Reserve(cap) ==
    /\ cap > Capacity
    /\ LET re == Rehashed(ents, cap) IN slots' = re.tbl /\ ents' = re.ents
    /\ tomb' = 0
    /\ UNCHANGED <<hash, free, size, hung>>

Clear ==
    /\ slots' = [i \in DOMAIN slots |-> kEmpty]
    /\ ents' = <<>> /\ free' = <<>>
    /\ size' = 0 /\ tomb' = 0
    /\ UNCHANGED <<hash, hung>>

Next ==
    /\ ~hung
    /\ \/ \E k \in Keys : Insert(k) \/ Erase(k) \/ Spin(k)
       \/ \E cap \in {MinCapacity, MaxCapacity} : Reserve(cap)
       \/ Clear

Spec == Init /\ [][Next]_vars

-----------------------------------------------------------------------------
(* What the owner of the map sees: the index (the address) of each key.   *)
Live == {i \in DOMAIN ents : ents[i].live}
Content == [k \in {ents[i].key : i \in Live} |->
              CHOOSE i \in Live : ents[i].key = k]

(* Chains of tombstones, rehashes and recycled entries never hide or      *)
(* double a session: each key has at most one live entry, the probe for   *)
(* that key stops at this entry's slot, and the counters the thresholds   *)
(* compare are the real ones (emplace, find, erase, rehash).              *)
EveryKeyFound ==
    /\ \A i, j \in Live : ents[i].key = ents[j].key => i = j
    /\ \A i \in Live :
         LET k == ents[i].key
         IN Stops(slots, k) # {} /\ slots[Probe(slots, k, Min(Stops(slots, k)))] = i - 1
    /\ size = Cardinality(Live)
    /\ tomb = Cardinality({s \in DOMAIN slots : slots[s] = kTomb})

(* The table implements a plain map from keys to addresses.               *)
Map == INSTANCE AddressMap WITH map <- Content
MapSpec == Map!Spec

(* A lookup always ends: the comment on the 50 % rule says tombstone      *)
(* density is what bounds the length of a probe.                          *)
ProbesEnd == ~hung
=============================================================================
