-------------------------- MODULE TransactionProofs -------------------------
(***************************************************************************)
(* Theorems about TransactionManager, for every pool size, every set of    *)
(* requests and responses and both kinds of caller.                        *)
(***************************************************************************)
EXTENDS TransactionManager, FiniteSetTheorems, WellFoundedInduction, TLAPS

USE DEF NoSlot, TIs

\* What the ascending loops find: a member of the set, or NoSlot for none.
LEMMA FirstFinds ==
  ASSUME NEW S, S \subseteq Slots
  PROVE  /\ First(S) \in Slots \cup {NoSlot}
         /\ S = {} => First(S) = NoSlot
         /\ S # {} => First(S) \in S /\ First(S) # NoSlot
<1>1. CASE S = {}
  BY <1>1 DEF First
<1>2. CASE S # {}
  <2>1. Slots \subseteq Nat
    BY PoolAssumption DEF Slots
  <2>2. \E s \in S : \A t \in S : s <= t
    <3>1. \E s \in S : \A t \in S : ~(<<t, s>> \in OpToRel(<, Nat))
      BY <1>2, <2>1, NatLessThanWellFounded, WFMin, Zenon
    <3>2. \A s, t \in Nat : t < s => <<t, s>> \in OpToRel(<, Nat)
      BY DEF OpToRel
    <3>3. \E s \in S : \A t \in S : ~(t < s)
      BY <2>1, <3>1, <3>2, Zenon
    <3>4. \A s, t \in Nat : ~(t < s) => s <= t
      OBVIOUS
    <3> QED
      BY <2>1, <3>3, <3>4, Zenon
  <2>3. First(S) \in S
    BY <1>2, <2>2 DEF First
  <2>4. -1 \notin Nat
    OBVIOUS
  <2> QED
    BY <1>2, <2>1, <2>3, <2>4
<1> QED
  BY <1>1, <1>2

\* create() takes a slot of the pool that holds no pending transaction.
LEMMA FindSlotIsNotPending ==
  ASSUME FindSlot # NoSlot
  PROVE  FindSlot \in Slots /\ ~Pending(FindSlot)
<1>1. FreeSlots \subseteq Slots /\ FinishedSlots \subseteq Slots
  BY DEF FreeSlots, FinishedSlots
<1>2. FindSlot \in FreeSlots \cup FinishedSlots
  BY <1>1, FirstFinds, Zenon DEF FindSlot
<1> QED
  BY <1>1, <1>2 DEF FreeSlots, FinishedSlots, Pending

\* get() returns a pending transaction of the pool.
LEMMA GetFindsPending ==
  ASSUME NEW id, Get(id) # NoSlot
  PROVE  Get(id) \in Slots /\ Pending(Get(id))
BY Zenon DEF Get

\* So does match().
LEMMA MatchFindsPending ==
  ASSUME TypeOK, NEW m, Match(m) # NoSlot
  PROVE  Match(m) \in Slots /\ Pending(Match(m))
<1>1. CASE m.pd \in DialogPDs
  BY <1>1, Zenon DEF Match, TypeOK
<1>2. CASE m.pd \notin DialogPDs
  <2> DEFINE S == {s \in Slots : /\ Pending(s)
                                 /\ mTransactions[s].pd = m.pd
                                 /\ mTransactions[s].mti = m.mti}
  <2>1. Match(m) = First(S) /\ S \subseteq Slots
    BY <1>2, Zenon DEF Match
  <2>2. First(S) \in S
    BY <2>1, FirstFinds, Zenon
  <2> QED
    BY <2>1, <2>2
<1> QED
  BY <1>1, <1>2

-----------------------------------------------------------------------------
(* The inductive invariant                                                 *)

\* Unless the caller shares TIs, the index names every pending dialog.  That no
\* two pending dialogs have one TI follows from it.
IndexIsComplete ==
  ~tisAreShared =>
    \A s \in Slots : PendingDialog(s) => mTiIndex[mTransactions[s].ti] = s

Inv == TypeOK /\ IndexIsSound /\ IndexIsComplete

LEMMA InitInv == Init => Inv
<1> SUFFICES ASSUME Init PROVE Inv
  OBVIOUS
<1>1. Blank \in Transaction
  BY DEF Blank, NewTransaction, Transaction, PDs, TimerIds, TransactionState
<1>2. TypeOK
  BY <1>1 DEF Init, TypeOK
<1>3. IndexIsSound
  BY DEF Init, IndexIsSound
<1>4. IndexIsComplete
  BY DEF Init, IndexIsComplete, PendingDialog, Pending
<1> QED
  BY <1>2, <1>3, <1>4 DEF Inv

\* create() keeps the invariant: the old entry of the slot goes before the new
\* one is made.
LEMMA CreateKeepsInv ==
  ASSUME Inv, NEW r \in Requests, Create(r)
  PROVE  Inv'
<1> DEFINE s == FindSlot
<1>1. s \in Slots /\ ~Pending(s)
  BY FindSlotIsNotPending DEF Create
<1>2. /\ mTransactions' = [mTransactions EXCEPT ![s] = NewTransaction(r)]
      /\ mOccupied' = [mOccupied EXCEPT ![s] = TRUE]
      /\ mCount' = IF mOccupied[s] THEN mCount ELSE mCount + 1
      /\ mTiIndex' = IndexAfterCreate(r, s)
      /\ TiIsAllowed(r)
      /\ tisAreShared' = tisAreShared
  BY DEF Create
<1>3. /\ NewTransaction(r) \in Transaction
      /\ NewTransaction(r).pd = r.pd
      /\ NewTransaction(r).ti = r.ti
      /\ NewTransaction(r).state = "Pending"
  BY PoolAssumption DEF NewTransaction, Transaction, Request, TransactionState
<1> HIDE DEF s
<1>4. /\ mTransactions \in [Slots -> Transaction]
      /\ mOccupied \in [Slots -> BOOLEAN]
      /\ mTiIndex \in [TIs -> Slots \cup {NoSlot}]
      /\ mCount \in Int /\ tisAreShared \in BOOLEAN
  BY DEF Inv, TypeOK
<1>5. /\ mTransactions' \in [Slots -> Transaction]
      /\ mTransactions'[s] = NewTransaction(r)
      /\ \A t \in Slots \ {s} : mTransactions'[t] = mTransactions[t]
      /\ mOccupied' \in [Slots -> BOOLEAN]
      /\ mOccupied'[s]
      /\ \A t \in Slots \ {s} : mOccupied'[t] = mOccupied[t]
      /\ mCount' \in Int
  BY <1>1, <1>2, <1>3, <1>4
<1> DEFINE dropped == DropStaleEntry(mTiIndex, s)
<1>6. /\ dropped \in [TIs -> Slots \cup {NoSlot}]
      /\ \A ti \in TIs : dropped[ti] # s
      /\ \A ti \in TIs : dropped[ti] \in {mTiIndex[ti], NoSlot}
      /\ \A ti \in TIs : mTiIndex[ti] # s => dropped[ti] = mTiIndex[ti]
  <2>1. \A ti \in TIs : mTiIndex[ti] = s =>
          mOccupied[s] /\ Dialog(s) /\ mTransactions[s].ti = ti
    <3> SUFFICES ASSUME NEW ti \in TIs, mTiIndex[ti] = s
                 PROVE  mOccupied[s] /\ Dialog(s) /\ mTransactions[s].ti = ti
      OBVIOUS
    <3>1. s # NoSlot
      BY <1>1, PoolAssumption DEF Slots
    <3> QED
      BY <3>1 DEF Inv, IndexIsSound, Dialog
  <2>2. CASE mOccupied[s] /\ Dialog(s) /\ mTiIndex[mTransactions[s].ti] = s
    <3>1. mTransactions[s].ti \in TIs
      BY <2>2 DEF Dialog
    <3>2. dropped = [mTiIndex EXCEPT ![mTransactions[s].ti] = NoSlot]
      BY <2>2 DEF DropStaleEntry
    <3>3. s # NoSlot
      BY <1>1, PoolAssumption DEF Slots
    <3> HIDE DEF dropped
    <3>4. /\ dropped \in [TIs -> Slots \cup {NoSlot}]
          /\ dropped[mTransactions[s].ti] = NoSlot
          /\ \A ti \in TIs : ti # mTransactions[s].ti => dropped[ti] = mTiIndex[ti]
      BY <1>4, <3>1, <3>2
    <3> QED
      BY <2>1, <2>2, <3>1, <3>3, <3>4
  <2>3. CASE ~(mOccupied[s] /\ Dialog(s) /\ mTiIndex[mTransactions[s].ti] = s)
    <3>1. dropped = mTiIndex
      BY <2>3 DEF DropStaleEntry
    <3> QED
      BY <1>4, <2>1, <2>3, <3>1
  <2> QED
    BY <2>2, <2>3
<1>7. mTiIndex' = EnterTi(dropped, r, s)
  BY <1>2 DEF IndexAfterCreate
<1> HIDE DEF dropped
<1>8. /\ mTiIndex' \in [TIs -> Slots \cup {NoSlot}]
      /\ \A ti \in TIs : mTiIndex'[ti] = IF r.pd \in DialogPDs /\ ti = r.ti
                                         THEN s ELSE dropped[ti]
  BY <1>1, <1>6, <1>7 DEF EnterTi
<1>9. TypeOK'
  BY <1>2, <1>4, <1>5, <1>8 DEF TypeOK
<1>10. IndexIsSound'
  <2> SUFFICES ASSUME NEW ti \in TIs, mTiIndex'[ti] # NoSlot
               PROVE  /\ mOccupied'[mTiIndex'[ti]]
                      /\ mTransactions'[mTiIndex'[ti]].pd \in DialogPDs
                      /\ mTransactions'[mTiIndex'[ti]].ti = ti
    BY DEF IndexIsSound
  <2>1. CASE r.pd \in DialogPDs /\ ti = r.ti
    BY <2>1, <1>3, <1>5, <1>8
  <2>2. CASE ~(r.pd \in DialogPDs /\ ti = r.ti)
    <3>1. /\ mTiIndex'[ti] = mTiIndex[ti]
          /\ mTiIndex[ti] # NoSlot
          /\ mTiIndex[ti] \in Slots \ {s}
      BY <2>2, <1>4, <1>6, <1>8
    <3> QED
      BY <3>1, <1>5 DEF Inv, IndexIsSound
  <2> QED
    BY <2>1, <2>2
<1>11. IndexIsComplete'
  <2> SUFFICES ASSUME ~tisAreShared, NEW t \in Slots, PendingDialog(t)'
               PROVE  mTiIndex'[mTransactions'[t].ti] = t
    BY <1>2 DEF IndexIsComplete
  <2>1. CASE t = s
    BY <2>1, <1>3, <1>5, <1>8 DEF PendingDialog, Dialog
  <2>2. CASE t # s
    <3>1. PendingDialog(t) /\ mTransactions'[t] = mTransactions[t]
      BY <2>2, <1>5 DEF PendingDialog, Pending, Dialog
    <3>2. mTransactions[t].ti \in TIs /\ mTiIndex[mTransactions[t].ti] = t
      BY <3>1 DEF Inv, IndexIsComplete, PendingDialog, Dialog
    <3>3. ~(r.pd \in DialogPDs /\ mTransactions[t].ti = r.ti)
      BY <1>2, <3>1 DEF TiIsAllowed
    <3> QED
      BY <2>2, <3>1, <3>2, <3>3, <1>6, <1>8
  <2> QED
    BY <2>1, <2>2
<1> QED
  BY <1>9, <1>10, <1>11 DEF Inv

\* Ending transactions in their slots, one by a call or all those of a timer,
\* keeps the invariant: pending ones only become fewer.
LEMMA FinishingKeepsInv ==
  ASSUME Inv, UNCHANGED <<mOccupied, mTiIndex, mCount, tisAreShared>>,
         mTransactions' \in [Slots -> Transaction],
         \A s \in Slots :
           /\ mTransactions'[s].pd = mTransactions[s].pd
           /\ mTransactions'[s].ti = mTransactions[s].ti
           /\ \/ mTransactions'[s].state = mTransactions[s].state
              \/ mTransactions'[s].state # "Pending"
  PROVE  Inv'
<1>1. TypeOK'
  BY DEF Inv, TypeOK
<1>2. IndexIsSound'
  BY DEF Inv, TypeOK, IndexIsSound
<1>3. IndexIsComplete'
  BY DEF Inv, IndexIsComplete, PendingDialog, Pending, Dialog
<1> QED
  BY <1>1, <1>2, <1>3 DEF Inv

LEMMA FinishSlotKeepsInv ==
  ASSUME Inv, NEW s \in Slots, NEW outcome \in Finished, FinishSlot(s, outcome)
  PROVE  Inv'
<1>1. mTransactions \in [Slots -> Transaction]
  BY DEF Inv, TypeOK
<1>2. mTransactions' = [mTransactions EXCEPT ![s].state = outcome]
  BY DEF FinishSlot
<1>3. mTransactions' \in [Slots -> Transaction]
  BY <1>1, <1>2 DEF Transaction, TransactionState
<1>4. \A t \in Slots :
        /\ mTransactions'[t].pd = mTransactions[t].pd
        /\ mTransactions'[t].ti = mTransactions[t].ti
        /\ \/ mTransactions'[t].state = mTransactions[t].state
           \/ mTransactions'[t].state # "Pending"
  BY <1>1, <1>2 DEF Transaction, Finished
<1> QED
  BY <1>3, <1>4, FinishingKeepsInv DEF FinishSlot

LEMMA OnTimerExpiredKeepsInv ==
  ASSUME Inv, NEW timer, OnTimerExpired(timer)
  PROVE  Inv'
<1>1. mTransactions \in [Slots -> Transaction]
  BY DEF Inv, TypeOK
<1>2. \A t \in Slots : mTransactions'[t] \in
        {mTransactions[t], [mTransactions[t] EXCEPT !.state = "Expired"]}
  BY DEF OnTimerExpired
<1>3. mTransactions' \in [Slots -> Transaction]
  BY <1>1 DEF OnTimerExpired, Transaction, TransactionState, Finished
<1>4. \A t \in Slots :
        /\ mTransactions'[t].pd = mTransactions[t].pd
        /\ mTransactions'[t].ti = mTransactions[t].ti
        /\ \/ mTransactions'[t].state = mTransactions[t].state
           \/ mTransactions'[t].state # "Pending"
  BY <1>1, <1>2 DEF Transaction
<1> QED
  BY <1>3, <1>4, FinishingKeepsInv DEF OnTimerExpired

\* cleanup() keeps the invariant: the rebuilt index names pending dialogs only,
\* and all of them where TIs are not shared.
LEMMA CleanupKeepsInv ==
  ASSUME Inv, Cleanup, mCount' \in Int
  PROVE  Inv'
<1> DEFINE Of(ti) == {s \in Slots : PendingDialog(s) /\ mTransactions[s].ti = ti}
<1>1. /\ mTransactions' = mTransactions
      /\ mOccupied' = [s \in Slots |-> Pending(s)]
      /\ mTiIndex' = [ti \in TIs |-> First(Of(ti))]
      /\ tisAreShared' = tisAreShared
  BY DEF Cleanup, RebuildTiIndex
<1>2. /\ mTransactions \in [Slots -> Transaction]
      /\ mOccupied \in [Slots -> BOOLEAN]
      /\ tisAreShared \in BOOLEAN
  BY DEF Inv, TypeOK
<1>3. \A s \in Slots : Pending(s) \in BOOLEAN
  BY <1>2 DEF Pending
<1>4. \A ti \in TIs :
        /\ First(Of(ti)) \in Slots \cup {NoSlot}
        /\ Of(ti) = {} => First(Of(ti)) = NoSlot
        /\ Of(ti) # {} => First(Of(ti)) \in Of(ti) /\ First(Of(ti)) # NoSlot
  <2> TAKE ti \in TIs
  <2>1. Of(ti) \subseteq Slots
    OBVIOUS
  <2> HIDE DEF Of
  <2> QED
    BY <2>1, FirstFinds, Zenon
<1>5. TypeOK'
  <2>1. mOccupied' \in [Slots -> BOOLEAN]
    BY <1>1, <1>3
  <2>2. mTiIndex' \in [TIs -> Slots \cup {NoSlot}]
    BY <1>1, <1>4
  <2> QED
    BY <1>1, <1>2, <2>1, <2>2 DEF TypeOK
<1>6. IndexIsSound'
  <2> SUFFICES ASSUME NEW ti \in TIs, mTiIndex'[ti] # NoSlot
               PROVE  /\ mOccupied'[mTiIndex'[ti]]
                      /\ mTransactions'[mTiIndex'[ti]].pd \in DialogPDs
                      /\ mTransactions'[mTiIndex'[ti]].ti = ti
    BY DEF IndexIsSound
  <2>1. mTiIndex'[ti] = First(Of(ti))
    BY <1>1
  <2>2. mTiIndex'[ti] \in Of(ti)
    BY <1>4, <2>1, Zenon
  <2> QED
    BY <1>1, <2>2 DEF PendingDialog, Dialog
<1>7. IndexIsComplete'
  <2> SUFFICES ASSUME ~tisAreShared, NEW t \in Slots, PendingDialog(t)'
               PROVE  mTiIndex'[mTransactions'[t].ti] = t
    BY <1>1 DEF IndexIsComplete
  <2> DEFINE ti == mTransactions[t].ti
  <2>1. PendingDialog(t) /\ ti \in TIs
    BY <1>1 DEF PendingDialog, Pending, Dialog
  <2>2. t \in Of(ti)
    BY <2>1
  <2>3. First(Of(ti)) \in Of(ti)
    BY <1>4, <2>1, <2>2, Zenon
  <2>4. \A u \in Of(ti) : u = mTiIndex[ti]
    BY DEF Inv, IndexIsComplete
  <2>5. First(Of(ti)) = t
    BY <2>2, <2>3, <2>4, Zenon
  <2> QED
    BY <1>1, <2>1, <2>5
<1> QED
  BY <1>5, <1>6, <1>7 DEF Inv

-----------------------------------------------------------------------------
(* totalCount()                                                            *)

\* Every set of slots is finite.
LEMMA SlotsAreFinite ==
  ASSUME NEW S, S \subseteq Slots
  PROVE  IsFiniteSet(S) /\ Cardinality(S) \in Nat
<1>1. IsFiniteSet(Slots)
  BY FS_Interval, PoolAssumption DEF Slots
<1>2. IsFiniteSet(S)
  BY <1>1, FS_Subset
<1> QED
  BY <1>2, FS_CardinalityType

Occupied == {s \in Slots : mOccupied[s]}

\* cleanup() subtracts what it frees.
LEMMA CleanupKeepsCount ==
  ASSUME TypeOK, CountAgrees, Cleanup
  PROVE  CountAgrees' /\ mCount' \in Int
<1>1. Occupied \subseteq Slots /\ FinishedSlots \subseteq Occupied
  BY DEF Occupied, FinishedSlots
<1>2. Occupied' = Occupied \ FinishedSlots
  BY DEF Cleanup, Occupied, FinishedSlots, Pending, TypeOK
<1>3. Occupied \cap FinishedSlots = FinishedSlots
  BY <1>1
<1>4. Cardinality(Occupied \ FinishedSlots)
        = Cardinality(Occupied) - Cardinality(FinishedSlots)
  BY <1>1, <1>3, SlotsAreFinite, FS_Difference
<1>5. mCount = Cardinality(Occupied)
  BY DEF CountAgrees, Occupied
<1>6. CountAgrees' <=> mCount' = Cardinality(Occupied')
  BY DEF CountAgrees, Occupied
<1>7. Cardinality(FinishedSlots) \in Nat /\ Cardinality(Occupied) \in Nat
  BY <1>1, SlotsAreFinite
<1> QED
  BY <1>2, <1>4, <1>5, <1>6, <1>7 DEF Cleanup

\* create() counts a slot only when it was free.
LEMMA CreateKeepsCount ==
  ASSUME TypeOK, CountAgrees, NEW r \in Requests, Create(r)
  PROVE  CountAgrees'
<1>1. FindSlot \in Slots
  BY FindSlotIsNotPending DEF Create
<1>2. Occupied' = Occupied \cup {FindSlot}
  BY <1>1 DEF Create, Occupied, TypeOK
<1>3. FindSlot \in Occupied <=> mOccupied[FindSlot]
  BY <1>1 DEF Occupied
<1>4. IsFiniteSet(Occupied)
  BY SlotsAreFinite DEF Occupied
<1>5. Cardinality(Occupied \cup {FindSlot}) =
        IF FindSlot \in Occupied THEN Cardinality(Occupied) ELSE Cardinality(Occupied) + 1
  BY <1>4, FS_AddElement
<1>6. mCount = Cardinality(Occupied)
  BY DEF CountAgrees, Occupied
<1>7. CountAgrees' <=> mCount' = Cardinality(Occupied')
  BY DEF CountAgrees, Occupied
<1>8. mCount' = IF mOccupied[FindSlot] THEN mCount ELSE mCount + 1
  BY DEF Create
<1> QED
  BY <1>2, <1>3, <1>5, <1>6, <1>7, <1>8

-----------------------------------------------------------------------------
(* Theorems                                                                *)

IInv == Inv /\ CountAgrees

LEMMA InitIInv == Init => IInv
<1> SUFFICES ASSUME Init PROVE CountAgrees
  BY InitInv DEF IInv
<1>1. {s \in Slots : mOccupied[s]} = {}
  BY DEF Init
<1> QED
  BY <1>1, FS_EmptySet DEF Init, CountAgrees

LEMMA NextIInv == IInv /\ [Next]_vars => IInv'
<1> SUFFICES ASSUME IInv, [Next]_vars PROVE IInv'
  OBVIOUS
<1>0. Inv /\ TypeOK /\ CountAgrees
  BY DEF IInv, Inv
<1>1. ASSUME NEW r \in Requests, Create(r) PROVE IInv'
  BY <1>0, <1>1, CreateKeepsInv, CreateKeepsCount DEF IInv
<1>2. ASSUME mOccupied' = mOccupied, mCount' = mCount PROVE CountAgrees'
  BY <1>0, <1>2 DEF CountAgrees
<1>3. ASSUME NEW id \in Ids, NEW outcome \in Finished, Finish(id, outcome)
      PROVE  IInv'
  <2>1. Get(id) \in Slots /\ FinishSlot(Get(id), outcome)
    BY <1>3, GetFindsPending DEF Finish
  <2> QED
    BY <1>0, <1>2, <2>1, FinishSlotKeepsInv DEF IInv, FinishSlot
<1>4. ASSUME NEW m \in Responses, Respond(m) PROVE IInv'
  <2>1. Match(m) \in Slots /\ FinishSlot(Match(m), "Completed")
    BY <1>0, <1>4, MatchFindsPending DEF Respond
  <2>2. "Completed" \in Finished
    BY DEF Finished
  <2> QED
    BY <1>0, <1>2, <2>1, <2>2, FinishSlotKeepsInv DEF IInv, FinishSlot
<1>5. ASSUME NEW r \in Requests, OnTimerExpired(r.timer) PROVE IInv'
  BY <1>0, <1>2, <1>5, OnTimerExpiredKeepsInv DEF IInv, OnTimerExpired
<1>6. CASE Cleanup
  BY <1>0, <1>6, CleanupKeepsInv, CleanupKeepsCount DEF IInv
<1>7. CASE UNCHANGED vars
  BY <1>7 DEF IInv, Inv, TypeOK, IndexIsSound, IndexIsComplete, CountAgrees,
              PendingDialog, Pending, Dialog, vars
<1> QED
  BY <1>1, <1>3, <1>4, <1>5, <1>6, <1>7 DEF Next

LEMMA Invariance == Spec => []IInv
BY InitIInv, NextIInv, PTL DEF Spec

\* The TI index never names a slot that was given to something else: whatever
\* the order of creations in reused slots, answers, expiries and cleanups.
THEOREM IndexSoundness == Spec => []IndexIsSound
<1>1. IInv => IndexIsSound
  BY DEF IInv, Inv
<1> QED
  BY <1>1, Invariance, PTL

\* totalCount() always equals the number of occupied slots.
THEOREM CountCorrect == Spec => []CountAgrees
<1>1. IInv => CountAgrees
  BY DEF IInv
<1> QED
  BY <1>1, Invariance, PTL

\* With a TI of its own every pending dialog is found by its response, for every
\* pool size and every history of the slots and TIs it uses.
THEOREM DialogsAreMatched == Spec => []DialogIsMatched
<1>1. ASSUME IInv PROVE DialogIsMatched
  <2> SUFFICES ASSUME ~tisAreShared, NEW s \in Slots, PendingDialog(s)
               PROVE  Match([pd |-> mTransactions[s].pd, mti |-> 0,
                             ti |-> mTransactions[s].ti]) = s
    BY DEF DialogIsMatched
  <2> DEFINE ti == mTransactions[s].ti
             m == [pd |-> mTransactions[s].pd, mti |-> 0, ti |-> ti]
  <2>1. mTransactions[s].pd \in DialogPDs /\ ti \in TIs /\ Pending(s)
    BY DEF PendingDialog, Dialog
  <2>2. mTiIndex[ti] = s
    BY <1>1 DEF IInv, Inv, IndexIsComplete
  <2>3. s # NoSlot
    BY PoolAssumption DEF Slots
  <2>4. m.pd = mTransactions[s].pd /\ m.ti = ti
    OBVIOUS
  <2> HIDE DEF m, ti
  <2>5. mTransactions[s].ti = ti
    BY DEF ti
  <2>6. Match(m) = s
    BY <2>1, <2>2, <2>3, <2>4, <2>5, Zenon DEF Match
  <2> QED
    BY <2>6 DEF m, ti
<1> QED
  BY <1>1, Invariance, PTL

\* A pending transaction stays where its ID says, unaltered, until it finishes.
THEOREM LiveIdsStable == Spec => LiveIdsAreStable
<1> DEFINE Kept == \A s \in Slots : Pending(s) =>
       /\ mOccupied'[s]
       /\ \E st \in TransactionState :
            mTransactions'[s] = [mTransactions[s] EXCEPT !.state = st]
<1>1. ASSUME IInv, [Next]_vars PROVE [Kept]_vars
  <2> SUFFICES ASSUME NEW s \in Slots, Pending(s), Next
               PROVE  /\ mOccupied'[s]
                      /\ \E st \in TransactionState :
                           mTransactions'[s] = [mTransactions[s] EXCEPT !.state = st]
    BY <1>1
  <2> DEFINE With(st) == [mTransactions[s] EXCEPT !.state = st]
  <2>0. /\ mTransactions \in [Slots -> Transaction]
        /\ mOccupied \in [Slots -> BOOLEAN]
        /\ mOccupied[s]
        /\ mTransactions[s].state = "Pending"
    BY <1>1 DEF IInv, Inv, TypeOK, Pending
  <2>1. mTransactions[s] = With("Pending") /\ "Pending" \in TransactionState
    BY <2>0 DEF Transaction, TransactionState
  <2>2. Finished \subseteq TransactionState
    BY DEF TransactionState
  <2> HIDE DEF With
  <2>3. SUFFICES mOccupied'[s] /\ \E st \in TransactionState : mTransactions'[s] = With(st)
    BY DEF With
  <2>4. ASSUME NEW r \in Requests, Create(r)
        PROVE  mOccupied'[s] /\ mTransactions'[s] = With("Pending")
    <3>1. FindSlot \in Slots /\ s # FindSlot
      BY <2>4, FindSlotIsNotPending DEF Create
    <3> QED
      BY <2>0, <2>1, <2>4, <3>1 DEF Create
  <2>5. ASSUME NEW t \in Slots, NEW outcome \in Finished, FinishSlot(t, outcome)
        PROVE  mOccupied'[s] /\ mTransactions'[s] \in {With("Pending"), With(outcome)}
    BY <2>0, <2>1, <2>5 DEF FinishSlot, With
  <2>6. ASSUME NEW id \in Ids, NEW outcome \in Finished, Finish(id, outcome)
        PROVE  mOccupied'[s] /\ mTransactions'[s] \in {With("Pending"), With(outcome)}
    BY <2>5, <2>6, GetFindsPending DEF Finish
  <2>7. ASSUME NEW m \in Responses, Respond(m)
        PROVE  mOccupied'[s] /\ mTransactions'[s] \in {With("Pending"), With("Completed")}
    BY <1>1, <2>5, <2>7, MatchFindsPending DEF Respond, Finished, IInv, Inv
  <2>8. ASSUME NEW r \in Requests, OnTimerExpired(r.timer)
        PROVE  mOccupied'[s] /\ mTransactions'[s] \in {With("Pending"), With("Expired")}
    BY <2>0, <2>1, <2>8 DEF OnTimerExpired, With
  <2>9. CASE Cleanup
    BY <2>0, <2>1, <2>9 DEF Cleanup
  <2>10. "Completed" \in Finished /\ "Expired" \in Finished
    BY DEF Finished
  <2> QED
    BY <2>1, <2>2, <2>4, <2>6, <2>7, <2>8, <2>9, <2>10 DEF Next
<1> QED
  BY <1>1, Invariance, PTL DEF Spec, LiveIdsAreStable
=============================================================================
