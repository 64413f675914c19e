------------------------- MODULE TransactionManager -------------------------
(***************************************************************************)
(* The transaction pool of one mobile station (stack/transaction.cpp):     *)
(* fixed slots, an index from transaction identifier (TI) to slot for the  *)
(* two dialog protocols, and identifiers that are slot numbers plus one.   *)
(*                                                                         *)
(* The caller creates transactions, feeds responses to match() and         *)
(* completes what it finds, ends transactions through get(), reports timer *)
(* expiries and calls cleanup() whenever it likes.  Operators named        *)
(* Fault... are broken variants that no specification uses.                *)
(***************************************************************************)
EXTENDS Integers, FiniteSets

CONSTANTS
  MaxTransactions,       \* slots of the pool (16 in the code)
  Requests,              \* the requests the caller makes transactions for
  Responses,             \* the messages the caller looks up
  IdModulus              \* values of an ID, 2^32 in the code

Slots == 0 .. MaxTransactions - 1

NoSlot == -1

DialogPDs == {"CallControl", "NonCallSS"}

PDs ==
  DialogPDs \cup
  {"GroupCallControl", "BroadcastCallControl", "MobilityManagement", "RadioResource",
   "GPRSMobilityManagement", "SMS", "GPRSSessionManagement", "Location",
   "PacketDomainSupplementaryServices1", "PacketDomainSupplementaryServices2",
   "TestProcedure", "Undefined"}

TIs == 0 .. 7            \* the entries of the TI index

TimerIds == (0 .. 18) \cup {255}     \* T3101 .. T3395 and Unknown

Request == [pd : PDs, mti : Nat, ti : Nat, timer : TimerIds]

Response == [pd : PDs, mti : Nat, ti : Nat]

Finished == {"Completed", "Expired", "Cancelled"}

TransactionState == {"Pending"} \cup Finished

Transaction ==
  [pd : PDs, mti : Nat, ti : Nat, timer : TimerIds, state : TransactionState]

ASSUME PoolAssumption ==
  /\ MaxTransactions \in Nat \ {0}
  /\ Requests \subseteq Request
  /\ Responses \subseteq Response
  /\ IdModulus \in Nat /\ IdModulus > MaxTransactions

VARIABLES
  mTransactions,         \* slot -> transaction, kept after cleanup()
  mOccupied,             \* slot -> is the slot in use?
  mTiIndex,              \* TI -> slot or NoSlot
  mCount,                \* totalCount()
  tisAreShared           \* the kind of caller: may it reuse the TI of a pending dialog?

vars == <<mTransactions, mOccupied, mTiIndex, mCount, tisAreShared>>

NewTransaction(r) ==
  [pd |-> r.pd, mti |-> r.mti, ti |-> r.ti, timer |-> r.timer, state |-> "Pending"]

\* A value-initialised slot: all members zero, which names the first protocol.
Blank == NewTransaction([pd |-> "GroupCallControl", mti |-> 0, ti |-> 0, timer |-> 0])

Init ==
  /\ mTransactions = [s \in Slots |-> Blank]
  /\ mOccupied = [s \in Slots |-> FALSE]
  /\ mTiIndex = [ti \in TIs |-> NoSlot]
  /\ mCount = 0
  /\ tisAreShared \in BOOLEAN

-----------------------------------------------------------------------------
(* Lookups                                                                 *)

Pending(s) == mOccupied[s] /\ mTransactions[s].state = "Pending"

Dialog(s) == mTransactions[s].pd \in DialogPDs /\ mTransactions[s].ti \in TIs

PendingDialog(s) == Pending(s) /\ Dialog(s)

\* The first slot of a set, as the ascending loops find it.
First(S) == IF S = {} THEN NoSlot ELSE CHOOSE s \in S : \A t \in S : s <= t

FreeSlots == {s \in Slots : ~mOccupied[s]}

FinishedSlots == {s \in Slots : mOccupied[s] /\ mTransactions[s].state # "Pending"}

FaultFindSlot == IF FreeSlots # {} THEN First(FreeSlots) ELSE First(Slots)

FindSlot == IF FreeSlots # {} THEN First(FreeSlots) ELSE First(FinishedSlots)

\* The slot get() returns for an ID, or NoSlot for nullptr.  IDs are unsigned:
\* 0 - 1 wraps to a number that no slot has.
Get(id) ==
  LET idx == (id - 1) % IdModulus
  IN  IF idx \in Slots /\ Pending(idx) THEN idx ELSE NoSlot

\* The slot match() returns for a message, with its header or without: by TI for
\* the dialog protocols, by protocol and message type for the others.
Match(m) ==
  IF m.pd \in DialogPDs
  THEN IF /\ m.ti \in TIs
          /\ mTiIndex[m.ti] # NoSlot
          /\ Pending(mTiIndex[m.ti])
          /\ mTransactions[mTiIndex[m.ti]].pd = m.pd
          /\ mTransactions[mTiIndex[m.ti]].ti = m.ti
       THEN mTiIndex[m.ti]
       ELSE NoSlot
  ELSE First({s \in Slots : /\ Pending(s)
                            /\ mTransactions[s].pd = m.pd
                            /\ mTransactions[s].mti = m.mti})

-----------------------------------------------------------------------------
(* Changes                                                                 *)

FaultDropStaleEntry(index, s) == index

\* The index without the entry of the finished transaction in slot s.
DropStaleEntry(index, s) ==
  IF mOccupied[s] /\ Dialog(s) /\ index[mTransactions[s].ti] = s
  THEN [index EXCEPT ![mTransactions[s].ti] = NoSlot]
  ELSE index

EnterTi(index, r, s) ==
  IF r.pd \in DialogPDs /\ r.ti \in TIs THEN [index EXCEPT ![r.ti] = s] ELSE index

FaultIndexAfterCreate(r, s) == DropStaleEntry(EnterTi(mTiIndex, r, s), s)

IndexAfterCreate(r, s) == EnterTi(DropStaleEntry(mTiIndex, s), r, s)

\* A caller that does not share TIs picks one no pending dialog has.
TiIsAllowed(r) ==
  \/ tisAreShared
  \/ r.pd \notin DialogPDs
  \/ \A s \in Slots : PendingDialog(s) => mTransactions[s].ti # r.ti

FaultCreate(r) ==
  /\ TiIsAllowed(r)
  /\ FindSlot # NoSlot
  /\ mTransactions' = [mTransactions EXCEPT ![FindSlot] = NewTransaction(r)]
  /\ mOccupied' = [mOccupied EXCEPT ![FindSlot] = TRUE]
  /\ mCount' = mCount + 1
  /\ mTiIndex' = IndexAfterCreate(r, FindSlot)
  /\ UNCHANGED tisAreShared

Create(r) ==
  /\ TiIsAllowed(r)
  /\ FindSlot # NoSlot
  /\ mTransactions' = [mTransactions EXCEPT ![FindSlot] = NewTransaction(r)]
  /\ mOccupied' = [mOccupied EXCEPT ![FindSlot] = TRUE]
  /\ mCount' = IF mOccupied[FindSlot] THEN mCount ELSE mCount + 1
  /\ mTiIndex' = IndexAfterCreate(r, FindSlot)
  /\ UNCHANGED tisAreShared

\* complete(), expire() or cancel() on a transaction obtained just before.
FinishSlot(s, outcome) ==
  /\ mTransactions' = [mTransactions EXCEPT ![s].state = outcome]
  /\ UNCHANGED <<mOccupied, mTiIndex, mCount, tisAreShared>>

Finish(id, outcome) ==
  /\ Get(id) # NoSlot
  /\ FinishSlot(Get(id), outcome)

\* A response arrives: match() and complete() what it answers.
Respond(m) ==
  /\ Match(m) # NoSlot
  /\ FinishSlot(Match(m), "Completed")

OnTimerExpired(timer) ==
  /\ mTransactions' = [s \in Slots |->
       IF Pending(s) /\ mTransactions[s].timer = timer
       THEN [mTransactions[s] EXCEPT !.state = "Expired"]
       ELSE mTransactions[s]]
  /\ UNCHANGED <<mOccupied, mTiIndex, mCount, tisAreShared>>

\* rebuildTiIndex() after cleanup() has freed the finished slots: the first
\* pending dialog of a TI wins.
RebuildTiIndex ==
  [ti \in TIs |->
     First({s \in Slots : PendingDialog(s) /\ mTransactions[s].ti = ti})]

Cleanup ==
  /\ mOccupied' = [s \in Slots |-> Pending(s)]
  /\ mCount' = mCount - Cardinality(FinishedSlots)
  /\ mTiIndex' = RebuildTiIndex
  /\ UNCHANGED <<mTransactions, tisAreShared>>

Ids == 0 .. MaxTransactions

Next ==
  \/ \E r \in Requests : Create(r)
  \/ \E id \in Ids, outcome \in Finished : Finish(id, outcome)
  \/ \E m \in Responses : Respond(m)
  \/ \E r \in Requests : OnTimerExpired(r.timer)
  \/ Cleanup

Spec == Init /\ [][Next]_vars

-----------------------------------------------------------------------------
(* Properties                                                              *)

TypeOK ==
  /\ mTransactions \in [Slots -> Transaction]
  /\ mOccupied \in [Slots -> BOOLEAN]
  /\ mTiIndex \in [TIs -> Slots \cup {NoSlot}]
  /\ mCount \in Int
  /\ tisAreShared \in BOOLEAN

\* An entry of the TI index never outlives its transaction's place in the pool:
\* it names an occupied slot that holds a dialog with that very TI.  With slots
\* reused in place, a response for the old TI could otherwise be redirected to
\* the transaction that took the slot (create(), "drop its stale TI index entry").
IndexIsSound ==
  \A ti \in TIs : mTiIndex[ti] # NoSlot =>
    /\ mOccupied[mTiIndex[ti]]
    /\ mTransactions[mTiIndex[ti]].pd \in DialogPDs
    /\ mTransactions[mTiIndex[ti]].ti = ti

\* totalCount() is the number of occupied slots through every mixture of reuse
\* in place, expiry and cleanup; it reaches the pool size exactly when no slot
\* is free.
CountAgrees == mCount = Cardinality({s \in Slots : mOccupied[s]})

\* transaction.h on match(): "Pointer to the matching pending transaction".  For a
\* caller that gives each pending dialog its own TI the response finds exactly the
\* dialog it belongs to, after any reuse of slots and TIs.
DialogIsMatched ==
  ~tisAreShared =>
    \A s \in Slots : PendingDialog(s) =>
      Match([pd |-> mTransactions[s].pd, mti |-> 0, ti |-> mTransactions[s].ti]) = s

\* transaction.h: "IDs of live transactions are never invalidated by other
\* operations."  No step moves, replaces or alters a pending transaction; all
\* that can happen to it is to finish in its slot.
LiveIdsAreStable ==
  [][\A s \in Slots : Pending(s) =>
       /\ mOccupied'[s]
       /\ \E st \in TransactionState :
            mTransactions'[s] = [mTransactions[s] EXCEPT !.state = st]]_vars

-----------------------------------------------------------------------------
(***************************************************************************)
(* The values the model checker takes: call control and SS                 *)
(* dialogs that compete for a TI, the last TI of the index, a mobility     *)
(* management transaction, and two timers.                                 *)
(***************************************************************************)
MCRequests ==
  {[pd |-> "CallControl", mti |-> 5, ti |-> 1, timer |-> 0],
   [pd |-> "CallControl", mti |-> 5, ti |-> 7, timer |-> 0],
   [pd |-> "NonCallSS", mti |-> 5, ti |-> 1, timer |-> 1],
   [pd |-> "MobilityManagement", mti |-> 5, ti |-> 0, timer |-> 1]}

MCResponses ==
  [pd : DialogPDs, mti : {5, 7}, ti : {1, 7}]
  \cup [pd : {"MobilityManagement"}, mti : {5, 7}, ti : {0}]
=============================================================================
