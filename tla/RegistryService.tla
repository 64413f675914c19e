--------------------------- MODULE RegistryService ---------------------------
(***************************************************************************)
(* The registry as an application uses it: a plain SubscriberRegistry (one *)
(* shard, one event loop) or a ShardedSubscriberRegistry (each shard under *)
(* its mutex, several threads).  A call on one shard is atomic (its lock); *)
(* tickAllTimers() of the sharded registry locks shard after shard, ticks  *)
(* the sessions of its snapshot one by one, and other threads call in      *)
(* between on the other shards.  `armed', `moved', `contested' and `open'  *)
(* are ghosts; `use' is what this application uses the registry for.       *)
(***************************************************************************)
EXTENDS SubscriberRegistry, FiniteSetsExt

CONSTANTS Uses,        \* what an application uses the registry for
          ShardCounts, \* the numbers of shards to consider
          Expiries,    \* the times a timer is started for
          Deltas,      \* the times a tick may report
          OutSize      \* the caller's TimerExpiry buffer

ASSUME RoomAssumption ==
    /\ OutSize \in Nat \ {0} /\ Expiries \subseteq Nat \ {0} /\ Deltas \subseteq Nat \ {0}
    /\ ShardCounts \subseteq Nat \ {0}

VARIABLES use,     \* "timers", "channels" or both: what this one does
          shards,  \* shard index -> registry
          tick,    \* a tickAllTimers() in progress: [delta, next, written, todo]
          armed,   \* <<shard, address, timer>> the application waits for
          moved,   \* IMSIs whose entry remove() can no longer tell
          contested, \* link keys assigned while another session held them
          open     \* the application still begins transactions

vars == <<use, shards, tick, armed, moved, contested, open>>

Idle == [delta |-> 0, next |-> 0, written |-> 0, todo |-> {}]
N == Cardinality(DOMAIN shards)
Sharded == N > 1

(* hashTMSI(): some fixed spread of the TMSIs over the shards.            *)
ShardOf(t) == t % N

(* The event loop of a plain registry makes one call at a time; a shard   *)
(* is locked while the tick is among its sessions.                        *)
Free(i) == IF Sharded THEN tick.todo = {} \/ tick.next # i ELSE tick = Idle

(* The address of a new session: a recycled one as early as can be.       *)
FreeAddresses(i) == Addresses \ DOMAIN shards[i].sess
NewAddress(i) == Min(FreeAddresses(i))
Sessions == {p \in (DOMAIN shards) \X Addresses : p[2] \in DOMAIN shards[p[1]].sess}
Session(p) == shards[p[1]].sess[p[2]]

(* The sessions that hold a key; the contested keys that others than p    *)
(* hold.                                                                  *)
Holders(k) == {p \in Sessions : k \in LinkKeys(Session(p))}
OthersHold(p, k) == Holders(k) \ {p} # {}
Contested(p) == {k \in contested : OthersHold(p, k)}

ArmedOf(p) == {w \in armed : <<w[1], w[2]>> = p}

Init ==
    /\ use \in Uses
    /\ \E n \in ShardCounts : shards = [i \in 0..(n - 1) |-> EmptyRegistry]
    /\ tick = Idle
    /\ armed = {} /\ moved = {} /\ contested = {}
    /\ open = TRUE

Create(t) ==
    /\ Free(ShardOf(t)) /\ MayCreateByTMSI(shards[ShardOf(t)], t)
    /\ FreeAddresses(ShardOf(t)) # {}
    /\ shards' = [shards EXCEPT ![ShardOf(t)] = CreateByTMSI(@, NewAddress(ShardOf(t)), t)]
    /\ UNCHANGED <<use, tick, armed, moved, contested, open>>

(* Only the plain registry creates by IMSI.                               *)
CreateWithIMSI(i) ==
    /\ ~Sharded /\ Free(0) /\ i \notin DOMAIN shards[0].byIMSI
    /\ IF Scan(shards[0]) = {}
       THEN shards' = [shards EXCEPT ![0] = ScanFailed(@)]
       ELSE /\ FreeAddresses(0) # {}
            /\ \E n \in Scan(shards[0]) :
                 shards' = [shards EXCEPT ![0] = CreateByIMSI(@, NewAddress(0), i, n)]
    /\ UNCHANGED <<use, tick, armed, moved, contested, open>>

(* session->context.setTMSI() / setIMSI(): the index is not told.         *)
SetIdentity(p, id) ==
    /\ p \in Sessions /\ Free(p[1]) /\ Session(p).id # id
    /\ shards' = [shards EXCEPT ![p[1]].sess[p[2]].id = id]
    /\ moved' = moved \cup ({Session(p).id, id} \cap Imsis)
    /\ UNCHANGED <<use, tick, armed, contested, open>>

(* assignChannel() takes any channel and link, also one another session   *)
(* holds; their key is contested from then until at most one holds it.    *)
Assign(p, desc, link) ==
    LET k == encodeLinkKey(desc.trx, desc.timeslot, link)
    IN /\ "channels" \in use /\ p \in Sessions /\ Free(p[1])
       /\ shards' = [shards EXCEPT ![p[1]] = AssignChannel(@, p[2], desc, link)]
       /\ contested' = Contested(p) \cup (IF OthersHold(p, k) THEN {k} ELSE {})
       /\ UNCHANGED <<use, tick, armed, moved, open>>

Release(p) ==
    /\ p \in Sessions /\ Free(p[1]) /\ Session(p).channel # NoChannel
    /\ shards' = [shards EXCEPT ![p[1]] = ReleaseChannel(@, p[2])]
    /\ contested' = Contested(p)
    /\ UNCHANGED <<use, tick, armed, moved, open>>

RemoveFrom(p) ==
    /\ p \in Sessions /\ Free(p[1])
    /\ shards' = [shards EXCEPT ![p[1]] = RemoveSession(@, p[2])]
    /\ contested' = Contested(p)
    /\ armed' = armed \ ArmedOf(p)
    /\ UNCHANGED <<use, tick, moved, open>>

ClearAll ==
    /\ ~Sharded /\ Free(0) /\ Sessions # {}
    /\ shards' = [shards EXCEPT ![0] = Clear(@)]
    /\ armed' = {} /\ moved' = {} /\ contested' = {}
    /\ UNCHANGED <<use, tick, open>>

(* A transaction is begun with its supervision timer; a start of a timer  *)
(* that runs begins it anew.                                              *)
Begin(p, t, expiry) ==
    /\ "timers" \in use /\ open /\ p \in Sessions /\ Free(p[1])
    /\ LET r == shards[p[1]]
           q == SetTimers(r, p[2], StartTimer(Session(p).timers, t, expiry))
       IN shards' = [shards EXCEPT ![p[1]] =
            SetWaits(q, p[2], Session(p).tx \cup {t}, [Session(p).due EXCEPT ![t] = expiry])]
    /\ armed' = armed \cup {<<p[1], p[2], t>>}
    /\ UNCHANGED <<use, tick, moved, contested, open>>

(* From some point on the application begins no more of them.             *)
Close ==
    /\ open /\ armed # {}
    /\ open' = FALSE
    /\ UNCHANGED <<use, shards, tick, armed, moved, contested>>

(* The answer arrives: the transaction ends and its timer is stopped.     *)
Finish(p, t) ==
    /\ p \in Sessions /\ Free(p[1]) /\ <<p[1], p[2], t>> \in armed
    /\ LET q == SetTimers(shards[p[1]], p[2], StopTimer(Session(p).timers, t))
       IN shards' = [shards EXCEPT ![p[1]] =
            SetWaits(q, p[2], Session(p).tx \ {t}, [Session(p).due EXCEPT ![t] = 0])]
    /\ armed' = armed \ {<<p[1], p[2], t>>}
    /\ UNCHANGED <<use, tick, moved, contested, open>>

(* The application ticks one session itself, with its own short span.     *)
TickOne(p, delta) ==
    /\ p \in Sessions /\ Free(p[1]) /\ Running(Session(p).timers) # {}
    /\ LET tm == Session(p).timers
           q == SetTimers(shards[p[1]], p[2], TickTimers(tm, delta, OutSize))
       IN /\ shards' = [shards EXCEPT ![p[1]] =
                SetWaits(q, p[2], Session(p).tx \ Written(tm, delta, OutSize),
                         Elapse(Session(p).due, delta))]
          /\ armed' = armed \ {<<p[1], p[2], t>> : t \in Written(tm, delta, OutSize)}
    /\ UNCHANGED <<use, tick, moved, contested, open>>

TickAllTimers(delta) ==
    /\ tick = Idle
    /\ tick' = [Idle EXCEPT !.delta = delta]
    /\ UNCHANGED <<use, shards, armed, moved, contested, open>>

(* The shard after this one, or the return from the call.                 *)
FaultAdvanced(written) == Idle
Advanced(written) ==
    IF tick.next = N - 1 THEN Idle
    ELSE [tick EXCEPT !.next = @ + 1, !.written = written, !.todo = {}]

(* The next shard is locked and the snapshot of its active sessions made; *)
(* a full buffer ends the call instead.                                   *)
TickShard ==
    /\ tick # Idle /\ tick.todo = {}
    /\ tick' = IF tick.written = OutSize THEN Idle
               ELSE IF shards[tick.next].active = {} THEN Advanced(tick.written)
               ELSE [tick EXCEPT !.todo = shards[tick.next].active]
    /\ UNCHANGED <<use, shards, armed, moved, contested, open>>

(* The turn of a session of the snapshot, in whatever order the set has;  *)
(* the last one unlocks the shard.                                        *)
TickTurn(a) ==
    LET i == tick.next
        room == OutSize - tick.written
        out == Written(shards[i].sess[a].timers, tick.delta, room)
        written == tick.written + Cardinality(out)
    IN /\ a \in tick.todo
       /\ shards' = [shards EXCEPT ![i] = TickSession(@, a, tick.delta, room)]
       /\ armed' = armed \ {<<i, a, t>> : t \in out}
       /\ tick' = IF tick.todo = {a} THEN Advanced(written)
                  ELSE [tick EXCEPT !.todo = @ \ {a}, !.written = written]
       /\ UNCHANGED <<use, moved, contested, open>>

Next ==
    \/ \E t \in 0..(TmsiSpace - 1) : Create(t)
    \/ \E i \in Imsis : CreateWithIMSI(i)
    \/ \E p \in Sessions :
         \/ \E id \in {Session(p).tmsi} \cup Imsis : SetIdentity(p, id)
         \/ \E desc \in Descriptors, link \in LinkIds : Assign(p, desc, link)
         \/ Release(p)
         \/ RemoveFrom(p)
         \/ \E t \in TimerIds : Finish(p, t) \/ \E e \in Expiries : Begin(p, t, e)
         \/ \E delta \in Deltas : TickOne(p, delta)
    \/ ClearAll
    \/ Close
    \/ \E delta \in Deltas : TickAllTimers(delta)
    \/ TickShard
    \/ \E a \in tick.todo : TickTurn(a)

Spec == Init /\ [][Next]_vars

-----------------------------------------------------------------------------
(* tickAllTimers() reaches exactly the sessions with a running timer: the *)
(* active index never names a removed session, whose address another may  *)
(* hold by now, and never misses one (handleTimerActive, notifyActive).   *)
ActiveIndexExact ==
    \A i \in DOMAIN shards :
      shards[i].active = {a \in DOMAIN shards[i].sess : Running(shards[i].sess[a].timers) # {}}

(* "No expiry event is ever silently dropped": whatever the output buffer *)
(* holds, a timer the application started and neither stopped nor got     *)
(* reported is still running (tick, tickAllTimers, start, remove).        *)
NoExpiryLost ==
    armed = {w \in (DOMAIN shards) \X Addresses \X TimerIds :
               <<w[1], w[2]>> \in Sessions /\ Session(<<w[1], w[2]>>).timers[w[3]] > 0}

(* A re-armed expiry times out nobody else: a transaction waits on its    *)
(* timer until the time it was begun for has passed, also when it was     *)
(* begun while an earlier expiry of the same timer was still unreported.  *)
TimeoutNotEarly ==
    \A p \in Sessions, t \in TimerIds :
      Session(p).due[t] > 0 => t \in Session(p).tx /\ Session(p).timers[t] = Session(p).due[t]

(* Routing by link: whatever a link index names holds that link, in its   *)
(* own shard, and as long as no link was assigned to a second session     *)
(* while another held it, the holder of a link is found by it and nobody  *)
(* else, through reassignments, releases and removals in any shard        *)
(* (assignChannel, releaseChannel, remove, findByLink).                   *)
Found(k) == {p \in (DOMAIN shards) \X Addresses : p[2] \in FindByLink(shards[p[1]], k)}
Keys == {encodeLinkKey(trx, ts, link) : trx \in Trxs, ts \in Timeslots, link \in LinkIds}
LinkIndexExact ==
    \A k \in Keys :
      /\ Found(k) \subseteq Holders(k)
      /\ k \notin contested => Found(k) = Holders(k) /\ Cardinality(Found(k)) <= 1

(* createByIMSI() gives up only when no TMSI is left.                     *)
ScanFindsFree ==
    \A i \in DOMAIN shards :
      Scan(shards[i]) = {} => 1..(TmsiSpace - 1) \subseteq TmsisOf(shards[i])

(* As long as no session's identity was changed behind the index, the     *)
(* IMSI finds exactly the session that has it, and a removed subscriber   *)
(* can come back while a TMSI is left (createByIMSI, findByIMSI, remove). *)
ImsiIndexExact ==
    /\ ScanFindsFree
    /\ \A i \in Imsis \ moved :
         /\ FindByIMSI(shards[0], i) = {a \in DOMAIN shards[0].sess : shards[0].sess[a].id = i}
         /\ i \in DOMAIN shards[0].byIMSI <=> FindByIMSI(shards[0], i) # {}

(* Once the application begins no more transactions, every timer that    *)
(* runs is in the end reported, stopped or removed, whatever the buffer   *)
(* holds and in whichever shard it is, provided that the event loop goes  *)
(* on calling tickAllTimers() and the calls return.                       *)
KeepsTicking == []<>(tick # Idle) /\ []<>(tick = Idle)
EveryExpiryReported == KeepsTicking => (~open ~> armed = {})
=============================================================================
