-------------------------- MODULE SubscriberRegistry --------------------------
(***************************************************************************)
(* SubscriberRegistry (stack/subscriber_registry.{h,cpp}) as operators on  *)
(* one registry:                                                           *)
(*   sess     address -> session, the entries of mByTMSI                   *)
(*   byIMSI   IMSI -> TMSI, byLink link key -> address                     *)
(*   active   mActiveTimerSessions, nextAuto mNextAutoTmsi                 *)
(* A session is [tmsi, id, channel, lapdmLink, timers, tx, due]: id is the *)
(* identity its context holds, tx the timers on which a transaction of the *)
(* session waits.  `due' is a ghost: what is left of the time each timer   *)
(* was started for.                                                        *)
(***************************************************************************)
EXTENDS Integers, Sequences, FiniteSets, Functions

CONSTANTS TimerIds,   \* the indexes below MAX_TIMERS in use
          Addresses,  \* entry addresses of one registry's table
          TmsiSpace,  \* the TMSIs are 0..TmsiSpace-1 (2^32 in the code)
          Imsis,
          Types, Trxs, Timeslots, \* what the channel descriptors are made of
          LinkIds     \* the LAPDm link numbers

ASSUME TimersAssumption == TimerIds \subseteq Nat /\ IsFiniteSet(TimerIds)
ASSUME TmsiAssumption ==
    /\ TmsiSpace \in Nat \ {0, 1}
    /\ Imsis \cap (0..(TmsiSpace - 1)) = {}
    /\ Addresses \subseteq Nat
ASSUME LinkAssumption ==
    /\ Trxs \subseteq 0..255 /\ Timeslots \subseteq 0..255 /\ LinkIds \subseteq 0..255
    /\ "none" \notin Types

-----------------------------------------------------------------------------
(***************************************************************************)
(* L3Timer and TimerManager (stack/l3_timer.{h,cpp}).  The timers of one   *)
(* session are a function from timer ids to the time remaining; 0 is a     *)
(* timer that is not running, as remaining() reports it.                   *)
(***************************************************************************)
NoTimers == [t \in TimerIds |-> 0]

Running(tm) == {t \in TimerIds : tm[t] > 0}

(* start(id, expiry) reconfigures the timer whether it runs or not.       *)
FaultStartKeepsRunning(tm, t, expiry) == IF tm[t] > 0 THEN tm ELSE [tm EXCEPT ![t] = expiry]
StartTimer(tm, t, expiry) == [tm EXCEPT ![t] = expiry]

StopTimer(tm, t) == [tm EXCEPT ![t] = 0]

(* L3Timer::tick of every running timer: the ones that expire stop.       *)
Expiring(tm, delta) == {t \in Running(tm) : tm[t] <= delta}
Elapse(tm, delta) == [t \in TimerIds |-> IF tm[t] <= delta THEN 0 ELSE tm[t] - delta]

(* tick(delta, span): expiries are written in index order; those past the *)
(* end of the span are re-armed for 1 ms.                                 *)
Written(tm, delta, room) ==
    {t \in Expiring(tm, delta) :
       Cardinality({u \in Expiring(tm, delta) : u < t}) < room}
TickTimers(tm, delta, room) ==
    [t \in TimerIds |-> IF t \in Expiring(tm, delta) \ Written(tm, delta, room)
                        THEN 1 ELSE Elapse(tm, delta)[t]]

(* notifyActive(): the owner's index hears only of the transitions to and *)
(* from "no timer runs".                                                  *)
Notified(index, owner, before, after) ==
    IF Running(before) = {} /\ Running(after) # {} THEN index \cup {owner}
    ELSE IF Running(before) # {} /\ Running(after) = {} THEN index \ {owner}
    ELSE index

-----------------------------------------------------------------------------
(* What assignChannel() is handed; a session without one holds NoChannel. *)
Descriptors == [type : Types, trx : Trxs, timeslot : Timeslots]
NoChannel == [type |-> "none", trx |-> 0, timeslot |-> 0]

(* The index tells neither the type nor the frequency of a channel.       *)
encodeLinkKey(trx, ts, lapdmLink) == trx * 65536 + ts * 256 + lapdmLink

(* The key a session's channel is entered under.  The code takes trx and   *)
(* timeslot from the context, which the same calls set with the channel.   *)
LinkKeys(s) ==
    IF s.channel = NoChannel THEN {}
    ELSE {encodeLinkKey(s.channel.trx, s.channel.timeslot, s.lapdmLink)}

EmptyRegistry == [sess |-> <<>>, byIMSI |-> <<>>, byLink |-> <<>>,
                  active |-> {}, nextAuto |-> 1]

Without(f, S) == Restrict(f, DOMAIN f \ S)
With(f, x, y) == [z \in DOMAIN f \cup {x} |-> IF z = x THEN y ELSE f[z]]

TmsisOf(r) == {r.sess[a].tmsi : a \in DOMAIN r.sess}
FindByTMSI(r, t) == {a \in DOMAIN r.sess : r.sess[a].tmsi = t}
FindByIMSI(r, i) == IF i \in DOMAIN r.byIMSI THEN FindByTMSI(r, r.byIMSI[i]) ELSE {}
FindByLink(r, k) == IF k \in DOMAIN r.byLink THEN {r.byLink[k]} ELSE {}

NewSession(t, id) == [tmsi |-> t, id |-> id, channel |-> NoChannel, lapdmLink |-> 0,
                      timers |-> NoTimers, tx |-> {}, due |-> NoTimers]

MayCreateByTMSI(r, t) == t # 0 /\ t \notin TmsisOf(r)
CreateByTMSI(r, a, t) == [r EXCEPT !.sess = With(@, a, NewSession(t, t))]

(* createByIMSI(): the candidates mNextAutoTmsi, +1, ... (it wraps); the  *)
(* scan gives up when it has advanced more than size + 1 times.           *)
Candidate(r, n) == (r.nextAuto + n) % TmsiSpace
Usable(r, n) == Candidate(r, n) # 0 /\ Candidate(r, n) \notin TmsisOf(r)
Scan(r) == {n \in 0..(Cardinality(TmsisOf(r)) + 1) :
              Usable(r, n) /\ \A m \in 0..(n - 1) : ~Usable(r, m)}
CreateByIMSI(r, a, i, n) ==
    [r EXCEPT !.sess = With(@, a, NewSession(Candidate(r, n), i)),
              !.byIMSI = With(@, i, Candidate(r, n)),
              !.nextAuto = Candidate(r, n + 1)]
(* The failed scan has advanced the mark too.                             *)
ScanFailed(r) == [r EXCEPT !.nextAuto = Candidate(r, Cardinality(TmsisOf(r)) + 3)]

(* releaseChannel(): drops the entry of the session's key, whoever it     *)
(* names; the link number stays.                                          *)
FaultReleaseKeepsLink(r, a) == [r EXCEPT !.sess[a].channel = NoChannel]
ReleaseChannel(r, a) ==
    [r EXCEPT !.byLink = Without(@, LinkKeys(r.sess[a])),
              !.sess[a].channel = NoChannel]

(* assignChannel(): drops the entry of the key held so far, then adds the *)
(* new one or overwrites the entry another session has there.             *)
AssignChannel(r, a, desc, link) ==
    [r EXCEPT !.byLink = With(Without(@, LinkKeys(r.sess[a])),
                              encodeLinkKey(desc.trx, desc.timeslot, link), a),
              !.sess[a].channel = desc,
              !.sess[a].lapdmLink = link]

(* remove(): the IMSI entry goes only if the context still holds an IMSI, *)
(* and it is the entry of that IMSI.                                      *)
FaultRemoveKeepsActive(r, a) ==
    LET q == ReleaseChannel(r, a)
    IN [q EXCEPT !.byIMSI = Without(@, {r.sess[a].id}), !.sess = Without(@, {a})]
FaultRemoveKeepsIMSI(r, a) ==
    LET q == ReleaseChannel(r, a)
    IN [q EXCEPT !.active = @ \ {a}, !.sess = Without(@, {a})]
RemoveSession(r, a) ==
    LET q == ReleaseChannel(r, a)
    IN [q EXCEPT !.byIMSI = Without(@, {r.sess[a].id}),
                 !.active = @ \ {a},
                 !.sess = Without(@, {a})]

Clear(r) == [EmptyRegistry EXCEPT !.nextAuto = r.nextAuto]

(* Any change of a session's timers tells the active index.               *)
SetTimers(r, a, tm) ==
    [r EXCEPT !.sess[a].timers = tm, !.active = Notified(@, a, r.sess[a].timers, tm)]

(* What the session's transactions wait on from here, with the ghost.     *)
SetWaits(r, a, tx, due) == [r EXCEPT !.sess[a].tx = tx, !.sess[a].due = due]

(* One session's turn in tickAllTimers(): its timers are ticked into a    *)
(* buffer that holds them all, its transactions hear of every expiry, and *)
(* the expiries past the room left are started again for 1 ms.            *)
FaultDropsOverflow(r, a, delta, room) ==
    LET tm == r.sess[a].timers
        q == SetTimers(r, a, Elapse(tm, delta))
    IN SetWaits(q, a, r.sess[a].tx \ Expiring(tm, delta), Elapse(r.sess[a].due, delta))
TickSession(r, a, delta, room) ==
    LET tm == r.sess[a].timers
        late == Expiring(tm, delta) \ Written(tm, delta, room)
        q == SetTimers(r, a, Elapse(tm, delta))
        p == SetTimers(q, a, [t \in TimerIds |-> IF t \in late THEN 1 ELSE Elapse(tm, delta)[t]])
    IN SetWaits(p, a, r.sess[a].tx \ Expiring(tm, delta), Elapse(r.sess[a].due, delta))
=============================================================================
