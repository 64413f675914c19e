--------------------------- MODULE RegistryProofs ---------------------------
(***************************************************************************)
(* Theorems about RegistryService, for every number of shards, sessions,   *)
(* TMSIs, IMSIs, timers and links, every buffer size and all spans: the    *)
(* indexes of every shard agree with its sessions, no expiry is lost, no   *)
(* transaction times out early, and a link finds its holder.               *)
(*                                                                         *)
(* The argument goes through one registry at a time.  First, what each     *)
(* operation on a registry does to its fields; then, that it keeps what    *)
(* holds of one registry (Sound, WaitsAgree, ImsisAgree); last, what the   *)
(* shards share: an uncontested link has one holder among all sessions,    *)
(* which the index of its shard names (HoldersNamed), the ghost of armed   *)
(* timers is that of the running ones (Runs), and the sessions of a tick   *)
(* in progress are still there.                                            *)
(***************************************************************************)
EXTENDS RegistryService, FiniteSetTheorems, NaturalsInduction, WellFoundedInduction,
        SequenceTheorems, TLAPS

-----------------------------------------------------------------------------
(* Types, and what the operations on one registry do to its fields         *)

\* The functions from a part of A to B.
Partial(A, B) == UNION {[D -> B] : D \in SUBSET A}

\* The TMSIs a session may have: 0 stands for none.
Tmsis == 1..(TmsiSpace - 1)

\* The sessions of a registry.
SessionState == [tmsi : Tmsis, id : Tmsis \cup Imsis, channel : Descriptors \cup {NoChannel},
                 lapdmLink : Nat, timers : [TimerIds -> Nat], tx : SUBSET TimerIds, due : [TimerIds -> Nat]]

\* The registries: every index names what it should by type alone.
Registry == [sess : Partial(Addresses, SessionState), byIMSI : Partial(Imsis, Tmsis),
             byLink : Partial(Nat, Addresses), active : SUBSET Addresses,
             nextAuto : 0..(TmsiSpace - 1)]

\* Membership in Partial by the domain and the values.
LEMMA PartialMember ==
  ASSUME NEW A, NEW B, NEW f
  PROVE  f \in Partial(A, B) <=> DOMAIN f \subseteq A /\ f \in [DOMAIN f -> B]
  BY DEF Partial

\* A session's link keys come from its channel and its link number alone.
LEMMA KeysKept ==
  ASSUME NEW s, NEW u, u.channel = s.channel, u.lapdmLink = s.lapdmLink
  PROVE  LinkKeys(u) = LinkKeys(s)
  BY DEF LinkKeys

\* The TRX and the timeslot of a channel and the link numbers are numbers.
LEMMA ChannelNumbers ==
  /\ \A c \in Descriptors : c.trx \in Nat /\ c.timeslot \in Nat
  /\ LinkIds \subseteq Nat
<1>1. 0..255 \subseteq Nat
  OBVIOUS
<1>2. Trxs \subseteq Nat /\ Timeslots \subseteq Nat /\ LinkIds \subseteq Nat
  BY <1>1, LinkAssumption
<1> QED
  BY <1>2 DEF Descriptors

\* Link keys are numbers, and a channel comes with one.
LEMMA KeysTyped ==
  ASSUME NEW s \in SessionState
  PROVE  /\ LinkKeys(s) \in SUBSET Nat
         /\ \A j, k \in LinkKeys(s) : j = k
         /\ s.channel = NoChannel <=> LinkKeys(s) = {}
<1>1. CASE s.channel = NoChannel
  BY <1>1 DEF LinkKeys
<1>2. CASE s.channel # NoChannel
  <2>1. s.channel \in Descriptors /\ s.lapdmLink \in Nat
    BY <1>2 DEF SessionState
  <2>2. s.channel.trx \in Nat /\ s.channel.timeslot \in Nat
    BY <2>1, ChannelNumbers
  <2>3. encodeLinkKey(s.channel.trx, s.channel.timeslot, s.lapdmLink) \in Nat
    BY <2>1, <2>2 DEF encodeLinkKey
  <2> QED
    BY <1>2, <2>3 DEF LinkKeys
<1> QED
  BY <1>1, <1>2

\* The key of a channel and a link is a number.
LEMMA KeyIsNat ==
  ASSUME NEW c \in Descriptors, NEW l \in LinkIds
  PROVE  l \in Nat /\ encodeLinkKey(c.trx, c.timeslot, l) \in Nat
<1>1. c.trx \in Nat /\ c.timeslot \in Nat /\ l \in Nat
  BY ChannelNumbers
<1> QED
  BY <1>1 DEF encodeLinkKey

\* The session at a has the links K.
LinksOf(r, a, K) == LinkKeys(r.sess[a]) = K

\* SetTimers changes the timers of one session, and the active index.
LEMMA SetTimersFields ==
  ASSUME NEW r \in Registry, NEW a \in DOMAIN r.sess, NEW tm \in [TimerIds -> Nat],
         NEW q, q = SetTimers(r, a, tm)
  PROVE  /\ q \in Registry
         /\ DOMAIN q.sess = DOMAIN r.sess
         /\ \A b \in DOMAIN r.sess : b # a => q.sess[b] = r.sess[b]
         /\ q.sess[a].tmsi = r.sess[a].tmsi
         /\ q.sess[a].id = r.sess[a].id
         /\ LinksOf(q, a, LinkKeys(r.sess[a]))
         /\ q.sess[a].timers = tm
         /\ q.sess[a].tx = r.sess[a].tx
         /\ q.sess[a].due = r.sess[a].due
         /\ q.byIMSI = r.byIMSI /\ q.byLink = r.byLink /\ q.nextAuto = r.nextAuto
         /\ q.active = Notified(r.active, a, r.sess[a].timers, tm)
<1>1. r.sess \in Partial(Addresses, SessionState)
  BY DEF Registry
<1>2. DOMAIN r.sess \subseteq Addresses /\ r.sess \in [DOMAIN r.sess -> SessionState]
  BY <1>1, PartialMember
<1>3. r.sess[a] \in SessionState
  BY <1>2
<1> DEFINE s == [r.sess[a] EXCEPT !.timers = tm]
<1>4. s \in SessionState
  BY <1>3 DEF SessionState
<1>5. [r.sess EXCEPT ![a] = s] \in Partial(Addresses, SessionState)
  BY <1>2, <1>4, PartialMember
<1>6. q = [r EXCEPT !.sess = [r.sess EXCEPT ![a] = s],
                    !.active = Notified(r.active, a, r.sess[a].timers, tm)]
  BY DEF SetTimers, Registry
<1>7. Notified(r.active, a, r.sess[a].timers, tm) \in SUBSET Addresses
  BY <1>2 DEF Notified, Registry
<1>8. q \in Registry
  BY <1>5, <1>6, <1>7 DEF Registry
<1>9. LinkKeys(s) = LinkKeys(r.sess[a])
  BY <1>3, KeysKept DEF SessionState
<1>10. q.sess[a] = s
  BY <1>2, <1>6 DEF Registry
<1> QED
  BY <1>2, <1>3, <1>6, <1>8, <1>9, <1>10 DEF Registry, SessionState, LinksOf

\* The fields of the sessions of a registry.
LEMMA SessionTyped ==
  ASSUME NEW r \in Registry
  PROVE  /\ DOMAIN r.sess \subseteq Addresses
         /\ \A a \in DOMAIN r.sess :
              /\ r.sess[a] \in SessionState
              /\ r.sess[a].tmsi \in Tmsis
              /\ r.sess[a].id \in Tmsis \cup Imsis
              /\ LinkKeys(r.sess[a]) \in SUBSET Nat
              /\ r.sess[a].timers \in [TimerIds -> Nat]
              /\ r.sess[a].tx \subseteq TimerIds
              /\ r.sess[a].due \in [TimerIds -> Nat]
<1>1. r.sess \in Partial(Addresses, SessionState)
  BY DEF Registry
<1>2. DOMAIN r.sess \subseteq Addresses /\ r.sess \in [DOMAIN r.sess -> SessionState]
  BY <1>1, PartialMember
<1>3. \A a \in DOMAIN r.sess : LinkKeys(r.sess[a]) \in SUBSET Nat
  BY <1>2, KeysTyped
<1> QED
  BY <1>2, <1>3 DEF SessionState

\* SetWaits changes what one session waits for.
LEMMA SetWaitsFields ==
  ASSUME NEW r \in Registry, NEW a \in DOMAIN r.sess,
         NEW tx \in SUBSET TimerIds, NEW due \in [TimerIds -> Nat],
         NEW q, q = SetWaits(r, a, tx, due)
  PROVE  /\ q \in Registry
         /\ DOMAIN q.sess = DOMAIN r.sess
         /\ \A b \in DOMAIN r.sess : b # a => q.sess[b] = r.sess[b]
         /\ q.sess[a].tmsi = r.sess[a].tmsi
         /\ q.sess[a].id = r.sess[a].id
         /\ LinksOf(q, a, LinkKeys(r.sess[a]))
         /\ q.sess[a].timers = r.sess[a].timers
         /\ q.sess[a].tx = tx
         /\ q.sess[a].due = due
         /\ q.byIMSI = r.byIMSI /\ q.byLink = r.byLink /\ q.nextAuto = r.nextAuto
         /\ q.active = r.active
<1>1. r.sess \in Partial(Addresses, SessionState)
  BY DEF Registry
<1>2. DOMAIN r.sess \subseteq Addresses /\ r.sess \in [DOMAIN r.sess -> SessionState]
  BY <1>1, PartialMember
<1>3. r.sess[a] \in SessionState
  BY <1>2
<1> DEFINE s == [r.sess[a] EXCEPT !.tx = tx, !.due = due]
<1>4. s \in SessionState
  BY <1>3 DEF SessionState
<1>5. [r.sess EXCEPT ![a] = s] \in Partial(Addresses, SessionState)
  BY <1>2, <1>4, PartialMember
<1>6. q = [r EXCEPT !.sess = [r.sess EXCEPT ![a] = s]]
  <2>1. q = [[r EXCEPT !.sess[a].tx = tx] EXCEPT !.sess[a].due = due]
    BY DEF SetWaits
  <2> QED
    BY <2>1, <1>2, <1>3 DEF Registry, SessionState
<1>7. /\ q.sess = [r.sess EXCEPT ![a] = s]
      /\ q.byIMSI = r.byIMSI /\ q.byLink = r.byLink /\ q.nextAuto = r.nextAuto
      /\ q.active = r.active
  BY <1>6 DEF Registry
<1>8. q \in Registry
  BY <1>5, <1>6 DEF Registry
<1>9. /\ s.tmsi = r.sess[a].tmsi /\ s.id = r.sess[a].id /\ LinkKeys(s) = LinkKeys(r.sess[a])
      /\ s.timers = r.sess[a].timers /\ s.tx = tx /\ s.due = due
  BY <1>3, KeysKept DEF SessionState
<1> HIDE DEF s
<1> QED
  BY <1>2, <1>7, <1>8, <1>9 DEF LinksOf

\* Without drops entries and keeps the others.
LEMMA WithoutFields ==
  ASSUME NEW f, NEW S
  PROVE  /\ DOMAIN Without(f, S) = DOMAIN f \ S
         /\ \A x \in DOMAIN f \ S : Without(f, S)[x] = f[x]
  BY DEF Without, Restrict

\* Without keeps the type of an index.
LEMMA WithoutTyped ==
  ASSUME NEW A, NEW B, NEW f \in Partial(A, B), NEW S
  PROVE  Without(f, S) \in Partial(A, B)
<1>1. DOMAIN f \subseteq A /\ f \in [DOMAIN f -> B]
  BY PartialMember
<1> QED
  BY <1>1, PartialMember DEF Without, Restrict

\* With adds or overwrites one entry.
LEMMA WithFields ==
  ASSUME NEW f, NEW x, NEW y
  PROVE  /\ DOMAIN With(f, x, y) = DOMAIN f \cup {x}
         /\ With(f, x, y)[x] = y
         /\ \A z \in DOMAIN f : z # x => With(f, x, y)[z] = f[z]
  BY DEF With

\* With keeps the type of an index.
LEMMA WithTyped ==
  ASSUME NEW A, NEW B, NEW f \in Partial(A, B), NEW x \in A, NEW y \in B
  PROVE  With(f, x, y) \in Partial(A, B)
<1>1. DOMAIN f \subseteq A /\ f \in [DOMAIN f -> B]
  BY PartialMember
<1> QED
  BY <1>1, PartialMember DEF With

\* No channel is the absent one.
LEMMA NoChannelIsNone == NoChannel \notin Descriptors
  BY LinkAssumption DEF NoChannel, Descriptors

\* A new session has no channel, no timer and no transaction.
LEMMA NewSessionFields ==
  ASSUME NEW t \in Tmsis, NEW id \in Tmsis \cup Imsis, NEW s, s = NewSession(t, id)
  PROVE  /\ s \in SessionState
         /\ s.tmsi = t /\ s.id = id /\ LinkKeys(s) = {} /\ s.tx = {}
         /\ \A u \in TimerIds : s.timers[u] = 0 /\ s.due[u] = 0
  BY DEF NewSession, SessionState, NoTimers, LinkKeys

\* CreateByTMSI adds one session and touches no index.
LEMMA CreateByTMSIFields ==
  ASSUME NEW r \in Registry, NEW a \in Addresses \ DOMAIN r.sess, NEW t \in Tmsis,
         NEW q, q = CreateByTMSI(r, a, t)
  PROVE  /\ q \in Registry
         /\ DOMAIN q.sess = DOMAIN r.sess \cup {a}
         /\ \A b \in DOMAIN r.sess : q.sess[b] = r.sess[b]
         /\ q.sess[a] = NewSession(t, t)
         /\ q.byIMSI = r.byIMSI /\ q.byLink = r.byLink /\ q.nextAuto = r.nextAuto
         /\ q.active = r.active
<1>1. r.sess \in Partial(Addresses, SessionState)
  BY DEF Registry
<1>2. NewSession(t, t) \in SessionState
  BY NewSessionFields
<1>3. q = [r EXCEPT !.sess = With(r.sess, a, NewSession(t, t))]
  BY DEF CreateByTMSI, Registry
<1>4. /\ With(r.sess, a, NewSession(t, t)) \in Partial(Addresses, SessionState)
      /\ DOMAIN With(r.sess, a, NewSession(t, t)) = DOMAIN r.sess \cup {a}
      /\ With(r.sess, a, NewSession(t, t))[a] = NewSession(t, t)
      /\ \A b \in DOMAIN r.sess : b # a => With(r.sess, a, NewSession(t, t))[b] = r.sess[b]
  <2>1. a \in Addresses
    OBVIOUS
  <2>2. With(r.sess, a, NewSession(t, t)) \in Partial(Addresses, SessionState)
    BY <2>1, <1>1, <1>2, WithTyped
  <2> QED
    BY <2>2 DEF With
<1>5. q \in Registry
  BY <1>3, <1>4 DEF Registry
<1>6. q.sess = With(r.sess, a, NewSession(t, t))
  BY <1>3 DEF Registry
<1> QED
  BY <1>3, <1>4, <1>5, <1>6 DEF Registry

\* CreateByIMSI adds one session and its IMSI entry.
LEMMA CreateByIMSIFields ==
  ASSUME NEW r \in Registry, NEW a \in Addresses \ DOMAIN r.sess, NEW i \in Imsis,
         NEW n \in Nat, Candidate(r, n) \in Tmsis, Candidate(r, n + 1) \in 0..(TmsiSpace - 1),
         NEW q, q = CreateByIMSI(r, a, i, n)
  PROVE  /\ q \in Registry
         /\ DOMAIN q.sess = DOMAIN r.sess \cup {a}
         /\ \A b \in DOMAIN r.sess : q.sess[b] = r.sess[b]
         /\ q.sess[a] = NewSession(Candidate(r, n), i)
         /\ q.byIMSI = With(r.byIMSI, i, Candidate(r, n))
         /\ q.byLink = r.byLink
         /\ q.active = r.active
<1> DEFINE t == Candidate(r, n)
           next == Candidate(r, n + 1)
<1> HIDE DEF t, next
<1>1. r.sess \in Partial(Addresses, SessionState) /\ r.byIMSI \in Partial(Imsis, Tmsis)
  BY DEF Registry
<1>2. t \in Tmsis /\ next \in 0..(TmsiSpace - 1)
  BY DEF t, next
<1>3. NewSession(t, i) \in SessionState
  BY <1>2, NewSessionFields
<1>4. With(r.byIMSI, i, t) \in Partial(Imsis, Tmsis)
  BY <1>1, <1>2, WithFields, WithTyped
<1>5. q = [r EXCEPT !.sess = With(r.sess, a, NewSession(t, i)), !.byIMSI = With(r.byIMSI, i, t),
                    !.nextAuto = next]
  BY DEF CreateByIMSI, Registry, t, next
<1>6. /\ With(r.sess, a, NewSession(t, i)) \in Partial(Addresses, SessionState)
      /\ DOMAIN With(r.sess, a, NewSession(t, i)) = DOMAIN r.sess \cup {a}
      /\ With(r.sess, a, NewSession(t, i))[a] = NewSession(t, i)
      /\ \A b \in DOMAIN r.sess : b # a => With(r.sess, a, NewSession(t, i))[b] = r.sess[b]
  <2>1. a \in Addresses
    OBVIOUS
  <2>2. With(r.sess, a, NewSession(t, i)) \in Partial(Addresses, SessionState)
    BY <2>1, <1>1, <1>3, WithTyped
  <2> QED
    BY <2>2 DEF With
<1>7. q \in Registry
  BY <1>2, <1>4, <1>5, <1>6 DEF Registry
<1>8. /\ q.sess = With(r.sess, a, NewSession(t, i)) /\ q.byIMSI = With(r.byIMSI, i, t)
      /\ q.byLink = r.byLink /\ q.active = r.active
  BY <1>5 DEF Registry
<1> QED
  BY <1>6, <1>7, <1>8 DEF t

\* One registry after the channel and the link of the session at a are set.
ChannelPut(r, a, c, l, links) ==
  [r EXCEPT !.byLink = links, !.sess[a].channel = c, !.sess[a].lapdmLink = l]

\* ChannelPut changes the channel and the link of one session, and the link index.
LEMMA ChannelSet ==
  ASSUME NEW r \in Registry, NEW a \in DOMAIN r.sess, NEW c \in Descriptors \cup {NoChannel}, NEW l \in Nat,
         NEW links \in Partial(Nat, Addresses),
         NEW q, q = ChannelPut(r, a, c, l, links)
  PROVE  /\ q \in Registry
         /\ DOMAIN q.sess = DOMAIN r.sess
         /\ \A b \in DOMAIN r.sess : b # a => q.sess[b] = r.sess[b]
         /\ q.sess[a].tmsi = r.sess[a].tmsi
         /\ q.sess[a].id = r.sess[a].id
         /\ q.sess[a].channel = c /\ q.sess[a].lapdmLink = l
         /\ q.sess[a].timers = r.sess[a].timers
         /\ q.sess[a].tx = r.sess[a].tx
         /\ q.sess[a].due = r.sess[a].due
         /\ q.byIMSI = r.byIMSI /\ q.byLink = links /\ q.nextAuto = r.nextAuto
         /\ q.active = r.active
<1>1. r.sess \in Partial(Addresses, SessionState)
  BY DEF Registry
<1>2. DOMAIN r.sess \subseteq Addresses /\ r.sess \in [DOMAIN r.sess -> SessionState]
  BY <1>1, PartialMember
<1>3. r.sess[a] \in SessionState
  BY <1>2
<1> DEFINE s == [r.sess[a] EXCEPT !.channel = c, !.lapdmLink = l]
<1>4. s \in SessionState
  BY <1>3 DEF SessionState
<1>5. [r.sess EXCEPT ![a] = s] \in Partial(Addresses, SessionState)
  BY <1>2, <1>4, PartialMember
<1>6. q = [r EXCEPT !.byLink = links, !.sess = [r.sess EXCEPT ![a] = s]]
  BY DEF ChannelPut, Registry
<1>7. /\ q.sess = [r.sess EXCEPT ![a] = s]
      /\ q.byIMSI = r.byIMSI /\ q.byLink = links /\ q.nextAuto = r.nextAuto
      /\ q.active = r.active
  BY <1>6 DEF Registry
<1>8. q \in Registry
  BY <1>5, <1>6 DEF Registry
<1>9. /\ s.tmsi = r.sess[a].tmsi /\ s.id = r.sess[a].id /\ s.channel = c /\ s.lapdmLink = l
      /\ s.timers = r.sess[a].timers /\ s.tx = r.sess[a].tx /\ s.due = r.sess[a].due
  BY <1>3 DEF SessionState
<1> HIDE DEF s
<1> QED
  BY <1>2, <1>7, <1>8, <1>9

\* ReleaseChannel takes the channel and the entry of its key.
LEMMA ReleaseChannelFields ==
  ASSUME NEW r \in Registry, NEW a \in DOMAIN r.sess, NEW q, q = ReleaseChannel(r, a)
  PROVE  /\ q \in Registry
         /\ DOMAIN q.sess = DOMAIN r.sess
         /\ \A b \in DOMAIN r.sess : b # a => q.sess[b] = r.sess[b]
         /\ q.sess[a].tmsi = r.sess[a].tmsi
         /\ q.sess[a].id = r.sess[a].id
         /\ LinksOf(q, a, {})
         /\ q.sess[a].timers = r.sess[a].timers
         /\ q.sess[a].tx = r.sess[a].tx
         /\ q.sess[a].due = r.sess[a].due
         /\ q.byIMSI = r.byIMSI /\ q.nextAuto = r.nextAuto /\ q.active = r.active
         /\ DOMAIN q.byLink = DOMAIN r.byLink \ LinkKeys(r.sess[a])
         /\ \A k \in DOMAIN q.byLink : q.byLink[k] = r.byLink[k]
<1> DEFINE links == Without(r.byLink, LinkKeys(r.sess[a]))
<1>1. r.byLink \in Partial(Nat, Addresses)
  BY DEF Registry
<1>2. /\ links \in Partial(Nat, Addresses)
      /\ DOMAIN links = DOMAIN r.byLink \ LinkKeys(r.sess[a])
      /\ \A k \in DOMAIN r.byLink \ LinkKeys(r.sess[a]) : links[k] = r.byLink[k]
  BY <1>1, WithoutFields, WithoutTyped
<1>3. r.sess[a] \in SessionState
  BY SessionTyped
<1>4. r.sess[a].lapdmLink \in Nat
  BY <1>3 DEF SessionState
<1>5. q = ChannelPut(r, a, NoChannel, r.sess[a].lapdmLink, links)
  <2>1. DOMAIN r.sess \subseteq Addresses /\ r.sess \in [DOMAIN r.sess -> SessionState]
    BY PartialMember DEF Registry
  <2>2. [r.sess[a] EXCEPT !.channel = NoChannel]
          = [r.sess[a] EXCEPT !.channel = NoChannel, !.lapdmLink = r.sess[a].lapdmLink]
    BY <1>3 DEF SessionState
  <2> QED
    BY <2>1, <2>2 DEF ReleaseChannel, ChannelPut, Registry
<1> HIDE DEF links
<1>6. q.sess[a].channel = NoChannel
  <2>1. NoChannel \in Descriptors \cup {NoChannel}
    OBVIOUS
  <2>2. ASSUME NEW c \in Descriptors \cup {NoChannel}, q = ChannelPut(r, a, c, r.sess[a].lapdmLink, links)
        PROVE  q.sess[a].channel = c
    BY <1>2, <1>4, <2>2, ChannelSet
  <2> QED
    BY <1>5, <2>1, <2>2
<1>7. LinksOf(q, a, {})
  BY <1>6 DEF LinkKeys, LinksOf
<1> QED
  BY <1>2, <1>4, <1>5, <1>7, ChannelSet

\* AssignChannel moves the session and its link entry to the new key.
LEMMA AssignChannelFields ==
  ASSUME NEW r \in Registry, NEW a \in DOMAIN r.sess, NEW c \in Descriptors, NEW l \in LinkIds,
         NEW q, q = AssignChannel(r, a, c, l),
         NEW k, k = encodeLinkKey(c.trx, c.timeslot, l)
  PROVE  /\ q \in Registry
         /\ DOMAIN q.sess = DOMAIN r.sess
         /\ \A b \in DOMAIN r.sess : b # a => q.sess[b] = r.sess[b]
         /\ q.sess[a].tmsi = r.sess[a].tmsi
         /\ q.sess[a].id = r.sess[a].id
         /\ LinksOf(q, a, {k})
         /\ q.sess[a].timers = r.sess[a].timers
         /\ q.sess[a].tx = r.sess[a].tx
         /\ q.sess[a].due = r.sess[a].due
         /\ q.byIMSI = r.byIMSI /\ q.nextAuto = r.nextAuto /\ q.active = r.active
         /\ DOMAIN q.byLink = (DOMAIN r.byLink \ LinkKeys(r.sess[a])) \cup {k}
         /\ q.byLink[k] = a
         /\ \A j \in DOMAIN q.byLink : j # k => q.byLink[j] = r.byLink[j]
<1> DEFINE rest == Without(r.byLink, LinkKeys(r.sess[a]))
           links == With(rest, k, a)
<1>1. r.byLink \in Partial(Nat, Addresses) /\ a \in Addresses
  BY SessionTyped DEF Registry
<1>2. /\ rest \in Partial(Nat, Addresses)
      /\ DOMAIN rest = DOMAIN r.byLink \ LinkKeys(r.sess[a])
      /\ \A j \in DOMAIN r.byLink \ LinkKeys(r.sess[a]) : rest[j] = r.byLink[j]
  BY <1>1, WithoutFields, WithoutTyped
<1>3. k \in Nat /\ l \in Nat
  BY KeyIsNat
<1>4. q = ChannelPut(r, a, c, l, links)
  BY DEF AssignChannel, ChannelPut, Registry
<1> HIDE DEF rest
<1>5. /\ links \in Partial(Nat, Addresses)
      /\ DOMAIN links = DOMAIN rest \cup {k}
      /\ links[k] = a
      /\ \A j \in DOMAIN rest : j # k => links[j] = rest[j]
  <2>1. links \in Partial(Nat, Addresses)
    BY <1>1, <1>2, <1>3, WithTyped
  <2> QED
    BY <2>1 DEF With
<1> HIDE DEF links
<1>6. q.sess[a].channel = c /\ q.sess[a].lapdmLink = l
  BY <1>3, <1>4, <1>5, ChannelSet
<1>7. LinksOf(q, a, {k})
  BY <1>6, NoChannelIsNone DEF LinkKeys, LinksOf
<1> QED
  BY <1>2, <1>3, <1>4, <1>5, <1>7, ChannelSet

\* RemoveSession takes the session out of every index that names it.
LEMMA RemoveSessionFields ==
  ASSUME NEW r \in Registry, NEW a \in DOMAIN r.sess, NEW q, q = RemoveSession(r, a)
  PROVE  /\ q \in Registry
         /\ DOMAIN q.sess = DOMAIN r.sess \ {a}
         /\ \A b \in DOMAIN q.sess : q.sess[b] = r.sess[b]
         /\ q.nextAuto = r.nextAuto /\ q.active = r.active \ {a}
         /\ DOMAIN q.byIMSI = DOMAIN r.byIMSI \ {r.sess[a].id}
         /\ \A i \in DOMAIN q.byIMSI : q.byIMSI[i] = r.byIMSI[i]
         /\ DOMAIN q.byLink = DOMAIN r.byLink \ LinkKeys(r.sess[a])
         /\ \A k \in DOMAIN q.byLink : q.byLink[k] = r.byLink[k]
<1> DEFINE p == ReleaseChannel(r, a)
           imsis == Without(p.byIMSI, {r.sess[a].id})
           rest == Without(p.sess, {a})
<1>1. /\ p \in Registry
      /\ DOMAIN p.sess = DOMAIN r.sess
      /\ \A b \in DOMAIN r.sess : b # a => p.sess[b] = r.sess[b]
      /\ p.byIMSI = r.byIMSI /\ p.nextAuto = r.nextAuto /\ p.active = r.active
      /\ DOMAIN p.byLink = DOMAIN r.byLink \ LinkKeys(r.sess[a])
      /\ \A k \in DOMAIN p.byLink : p.byLink[k] = r.byLink[k]
  BY ReleaseChannelFields
<1>2. q = [p EXCEPT !.byIMSI = imsis, !.active = p.active \ {a}, !.sess = rest]
  BY <1>1 DEF RemoveSession, Registry
<1> HIDE DEF p
<1>3. p.sess \in Partial(Addresses, SessionState) /\ p.byIMSI \in Partial(Imsis, Tmsis)
  BY <1>1 DEF Registry
<1>4. /\ imsis \in Partial(Imsis, Tmsis)
      /\ DOMAIN imsis = DOMAIN p.byIMSI \ {r.sess[a].id}
      /\ \A i \in DOMAIN p.byIMSI \ {r.sess[a].id} : imsis[i] = p.byIMSI[i]
  BY <1>3, WithoutFields, WithoutTyped
<1>5. /\ rest \in Partial(Addresses, SessionState)
      /\ DOMAIN rest = DOMAIN p.sess \ {a}
      /\ \A b \in DOMAIN p.sess \ {a} : rest[b] = p.sess[b]
  BY <1>3, WithoutFields, WithoutTyped
<1> HIDE DEF imsis, rest
<1>6. q \in Registry
  BY <1>1, <1>2, <1>4, <1>5 DEF Registry
<1>7. /\ q.sess = rest /\ q.byIMSI = imsis /\ q.byLink = p.byLink
      /\ q.active = p.active \ {a} /\ q.nextAuto = p.nextAuto
  BY <1>1, <1>2 DEF Registry
<1> QED
  BY <1>1, <1>4, <1>5, <1>6, <1>7

\* A change of identity touches no index.
LEMMA SetIdentityFields ==
  ASSUME NEW r \in Registry, NEW a \in DOMAIN r.sess, NEW id \in Tmsis \cup Imsis,
         NEW q, q = [r EXCEPT !.sess[a].id = id]
  PROVE  /\ q \in Registry
         /\ DOMAIN q.sess = DOMAIN r.sess
         /\ \A b \in DOMAIN r.sess : b # a => q.sess[b] = r.sess[b]
         /\ q.sess[a].tmsi = r.sess[a].tmsi
         /\ q.sess[a].id = id
         /\ LinksOf(q, a, LinkKeys(r.sess[a]))
         /\ q.sess[a].timers = r.sess[a].timers
         /\ q.sess[a].tx = r.sess[a].tx
         /\ q.sess[a].due = r.sess[a].due
         /\ q.byIMSI = r.byIMSI /\ q.byLink = r.byLink /\ q.nextAuto = r.nextAuto
         /\ q.active = r.active
<1>1. r.sess \in Partial(Addresses, SessionState)
  BY DEF Registry
<1>2. DOMAIN r.sess \subseteq Addresses /\ r.sess \in [DOMAIN r.sess -> SessionState]
  BY <1>1, PartialMember
<1>3. r.sess[a] \in SessionState
  BY <1>2
<1> DEFINE s == [r.sess[a] EXCEPT !.id = id]
<1>4. s \in SessionState
  BY <1>3 DEF SessionState
<1>5. [r.sess EXCEPT ![a] = s] \in Partial(Addresses, SessionState)
  BY <1>2, <1>4, PartialMember
<1>6. q = [r EXCEPT !.sess = [r.sess EXCEPT ![a] = s]]
  BY DEF Registry
<1>7. /\ q.sess = [r.sess EXCEPT ![a] = s]
      /\ q.byIMSI = r.byIMSI /\ q.byLink = r.byLink /\ q.nextAuto = r.nextAuto
      /\ q.active = r.active
  BY <1>6 DEF Registry
<1>8. q \in Registry
  BY <1>5, <1>6 DEF Registry
<1>9. /\ s.tmsi = r.sess[a].tmsi /\ s.id = id /\ LinkKeys(s) = LinkKeys(r.sess[a])
      /\ s.timers = r.sess[a].timers /\ s.tx = r.sess[a].tx /\ s.due = r.sess[a].due
  BY <1>3, KeysKept DEF SessionState
<1> HIDE DEF s
<1> QED
  BY <1>2, <1>7, <1>8, <1>9 DEF LinksOf

\* A cleared registry is empty but for its mark.
LEMMA EmptyFields ==
  ASSUME NEW n \in 0..(TmsiSpace - 1), NEW q, q = [EmptyRegistry EXCEPT !.nextAuto = n]
  PROVE  /\ q \in Registry
         /\ DOMAIN q.sess = {} /\ DOMAIN q.byIMSI = {} /\ DOMAIN q.byLink = {}
         /\ q.active = {} /\ q.nextAuto = n
<1>1. \A A, B : <<>> \in Partial(A, B) /\ DOMAIN <<>> = {}
  <2>1. \A B : <<>> \in Seq(B) /\ Len(<<>>) = 0
    OBVIOUS
  <2>2. \A B : <<>> \in [1..0 -> B]
    BY <2>1, LenProperties
  <2>3. 1..0 = {}
    OBVIOUS
  <2>4. \A B : <<>> \in [{} -> B]
    BY <2>2, <2>3
  <2> QED
    BY <2>4, PartialMember
<1>2. q = [sess |-> <<>>, byIMSI |-> <<>>, byLink |-> <<>>, active |-> {}, nextAuto |-> n]
  BY DEF EmptyRegistry
<1>3. /\ <<>> \in Partial(Addresses, SessionState) /\ <<>> \in Partial(Imsis, Tmsis)
      /\ <<>> \in Partial(Nat, Addresses)
  BY <1>1
<1>4. q \in Registry
  <2>1. \A e1 \in Partial(Addresses, SessionState), e2 \in Partial(Imsis, Tmsis),
           e3 \in Partial(Nat, Addresses) :
           [sess |-> e1, byIMSI |-> e2, byLink |-> e3, active |-> {}, nextAuto |-> n] \in Registry
    BY DEF Registry
  <2> QED
    BY <1>2, <1>3, <2>1, Zenon
<1> QED
  BY <1>1, <1>2, <1>4

-----------------------------------------------------------------------------
(* What holds of one registry                                              *)

\* No two sessions have one TMSI.
TmsisDiffer(r) ==
  \A a, b \in DOMAIN r.sess : r.sess[a].tmsi = r.sess[b].tmsi => a = b

\* What the link index names is there and holds that link.
LinksAgree(r) ==
  \A k \in DOMAIN r.byLink :
    r.byLink[k] \in DOMAIN r.sess /\ k \in LinkKeys(r.sess[r.byLink[k]])

\* The active index names the sessions with a running timer.
ActiveAgrees(r) ==
  \A a \in Addresses : a \in r.active <=> (a \in DOMAIN r.sess /\ Running(r.sess[a].timers) # {})

\* Who still has time left waits on a timer with as much of it left.
WaitsAgree(r) ==
  \A a \in DOMAIN r.sess, t \in TimerIds : r.sess[a].due[t] > 0 =>
    t \in r.sess[a].tx /\ r.sess[a].timers[t] = r.sess[a].due[t]

\* Of an IMSI that never moved, the index and the sessions tell the same.
ImsisAgree(r, unsure) ==
  \A i \in Imsis \ unsure :
    /\ i \in DOMAIN r.byIMSI =>
         \E a \in DOMAIN r.sess : r.sess[a].tmsi = r.byIMSI[i] /\ r.sess[a].id = i
    /\ \A a \in DOMAIN r.sess : r.sess[a].id = i =>
         i \in DOMAIN r.byIMSI /\ r.byIMSI[i] = r.sess[a].tmsi

\* What holds of every registry between two calls.
Sound(r) == r \in Registry /\ TmsisDiffer(r) /\ LinksAgree(r) /\ ActiveAgrees(r)

\* q is r but for the timers, waits, identity of the session at a.
SameButTimers(r, a, q) ==
  /\ q \in Registry
  /\ DOMAIN q.sess = DOMAIN r.sess
  /\ \A b \in DOMAIN r.sess : b # a => q.sess[b] = r.sess[b]
  /\ q.sess[a].tmsi = r.sess[a].tmsi
  /\ LinksOf(q, a, LinkKeys(r.sess[a]))
  /\ q.byIMSI = r.byIMSI /\ q.byLink = r.byLink /\ q.nextAuto = r.nextAuto

\* A change of timers or identity disturbs neither TMSIs nor links.
LEMMA SameButTimersSound ==
  ASSUME NEW r \in Registry, NEW a \in DOMAIN r.sess, NEW q, SameButTimers(r, a, q)
  PROVE  /\ TmsisDiffer(r) => TmsisDiffer(q)
         /\ LinksAgree(r) => LinksAgree(q)
<1>1. \A b \in DOMAIN q.sess : b \in DOMAIN r.sess /\ q.sess[b].tmsi = r.sess[b].tmsi
                                 /\ LinkKeys(q.sess[b]) = LinkKeys(r.sess[b])
  BY DEF SameButTimers, LinksOf
<1>2. DOMAIN q.sess = DOMAIN r.sess /\ q.byLink = r.byLink
  BY DEF SameButTimers
<1>3. TmsisDiffer(r) => TmsisDiffer(q)
  BY <1>1 DEF TmsisDiffer
<1>4. LinksAgree(r) => LinksAgree(q)
  BY <1>1, <1>2 DEF LinksAgree
<1> QED
  BY <1>3, <1>4

\* SetTimers: the notification keeps the active index exact.
LEMMA SetTimersSound ==
  ASSUME NEW r, Sound(r), NEW a \in DOMAIN r.sess, NEW tm \in [TimerIds -> Nat],
         NEW q, q = SetTimers(r, a, tm)
  PROVE  Sound(q)
<1>0. r \in Registry
  BY DEF Sound
<1>1. /\ q \in Registry
      /\ DOMAIN q.sess = DOMAIN r.sess
      /\ \A b \in DOMAIN r.sess : b # a => q.sess[b] = r.sess[b]
      /\ q.sess[a].timers = tm
      /\ q.active = Notified(r.active, a, r.sess[a].timers, tm)
      /\ SameButTimers(r, a, q)
  BY <1>0, SetTimersFields DEF SameButTimers
<1>2. TmsisDiffer(q) /\ LinksAgree(q)
  BY <1>0, <1>1, SameButTimersSound DEF Sound
<1>3. ActiveAgrees(q)
  <2> SUFFICES ASSUME NEW b \in Addresses
               PROVE  b \in q.active <=> (b \in DOMAIN q.sess /\ Running(q.sess[b].timers) # {})
    BY DEF ActiveAgrees
  <2>1. b \in r.active <=> (b \in DOMAIN r.sess /\ Running(r.sess[b].timers) # {})
    BY DEF Sound, ActiveAgrees
  <2>2. CASE b # a
    <3>1. b \in q.active <=> b \in r.active
      BY <1>1, <2>2 DEF Notified
    <3> QED
      BY <2>1, <2>2, <3>1, <1>1
  <2>3. CASE b = a
    <3>1. b \in q.active <=> Running(tm) # {}
      BY <1>1, <2>1, <2>3 DEF Notified
    <3> QED
      BY <3>1, <2>3, <1>1
  <2> QED
    BY <2>2, <2>3
<1> QED
  BY <1>1, <1>2, <1>3 DEF Sound

\* SetWaits: no index depends on what the session waits for.
LEMMA SetWaitsSound ==
  ASSUME NEW r, Sound(r), NEW a \in DOMAIN r.sess,
         NEW tx \in SUBSET TimerIds, NEW due \in [TimerIds -> Nat],
         NEW q, q = SetWaits(r, a, tx, due)
  PROVE  Sound(q)
<1>0. r \in Registry
  BY DEF Sound
<1>1. /\ q \in Registry
      /\ DOMAIN q.sess = DOMAIN r.sess
      /\ \A b \in DOMAIN r.sess : b # a => q.sess[b] = r.sess[b]
      /\ q.sess[a].timers = r.sess[a].timers
      /\ q.active = r.active
      /\ SameButTimers(r, a, q)
  BY <1>0, SetWaitsFields DEF SameButTimers
<1>2. TmsisDiffer(q) /\ LinksAgree(q)
  BY <1>0, <1>1, SameButTimersSound DEF Sound
<1>3. \A b \in DOMAIN r.sess : q.sess[b].timers = r.sess[b].timers
  BY <1>1
<1>4. ActiveAgrees(q)
  BY <1>1, <1>3 DEF ActiveAgrees, Sound
<1> QED
  BY <1>1, <1>2, <1>4 DEF Sound

\* Only the session whose turn it is can break WaitsAgree.
LEMMA WaitsStep ==
  ASSUME NEW r, WaitsAgree(r), NEW a \in DOMAIN r.sess, NEW q, SameButTimers(r, a, q),
         \A t \in TimerIds : q.sess[a].due[t] > 0 =>
           t \in q.sess[a].tx /\ q.sess[a].timers[t] = q.sess[a].due[t]
  PROVE  WaitsAgree(q)
<1>1. DOMAIN q.sess = DOMAIN r.sess /\ \A b \in DOMAIN r.sess : b # a => q.sess[b] = r.sess[b]
  BY DEF SameButTimers
<1> SUFFICES ASSUME NEW b \in DOMAIN q.sess, NEW t \in TimerIds, q.sess[b].due[t] > 0
             PROVE  t \in q.sess[b].tx /\ q.sess[b].timers[t] = q.sess[b].due[t]
  BY DEF WaitsAgree
<1>2. CASE b = a
  BY <1>2
<1>3. CASE b # a
  BY <1>1, <1>3 DEF WaitsAgree
<1> QED
  BY <1>2, <1>3

\* A change of timers leaves the IMSI index exact.
LEMMA ImsisStep ==
  ASSUME NEW r, NEW unsure, ImsisAgree(r, unsure), NEW a \in DOMAIN r.sess, NEW q,
         SameButTimers(r, a, q), q.sess[a].id = r.sess[a].id
  PROVE  ImsisAgree(q, unsure)
<1>1. DOMAIN q.sess = DOMAIN r.sess /\ q.byIMSI = r.byIMSI
  BY DEF SameButTimers
<1>2. \A b \in DOMAIN r.sess : q.sess[b].tmsi = r.sess[b].tmsi /\ q.sess[b].id = r.sess[b].id
  BY DEF SameButTimers
<1> QED
  BY <1>1, <1>2 DEF ImsisAgree

\* What Begin, Finish and a tick do to the registry of their session.
LEMMA TimerStep ==
  ASSUME NEW r, Sound(r), NEW a \in DOMAIN r.sess, NEW tm \in [TimerIds -> Nat],
         NEW tx \in SUBSET TimerIds, NEW due \in [TimerIds -> Nat],
         NEW q, q = SetWaits(SetTimers(r, a, tm), a, tx, due)
  PROVE  /\ Sound(q) /\ SameButTimers(r, a, q)
         /\ q.sess[a].id = r.sess[a].id
         /\ q.sess[a].timers = tm /\ q.sess[a].tx = tx /\ q.sess[a].due = due
<1> DEFINE p == SetTimers(r, a, tm)
<1>0. r \in Registry
  BY DEF Sound
<1>1. /\ Sound(p)
      /\ p \in Registry
      /\ DOMAIN p.sess = DOMAIN r.sess
      /\ \A b \in DOMAIN r.sess : b # a => p.sess[b] = r.sess[b]
      /\ p.sess[a].tmsi = r.sess[a].tmsi
      /\ p.sess[a].id = r.sess[a].id
      /\ LinksOf(p, a, LinkKeys(r.sess[a]))
      /\ p.sess[a].timers = tm
      /\ p.byIMSI = r.byIMSI /\ p.byLink = r.byLink /\ p.nextAuto = r.nextAuto
  BY <1>0, SetTimersFields, SetTimersSound
<1>2. q = SetWaits(p, a, tx, due)
  OBVIOUS
<1> HIDE DEF p
<1>3. /\ Sound(q)
      /\ q \in Registry
      /\ DOMAIN q.sess = DOMAIN p.sess
      /\ \A b \in DOMAIN p.sess : b # a => q.sess[b] = p.sess[b]
      /\ q.sess[a].tmsi = p.sess[a].tmsi
      /\ q.sess[a].id = p.sess[a].id
      /\ LinksOf(q, a, LinkKeys(p.sess[a]))
      /\ q.sess[a].timers = p.sess[a].timers
      /\ q.sess[a].tx = tx /\ q.sess[a].due = due
      /\ q.byIMSI = p.byIMSI /\ q.byLink = p.byLink /\ q.nextAuto = p.nextAuto
  <2>1. a \in DOMAIN p.sess
    BY <1>1
  <2>2. Sound(q)
    BY <1>1, <1>2, <2>1, SetWaitsSound
  <2> QED
    BY <1>1, <1>2, <2>1, <2>2, SetWaitsFields
<1> QED
  BY <1>1, <1>3 DEF SameButTimers, LinksOf

-----------------------------------------------------------------------------
(* Timers                                                                  *)

\* Time passes for every running timer, and the ones it is enough for expire.
LEMMA ElapseFacts ==
  ASSUME NEW tm \in [TimerIds -> Nat], NEW delta \in Nat
  PROVE  /\ Elapse(tm, delta) \in [TimerIds -> Nat]
         /\ \A t \in TimerIds :
              /\ tm[t] <= delta => Elapse(tm, delta)[t] = 0
              /\ tm[t] > delta => Elapse(tm, delta)[t] = tm[t] - delta
              /\ t \in Expiring(tm, delta) <=> (tm[t] > 0 /\ tm[t] <= delta)
  BY DEF Elapse, Expiring, Running

\* Only what expires is written.
LEMMA WrittenFacts ==
  ASSUME NEW tm, NEW delta, NEW room
  PROVE  Written(tm, delta, room) \subseteq Expiring(tm, delta)
  BY DEF Written

\* The timers after a tick of one session in which the expiries in `out' were
\* written and the others re-armed.
Rearmed(tm, delta, out) ==
  [t \in TimerIds |-> IF t \in Expiring(tm, delta) \ out THEN 1 ELSE Elapse(tm, delta)[t]]

\* A re-armed expiry runs on, a written one does not.
LEMMA RearmedFacts ==
  ASSUME NEW tm \in [TimerIds -> Nat], NEW delta \in Nat,
         NEW out \in SUBSET Expiring(tm, delta)
  PROVE  /\ Rearmed(tm, delta, out) \in [TimerIds -> Nat]
         /\ \A t \in TimerIds :
              Rearmed(tm, delta, out)[t] > 0 <=> tm[t] > 0 /\ t \notin out
         /\ \A t \in TimerIds : t \notin Expiring(tm, delta) =>
              Rearmed(tm, delta, out)[t] = Elapse(tm, delta)[t]
<1>1. /\ Elapse(tm, delta) \in [TimerIds -> Nat]
      /\ \A t \in TimerIds :
           /\ tm[t] <= delta => Elapse(tm, delta)[t] = 0
           /\ tm[t] > delta => Elapse(tm, delta)[t] = tm[t] - delta
           /\ t \in Expiring(tm, delta) <=> (tm[t] > 0 /\ tm[t] <= delta)
  BY ElapseFacts
<1> QED
  BY <1>1 DEF Rearmed

\* The conclusion every tick of a session shares.
Ticked(r, a, q, delta, out) ==
  /\ Sound(q) /\ SameButTimers(r, a, q) /\ WaitsAgree(q)
  /\ q.sess[a].id = r.sess[a].id
  /\ \A t \in TimerIds : q.sess[a].timers[t] > 0 <=> r.sess[a].timers[t] > 0 /\ t \notin out

\* A tick keeps WaitsAgree: the time of whoever waited on a timer that was
\* re-armed is over.
LEMMA TickedWaits ==
  ASSUME NEW r \in Registry, WaitsAgree(r), NEW a \in DOMAIN r.sess, NEW delta \in Nat,
         NEW out \in SUBSET Expiring(r.sess[a].timers, delta),
         NEW gone \in SUBSET Expiring(r.sess[a].timers, delta),
         NEW q, SameButTimers(r, a, q),
         q.sess[a].timers = Rearmed(r.sess[a].timers, delta, out),
         q.sess[a].tx = r.sess[a].tx \ gone,
         q.sess[a].due = Elapse(r.sess[a].due, delta)
  PROVE  WaitsAgree(q)
<1> DEFINE tm == r.sess[a].timers
           due == r.sess[a].due
<1>1. tm \in [TimerIds -> Nat] /\ due \in [TimerIds -> Nat]
  BY SessionTyped
<1> SUFFICES ASSUME NEW t \in TimerIds, q.sess[a].due[t] > 0
             PROVE  t \in q.sess[a].tx /\ q.sess[a].timers[t] = q.sess[a].due[t]
  BY WaitsStep
<1>6. /\ q.sess[a].timers = Rearmed(tm, delta, out) /\ q.sess[a].due = Elapse(due, delta)
      /\ q.sess[a].tx = r.sess[a].tx \ gone
      /\ out \subseteq Expiring(tm, delta) /\ gone \subseteq Expiring(tm, delta)
  OBVIOUS
<1>7. due[t] > 0 => t \in r.sess[a].tx /\ tm[t] = due[t]
  BY DEF WaitsAgree
<1> HIDE DEF tm, due
<1>8. /\ due[t] <= delta => Elapse(due, delta)[t] = 0
      /\ due[t] > delta => Elapse(due, delta)[t] = due[t] - delta
      /\ tm[t] > delta => Elapse(tm, delta)[t] = tm[t] - delta
      /\ t \in Expiring(tm, delta) <=> (tm[t] > 0 /\ tm[t] <= delta)
  BY <1>1, ElapseFacts
<1>2. due[t] > delta /\ q.sess[a].due[t] = due[t] - delta
  BY <1>1, <1>6, <1>8
<1>3. t \in r.sess[a].tx /\ tm[t] = due[t]
  BY <1>1, <1>2, <1>7
<1>4. t \notin Expiring(tm, delta) /\ Elapse(tm, delta)[t] = tm[t] - delta
  BY <1>1, <1>2, <1>3, <1>8
<1>5. q.sess[a].timers[t] = Elapse(tm, delta)[t]
  BY <1>1, <1>4, <1>6, RearmedFacts
<1> QED
  BY <1>2, <1>3, <1>4, <1>5, <1>6

\* A session's turn in tickAllTimers().
LEMMA TickSessionTicked ==
  ASSUME NEW r, Sound(r), WaitsAgree(r), NEW a \in DOMAIN r.sess, NEW delta \in Nat, NEW room,
         NEW q, q = TickSession(r, a, delta, room)
  PROVE  Ticked(r, a, q, delta, Written(r.sess[a].timers, delta, room))
<1> DEFINE tm == r.sess[a].timers
           out == Written(tm, delta, room)
           e == Elapse(tm, delta)
           p == SetTimers(r, a, e)
           tx == r.sess[a].tx \ Expiring(tm, delta)
           due == Elapse(r.sess[a].due, delta)
<1>1. r \in Registry
  BY DEF Sound
<1>2. tm \in [TimerIds -> Nat] /\ r.sess[a].due \in [TimerIds -> Nat] /\ r.sess[a].tx \subseteq TimerIds
  BY <1>1, SessionTyped
<1>3. e \in [TimerIds -> Nat] /\ due \in [TimerIds -> Nat] /\ tx \in SUBSET TimerIds
  BY <1>2, ElapseFacts
<1>4. out \in SUBSET Expiring(tm, delta)
  BY WrittenFacts
<1>5. /\ Rearmed(tm, delta, out) \in [TimerIds -> Nat]
      /\ \A t \in TimerIds : Rearmed(tm, delta, out)[t] > 0 <=> tm[t] > 0 /\ t \notin out
  <2> HIDE DEF out, tm
  <2> QED
    BY <1>2, <1>4, RearmedFacts
<1>6. q = SetWaits(SetTimers(p, a, Rearmed(tm, delta, out)), a, tx, due)
  BY DEF TickSession, Rearmed
<1>7. /\ Sound(p)
      /\ p \in Registry
      /\ DOMAIN p.sess = DOMAIN r.sess
      /\ \A b \in DOMAIN r.sess : b # a => p.sess[b] = r.sess[b]
      /\ p.sess[a].tmsi = r.sess[a].tmsi
      /\ p.sess[a].id = r.sess[a].id
      /\ LinksOf(p, a, LinkKeys(r.sess[a]))
      /\ p.byIMSI = r.byIMSI /\ p.byLink = r.byLink /\ p.nextAuto = r.nextAuto
  BY <1>1, <1>3, SetTimersFields, SetTimersSound
<1> HIDE DEF p, tx, due, e, out, tm
<1>8. a \in DOMAIN p.sess
  BY <1>7
<1>9. /\ Sound(q) /\ SameButTimers(p, a, q)
      /\ q.sess[a].id = p.sess[a].id
      /\ q.sess[a].timers = Rearmed(tm, delta, out) /\ q.sess[a].tx = tx /\ q.sess[a].due = due
  BY <1>3, <1>5, <1>6, <1>7, <1>8, TimerStep
<1>10. SameButTimers(r, a, q)
  BY <1>7, <1>9 DEF SameButTimers, LinksOf
<1>11. WaitsAgree(q)
  BY <1>1, <1>4, <1>9, <1>10, TickedWaits DEF tm, tx, due
<1>12. \A t \in TimerIds : q.sess[a].timers[t] > 0 <=> tm[t] > 0 /\ t \notin out
  BY <1>5, <1>9
<1> QED
  BY <1>7, <1>9, <1>10, <1>11, <1>12 DEF Ticked, tm, out

\* The application's own tick of one session.
LEMMA TickOneTicked ==
  ASSUME NEW r, Sound(r), WaitsAgree(r), NEW a \in DOMAIN r.sess, NEW delta \in Nat, NEW room,
         NEW q, q = SetWaits(SetTimers(r, a, TickTimers(r.sess[a].timers, delta, room)), a,
                             r.sess[a].tx \ Written(r.sess[a].timers, delta, room),
                             Elapse(r.sess[a].due, delta))
  PROVE  Ticked(r, a, q, delta, Written(r.sess[a].timers, delta, room))
<1> DEFINE tm == r.sess[a].timers
           out == Written(tm, delta, room)
           tx == r.sess[a].tx \ out
           due == Elapse(r.sess[a].due, delta)
<1>1. r \in Registry
  BY DEF Sound
<1>2. tm \in [TimerIds -> Nat] /\ r.sess[a].due \in [TimerIds -> Nat] /\ r.sess[a].tx \subseteq TimerIds
  BY <1>1, SessionTyped
<1>3. due \in [TimerIds -> Nat] /\ tx \in SUBSET TimerIds
  BY <1>2, ElapseFacts
<1>4. out \in SUBSET Expiring(tm, delta)
  BY WrittenFacts
<1>5. /\ Rearmed(tm, delta, out) \in [TimerIds -> Nat]
      /\ \A t \in TimerIds : Rearmed(tm, delta, out)[t] > 0 <=> tm[t] > 0 /\ t \notin out
  <2> HIDE DEF out, tm
  <2> QED
    BY <1>2, <1>4, RearmedFacts
<1>6. q = SetWaits(SetTimers(r, a, Rearmed(tm, delta, out)), a, tx, due)
  BY DEF TickTimers, Rearmed
<1> HIDE DEF tx, due, out, tm
<1>9. /\ Sound(q) /\ SameButTimers(r, a, q)
      /\ q.sess[a].id = r.sess[a].id
      /\ q.sess[a].timers = Rearmed(tm, delta, out) /\ q.sess[a].tx = tx /\ q.sess[a].due = due
  BY <1>3, <1>5, <1>6, TimerStep
<1>11. WaitsAgree(q)
  BY <1>1, <1>4, <1>9, TickedWaits DEF tm, tx, due
<1>12. \A t \in TimerIds : q.sess[a].timers[t] > 0 <=> tm[t] > 0 /\ t \notin out
  BY <1>5, <1>9
<1> QED
  BY <1>9, <1>11, <1>12 DEF Ticked, tm, out

\* The registry after the session at a began, or finished, the transaction of
\* the timer t.
Begun(r, a, t, expiry) ==
  SetWaits(SetTimers(r, a, StartTimer(r.sess[a].timers, t, expiry)), a,
           r.sess[a].tx \cup {t}, [r.sess[a].due EXCEPT ![t] = expiry])

\* See Begun.
Finished(r, a, t) ==
  SetWaits(SetTimers(r, a, StopTimer(r.sess[a].timers, t)), a,
           r.sess[a].tx \ {t}, [r.sess[a].due EXCEPT ![t] = 0])

\* The start of a transaction and its timer, anew if it runs already.
LEMMA BeginSound ==
  ASSUME NEW r, Sound(r), WaitsAgree(r), NEW a \in DOMAIN r.sess, NEW t \in TimerIds,
         NEW expiry \in Nat \ {0},
         NEW q, q = Begun(r, a, t, expiry)
  PROVE  /\ Sound(q) /\ SameButTimers(r, a, q) /\ WaitsAgree(q)
         /\ q.sess[a].id = r.sess[a].id
         /\ \A u \in TimerIds : q.sess[a].timers[u] > 0 <=> r.sess[a].timers[u] > 0 \/ u = t
<1> DEFINE tm == [r.sess[a].timers EXCEPT ![t] = expiry]
           tx == r.sess[a].tx \cup {t}
           due == [r.sess[a].due EXCEPT ![t] = expiry]
<1>1. r \in Registry
  BY DEF Sound
<1>2. /\ r.sess[a].timers \in [TimerIds -> Nat] /\ r.sess[a].due \in [TimerIds -> Nat]
      /\ r.sess[a].tx \subseteq TimerIds
  BY <1>1, SessionTyped
<1>3. tm \in [TimerIds -> Nat] /\ due \in [TimerIds -> Nat] /\ tx \in SUBSET TimerIds
  BY <1>2
<1>4. q = SetWaits(SetTimers(r, a, tm), a, tx, due)
  BY DEF Begun, StartTimer
<1>5. \A u \in TimerIds : due[u] > 0 => u \in tx /\ tm[u] = due[u]
  BY <1>2 DEF WaitsAgree
<1>6. \A u \in TimerIds : tm[u] > 0 <=> r.sess[a].timers[u] > 0 \/ u = t
  BY <1>2
<1> HIDE DEF tm, tx, due
<1>7. /\ Sound(q) /\ SameButTimers(r, a, q)
      /\ q.sess[a].id = r.sess[a].id
      /\ q.sess[a].timers = tm /\ q.sess[a].tx = tx /\ q.sess[a].due = due
  BY <1>3, <1>4, TimerStep
<1>8. WaitsAgree(q)
  BY <1>5, <1>7, WaitsStep
<1> QED
  BY <1>6, <1>7, <1>8

\* The end of a transaction and its timer.
LEMMA FinishSound ==
  ASSUME NEW r, Sound(r), WaitsAgree(r), NEW a \in DOMAIN r.sess, NEW t \in TimerIds,
         NEW q, q = Finished(r, a, t)
  PROVE  /\ Sound(q) /\ SameButTimers(r, a, q) /\ WaitsAgree(q)
         /\ q.sess[a].id = r.sess[a].id
         /\ \A u \in TimerIds : q.sess[a].timers[u] > 0 <=> r.sess[a].timers[u] > 0 /\ u # t
<1> DEFINE tm == [r.sess[a].timers EXCEPT ![t] = 0]
           tx == r.sess[a].tx \ {t}
           due == [r.sess[a].due EXCEPT ![t] = 0]
<1>1. r \in Registry
  BY DEF Sound
<1>2. /\ r.sess[a].timers \in [TimerIds -> Nat] /\ r.sess[a].due \in [TimerIds -> Nat]
      /\ r.sess[a].tx \subseteq TimerIds
  BY <1>1, SessionTyped
<1>3. tm \in [TimerIds -> Nat] /\ due \in [TimerIds -> Nat] /\ tx \in SUBSET TimerIds
  BY <1>2
<1>4. q = SetWaits(SetTimers(r, a, tm), a, tx, due)
  BY DEF Finished, StopTimer
<1>5. \A u \in TimerIds : due[u] > 0 => u \in tx /\ tm[u] = due[u]
  BY <1>2 DEF WaitsAgree
<1>6. \A u \in TimerIds : tm[u] > 0 <=> r.sess[a].timers[u] > 0 /\ u # t
  BY <1>2
<1> HIDE DEF tm, tx, due
<1>7. /\ Sound(q) /\ SameButTimers(r, a, q)
      /\ q.sess[a].id = r.sess[a].id
      /\ q.sess[a].timers = tm /\ q.sess[a].tx = tx /\ q.sess[a].due = due
  BY <1>3, <1>4, TimerStep
<1>8. WaitsAgree(q)
  BY <1>5, <1>7, WaitsStep
<1> QED
  BY <1>6, <1>7, <1>8

-----------------------------------------------------------------------------
(* Creation and removal                                                    *)

\* A session with no timer, no channel and a TMSI of its own is added.
LEMMA AddedSound ==
  ASSUME NEW r, Sound(r), WaitsAgree(r), NEW a \in Addresses \ DOMAIN r.sess,
         NEW t \in Tmsis, t \notin TmsisOf(r), NEW id \in Tmsis \cup Imsis,
         NEW q \in Registry,
         DOMAIN q.sess = DOMAIN r.sess \cup {a},
         \A b \in DOMAIN r.sess : q.sess[b] = r.sess[b],
         q.sess[a] = NewSession(t, id),
         q.byLink = r.byLink, q.active = r.active
  PROVE  Sound(q) /\ WaitsAgree(q)
<1> DEFINE s == NewSession(t, id)
<1>1. /\ s.tmsi = t /\ s.id = id /\ LinkKeys(s) = {}
      /\ \A u \in TimerIds : s.timers[u] = 0 /\ s.due[u] = 0
  BY NewSessionFields
<1>2. q.sess[a] = s
  OBVIOUS
<1> HIDE DEF s
<1>3. \A b \in DOMAIN r.sess : r.sess[b].tmsi # t
  BY DEF TmsisOf
<1>4. TmsisDiffer(q)
  BY <1>1, <1>2, <1>3 DEF TmsisDiffer, Sound
<1>5. LinksAgree(q)
  BY <1>1, <1>2 DEF LinksAgree, Sound
<1>6. ActiveAgrees(q)
  <2>1. Running(q.sess[a].timers) = {}
    BY <1>1, <1>2 DEF Running
  <2>2. a \notin r.active
    BY DEF Sound, ActiveAgrees
  <2> QED
    BY <2>1, <2>2 DEF Sound, ActiveAgrees
<1>7. WaitsAgree(q)
  <2> SUFFICES ASSUME NEW b \in DOMAIN q.sess, NEW u \in TimerIds, q.sess[b].due[u] > 0
               PROVE  u \in q.sess[b].tx /\ q.sess[b].timers[u] = q.sess[b].due[u]
    BY DEF WaitsAgree
  <2>1. b # a
    BY <1>1, <1>2
  <2> QED
    BY <2>1 DEF WaitsAgree
<1> QED
  BY <1>4, <1>5, <1>6, <1>7 DEF Sound

\* createByTMSI() of a TMSI that nobody has.
LEMMA CreateByTMSISound ==
  ASSUME NEW r, Sound(r), WaitsAgree(r), NEW unsure, ImsisAgree(r, unsure),
         NEW a \in Addresses \ DOMAIN r.sess,
         NEW t \in Tmsis, t \notin TmsisOf(r), NEW q, q = CreateByTMSI(r, a, t)
  PROVE  Sound(q) /\ WaitsAgree(q) /\ ImsisAgree(q, unsure)
<1>1. r \in Registry
  BY DEF Sound
<1>2. /\ q \in Registry
      /\ DOMAIN q.sess = DOMAIN r.sess \cup {a}
      /\ \A b \in DOMAIN r.sess : q.sess[b] = r.sess[b]
      /\ q.sess[a] = NewSession(t, t)
      /\ q.byIMSI = r.byIMSI /\ q.byLink = r.byLink /\ q.active = r.active
  BY <1>1, CreateByTMSIFields
<1>3. Sound(q) /\ WaitsAgree(q)
  <2>1. t \in Tmsis \cup Imsis
    OBVIOUS
  <2> QED
    BY <1>2, <2>1, AddedSound
<1>4. q.sess[a].id = t /\ t \notin Imsis
  <2>1. q.sess[a].id = t
    BY <1>2 DEF NewSession
  <2>2. t \notin Imsis
    BY TmsiAssumption DEF Tmsis
  <2> QED
    BY <2>1, <2>2
<1>5. ImsisAgree(q, unsure)
  <2> SUFFICES ASSUME NEW i \in Imsis \ unsure
               PROVE  /\ i \in DOMAIN q.byIMSI =>
                           \E b \in DOMAIN q.sess : q.sess[b].tmsi = q.byIMSI[i] /\ q.sess[b].id = i
                      /\ \A b \in DOMAIN q.sess : q.sess[b].id = i =>
                           i \in DOMAIN q.byIMSI /\ q.byIMSI[i] = q.sess[b].tmsi
    BY DEF ImsisAgree
  <2> QED
    BY <1>2, <1>4 DEF ImsisAgree
<1> QED
  BY <1>3, <1>5

\* createByIMSI() with the candidate the scan found.
LEMMA CreateByIMSISound ==
  ASSUME NEW r, Sound(r), WaitsAgree(r), NEW unsure, ImsisAgree(r, unsure),
         NEW a \in Addresses \ DOMAIN r.sess, NEW i \in Imsis, i \notin DOMAIN r.byIMSI,
         NEW n \in Nat, Candidate(r, n) \in Tmsis, Candidate(r, n + 1) \in 0..(TmsiSpace - 1),
         Candidate(r, n) \notin TmsisOf(r), NEW q, q = CreateByIMSI(r, a, i, n)
  PROVE  Sound(q) /\ WaitsAgree(q) /\ ImsisAgree(q, unsure)
<1> DEFINE t == Candidate(r, n)
<1>1. r \in Registry
  BY DEF Sound
<1>2. /\ q \in Registry
      /\ DOMAIN q.sess = DOMAIN r.sess \cup {a}
      /\ \A b \in DOMAIN r.sess : q.sess[b] = r.sess[b]
      /\ q.sess[a] = NewSession(t, i)
      /\ q.byIMSI = With(r.byIMSI, i, t) /\ q.byLink = r.byLink /\ q.active = r.active
  BY <1>1, CreateByIMSIFields
<1>3. t \in Tmsis /\ t \notin TmsisOf(r)
  OBVIOUS
<1> HIDE DEF t
<1>4. Sound(q) /\ WaitsAgree(q)
  <2>1. i \in Tmsis \cup Imsis
    OBVIOUS
  <2> QED
    BY <1>2, <1>3, <2>1, AddedSound
<1>5. q.sess[a].id = i /\ q.sess[a].tmsi = t
  BY <1>2 DEF NewSession
<1>6. /\ DOMAIN q.byIMSI = DOMAIN r.byIMSI \cup {i} /\ q.byIMSI[i] = t
      /\ \A j \in DOMAIN r.byIMSI : j # i => q.byIMSI[j] = r.byIMSI[j]
  BY <1>2 DEF With
<1>7. ImsisAgree(q, unsure)
  <2> SUFFICES ASSUME NEW j \in Imsis \ unsure
               PROVE  /\ j \in DOMAIN q.byIMSI =>
                           \E b \in DOMAIN q.sess : q.sess[b].tmsi = q.byIMSI[j] /\ q.sess[b].id = j
                      /\ \A b \in DOMAIN q.sess : q.sess[b].id = j =>
                           j \in DOMAIN q.byIMSI /\ q.byIMSI[j] = q.sess[b].tmsi
    BY DEF ImsisAgree
  <2>1. CASE j = i
    <3>1. \A b \in DOMAIN r.sess : r.sess[b].id # i
      BY <2>1 DEF ImsisAgree
    <3> QED
      BY <1>2, <1>5, <1>6, <2>1, <3>1
  <2>2. CASE j # i
    <3>1. /\ j \in DOMAIN r.byIMSI =>
               \E b \in DOMAIN r.sess : r.sess[b].tmsi = r.byIMSI[j] /\ r.sess[b].id = j
          /\ \A b \in DOMAIN r.sess : r.sess[b].id = j =>
               j \in DOMAIN r.byIMSI /\ r.byIMSI[j] = r.sess[b].tmsi
      BY DEF ImsisAgree
    <3> QED
      BY <1>2, <1>5, <1>6, <2>2, <3>1
  <2> QED
    BY <2>1, <2>2
<1> QED
  BY <1>4, <1>7

\* The registry after the channel of the session at a and the link index
\* were changed so that what the index names still holds its link.
LEMMA ChannelSound ==
  ASSUME NEW r, Sound(r), WaitsAgree(r), NEW unsure, ImsisAgree(r, unsure),
         NEW a \in DOMAIN r.sess, NEW q \in Registry,
         DOMAIN q.sess = DOMAIN r.sess,
         \A b \in DOMAIN r.sess : b # a => q.sess[b] = r.sess[b],
         q.sess[a].tmsi = r.sess[a].tmsi, q.sess[a].id = r.sess[a].id,
         q.sess[a].timers = r.sess[a].timers,
         q.sess[a].tx = r.sess[a].tx, q.sess[a].due = r.sess[a].due,
         q.byIMSI = r.byIMSI, q.active = r.active,
         LinksAgree(q)
  PROVE  Sound(q) /\ WaitsAgree(q) /\ ImsisAgree(q, unsure)
<1>1. \A b \in DOMAIN r.sess :
        /\ q.sess[b].tmsi = r.sess[b].tmsi /\ q.sess[b].id = r.sess[b].id
        /\ q.sess[b].timers = r.sess[b].timers
        /\ q.sess[b].tx = r.sess[b].tx /\ q.sess[b].due = r.sess[b].due
  OBVIOUS
<1>2. TmsisDiffer(q)
  BY <1>1 DEF TmsisDiffer, Sound
<1>3. ActiveAgrees(q)
  BY <1>1 DEF ActiveAgrees, Sound
<1>4. WaitsAgree(q)
  BY <1>1 DEF WaitsAgree
<1>5. ImsisAgree(q, unsure)
  BY <1>1 DEF ImsisAgree
<1> QED
  BY <1>2, <1>3, <1>4, <1>5 DEF Sound

\* assignChannel() of any channel and link.
LEMMA AssignChannelSound ==
  ASSUME NEW r, Sound(r), WaitsAgree(r), NEW unsure, ImsisAgree(r, unsure),
         NEW a \in DOMAIN r.sess, NEW c \in Descriptors, NEW l \in LinkIds,
         NEW q, q = AssignChannel(r, a, c, l)
  PROVE  Sound(q) /\ WaitsAgree(q) /\ ImsisAgree(q, unsure)
<1> DEFINE k == encodeLinkKey(c.trx, c.timeslot, l)
<1>k. k = encodeLinkKey(c.trx, c.timeslot, l)
  OBVIOUS
<1> HIDE DEF k
<1>1. r \in Registry
  BY DEF Sound
<1>2. /\ q \in Registry
      /\ DOMAIN q.sess = DOMAIN r.sess
      /\ \A b \in DOMAIN r.sess : b # a => q.sess[b] = r.sess[b]
      /\ q.sess[a].tmsi = r.sess[a].tmsi /\ q.sess[a].id = r.sess[a].id
      /\ LinksOf(q, a, {k}) /\ q.sess[a].timers = r.sess[a].timers
      /\ q.sess[a].tx = r.sess[a].tx /\ q.sess[a].due = r.sess[a].due
      /\ q.byIMSI = r.byIMSI /\ q.active = r.active
      /\ DOMAIN q.byLink = (DOMAIN r.byLink \ LinkKeys(r.sess[a])) \cup {k}
      /\ q.byLink[k] = a
      /\ \A j \in DOMAIN q.byLink : j # k => q.byLink[j] = r.byLink[j]
  <2>1. PICK p : p = AssignChannel(r, a, c, l) /\ p = q
    OBVIOUS
  <2>2. LinksOf(p, a, {k})
    BY <1>1, <1>k, <2>1, AssignChannelFields
  <2> QED
    BY <1>1, <1>k, <2>1, <2>2, AssignChannelFields
<1>3. LinksAgree(r)
  BY DEF Sound
<1>4. LinksAgree(q)
  BY <1>2, <1>3 DEF LinksAgree, LinksOf
<1> QED
  BY <1>2, <1>4, ChannelSound

\* releaseChannel().
LEMMA ReleaseChannelSound ==
  ASSUME NEW r, Sound(r), WaitsAgree(r), NEW unsure, ImsisAgree(r, unsure),
         NEW a \in DOMAIN r.sess, NEW q, q = ReleaseChannel(r, a)
  PROVE  Sound(q) /\ WaitsAgree(q) /\ ImsisAgree(q, unsure)
<1>1. r \in Registry
  BY DEF Sound
<1>2. /\ q \in Registry
      /\ DOMAIN q.sess = DOMAIN r.sess
      /\ \A b \in DOMAIN r.sess : b # a => q.sess[b] = r.sess[b]
      /\ q.sess[a].tmsi = r.sess[a].tmsi /\ q.sess[a].id = r.sess[a].id
      /\ q.sess[a].timers = r.sess[a].timers
      /\ q.sess[a].tx = r.sess[a].tx /\ q.sess[a].due = r.sess[a].due
      /\ q.byIMSI = r.byIMSI /\ q.active = r.active
      /\ DOMAIN q.byLink = DOMAIN r.byLink \ LinkKeys(r.sess[a])
      /\ \A k \in DOMAIN q.byLink : q.byLink[k] = r.byLink[k]
  BY <1>1, ReleaseChannelFields
<1>3. LinksAgree(r)
  BY DEF Sound
<1>4. LinksAgree(q)
  BY <1>2, <1>3 DEF LinksAgree
<1> QED
  BY <1>2, <1>4, ChannelSound

\* remove(): no index names the session afterwards.
LEMMA RemoveSessionSound ==
  ASSUME NEW r, Sound(r), WaitsAgree(r), NEW unsure, ImsisAgree(r, unsure),
         NEW a \in DOMAIN r.sess, NEW q, q = RemoveSession(r, a)
  PROVE  Sound(q) /\ WaitsAgree(q) /\ ImsisAgree(q, unsure)
<1>1. r \in Registry
  BY DEF Sound
<1>2. /\ q \in Registry
      /\ DOMAIN q.sess = DOMAIN r.sess \ {a}
      /\ \A b \in DOMAIN q.sess : q.sess[b] = r.sess[b]
      /\ q.active = r.active \ {a}
      /\ DOMAIN q.byIMSI = DOMAIN r.byIMSI \ {r.sess[a].id}
      /\ \A i \in DOMAIN q.byIMSI : q.byIMSI[i] = r.byIMSI[i]
      /\ DOMAIN q.byLink = DOMAIN r.byLink \ LinkKeys(r.sess[a])
      /\ \A k \in DOMAIN q.byLink : q.byLink[k] = r.byLink[k]
  BY <1>1, RemoveSessionFields
<1>3. TmsisDiffer(q)
  BY <1>2 DEF TmsisDiffer, Sound
<1>4. LinksAgree(q)
  BY <1>2 DEF LinksAgree, Sound
<1>5. ActiveAgrees(q)
  BY <1>2 DEF ActiveAgrees, Sound
<1>6. WaitsAgree(q)
  BY <1>2 DEF WaitsAgree
<1>7. ImsisAgree(q, unsure)
  <2> SUFFICES ASSUME NEW i \in Imsis \ unsure
               PROVE  /\ i \in DOMAIN q.byIMSI =>
                           \E b \in DOMAIN q.sess : q.sess[b].tmsi = q.byIMSI[i] /\ q.sess[b].id = i
                      /\ \A b \in DOMAIN q.sess : q.sess[b].id = i =>
                           i \in DOMAIN q.byIMSI /\ q.byIMSI[i] = q.sess[b].tmsi
    BY DEF ImsisAgree
  <2>1. /\ i \in DOMAIN r.byIMSI =>
             \E b \in DOMAIN r.sess : r.sess[b].tmsi = r.byIMSI[i] /\ r.sess[b].id = i
        /\ \A b \in DOMAIN r.sess : r.sess[b].id = i =>
             i \in DOMAIN r.byIMSI /\ r.byIMSI[i] = r.sess[b].tmsi
    BY DEF ImsisAgree
  <2>2. CASE r.sess[a].id = i
    <3>1. \A b \in DOMAIN q.sess : q.sess[b].id # i
      BY <1>2, <2>1, <2>2 DEF Sound, TmsisDiffer
    <3> QED
      BY <1>2, <2>2, <3>1
  <2>3. CASE r.sess[a].id # i
    BY <1>2, <2>1, <2>3
  <2> QED
    BY <2>2, <2>3
<1> QED
  BY <1>2, <1>3, <1>4, <1>5, <1>6, <1>7 DEF Sound

-----------------------------------------------------------------------------
(* The scan for a TMSI                                                     *)

\* A sum of two TMSIs wraps at most once.
LEMMA ModOnce ==
  ASSUME NEW T \in Nat \ {0}, NEW x \in 0..(2 * T - 1)
  PROVE  x % T = IF x < T THEN x ELSE x - T
<1>1. CASE x < T
  BY <1>1
<1>2. CASE ~(x < T)
  BY <1>2
<1> QED
  BY <1>1, <1>2

\* The candidates of the scan are TMSIs or 0.
LEMMA CandidateType ==
  ASSUME NEW r \in Registry, NEW n \in Nat
  PROVE  Candidate(r, n) \in 0..(TmsiSpace - 1)
<1>1. r.nextAuto \in Nat /\ TmsiSpace \in Nat \ {0}
  BY TmsiAssumption DEF Registry
<1>2. \A m \in Nat : m % TmsiSpace \in 0..(TmsiSpace - 1)
  BY <1>1
<1>3. r.nextAuto + n \in Nat
  BY <1>1
<1>4. (r.nextAuto + n) % TmsiSpace \in 0..(TmsiSpace - 1)
  BY <1>2, <1>3
<1> QED
  BY <1>4 DEF Candidate

\* At most every TMSI is taken.
LEMMA TmsisOfFinite ==
  ASSUME NEW r \in Registry
  PROVE  /\ TmsisOf(r) \subseteq Tmsis /\ IsFiniteSet(TmsisOf(r))
         /\ Cardinality(TmsisOf(r)) \in Nat /\ Cardinality(TmsisOf(r)) <= TmsiSpace - 1
<1>1. TmsisOf(r) \subseteq Tmsis
  BY SessionTyped DEF TmsisOf
<1>2. IsFiniteSet(Tmsis) /\ Cardinality(Tmsis) = TmsiSpace - 1
  BY TmsiAssumption, FS_Interval DEF Tmsis
<1> QED
  BY <1>1, <1>2, FS_Subset, FS_CardinalityType

\* The least of a nonempty set of natural numbers.
LEMMA MinOf ==
  ASSUME NEW S \in SUBSET Nat, S # {}
  PROVE  Min(S) \in S /\ \A y \in S : Min(S) <= y
<1>1. \E x \in S : \A y \in S : x <= y
  <2>1. \E x \in S : \A y \in S : ~(<<y, x>> \in OpToRel(<, Nat))
    BY NatLessThanWellFounded, WFMin, Zenon
  <2>2. \A x, y \in Nat : ~(<<y, x>> \in OpToRel(<, Nat)) => x <= y
    BY DEF OpToRel
  <2> QED
    BY <2>1, <2>2, Zenon
<1> QED
  BY <1>1 DEF Min

\* createByIMSI() tries size + 2 candidates.  If all were refused, at most one
\* for being 0, the others would be more TMSIs than there are sessions, unless
\* the candidates went round the whole space: then every TMSI is taken.
LEMMA ScanComplete ==
  ASSUME NEW r \in Registry, Scan(r) = {}
  PROVE  Tmsis \subseteq TmsisOf(r)
<1> DEFINE k == Cardinality(TmsisOf(r))
           S == {n \in 0..(k + 1) : Usable(r, n)}
<1>1. /\ TmsisOf(r) \subseteq Tmsis /\ IsFiniteSet(TmsisOf(r)) /\ k \in Nat /\ k <= TmsiSpace - 1
  BY TmsisOfFinite
<1>2. S = {}
  <2>1. SUFFICES ASSUME S # {} PROVE FALSE
    OBVIOUS
  <2>2. Min(S) \in S /\ \A y \in S : Min(S) <= y
    BY <2>1, <1>1, MinOf
  <2>3. \A m \in 0..(Min(S) - 1) : ~Usable(r, m)
    BY <1>1, <2>2
  <2>4. Min(S) \in Scan(r)
    BY <2>2, <2>3 DEF Scan
  <2> QED
    BY <2>4
<1>3. CASE k = TmsiSpace - 1
  <2>1. IsFiniteSet(Tmsis) /\ Cardinality(Tmsis) = TmsiSpace - 1
    BY TmsiAssumption, FS_Interval DEF Tmsis
  <2> QED
    BY <1>1, <1>3, <2>1, FS_Subset
<1>4. CASE k # TmsiSpace - 1
  <2> DEFINE A == 0..(k + 1)
             B == TmsisOf(r) \cup {0}
             f == [n \in A |-> Candidate(r, n)]
  <2>1. k + 2 <= TmsiSpace /\ TmsiSpace \in Nat \ {0}
    BY <1>1, <1>4, TmsiAssumption
  <2>2. f \in [A -> B]
    BY <1>2 DEF Usable
  <2>3. IsFiniteSet(A) /\ Cardinality(A) = k + 2
    BY <1>1, FS_Interval
  <2>4. IsFiniteSet(B) /\ Cardinality(B) <= k + 1 /\ Cardinality(B) \in Nat
    <3>1. /\ IsFiniteSet(B)
          /\ Cardinality(B) = IF 0 \in TmsisOf(r) THEN Cardinality(TmsisOf(r))
                              ELSE Cardinality(TmsisOf(r)) + 1
      BY <1>1, FS_AddElement, Zenon
    <3> QED
      BY <1>1, <3>1
  <2>5. \A n, m \in A : Candidate(r, n) = Candidate(r, m) => n = m
    <3> SUFFICES ASSUME NEW n \in A, NEW m \in A, Candidate(r, n) = Candidate(r, m)
                 PROVE  n = m
      OBVIOUS
    <3>1. r.nextAuto \in 0..(TmsiSpace - 1)
      BY DEF Registry
    <3> DEFINE x == r.nextAuto + n
               y == r.nextAuto + m
    <3>2. /\ r.nextAuto + n \in 0..(2 * TmsiSpace - 1) /\ r.nextAuto + m \in 0..(2 * TmsiSpace - 1)
          /\ n \in Nat /\ m \in Nat /\ n < TmsiSpace /\ m < TmsiSpace
      BY <1>1, <2>1, <3>1
    <3>3. /\ Candidate(r, n) = IF x < TmsiSpace THEN x ELSE x - TmsiSpace
          /\ Candidate(r, m) = IF y < TmsiSpace THEN y ELSE y - TmsiSpace
      <4>1. Candidate(r, n) = x % TmsiSpace /\ Candidate(r, m) = y % TmsiSpace
        BY DEF Candidate
      <4>2. x \in 0..(2 * TmsiSpace - 1) /\ y \in 0..(2 * TmsiSpace - 1)
        BY <3>2
      <4> HIDE DEF x, y
      <4> QED
        BY <4>1, <4>2, <2>1, ModOnce
    <3>4. \A T, z, u, v \in Nat : /\ z < T /\ u < T /\ v < T
            /\ (IF z + u < T THEN z + u ELSE z + u - T) = (IF z + v < T THEN z + v ELSE z + v - T)
            => u = v
      OBVIOUS
    <3>5. /\ TmsiSpace \in Nat /\ r.nextAuto \in Nat /\ n \in Nat /\ m \in Nat
          /\ r.nextAuto < TmsiSpace /\ n < TmsiSpace /\ m < TmsiSpace
      BY <2>1, <3>1, <3>2
    <3>6. (IF x < TmsiSpace THEN x ELSE x - TmsiSpace) = (IF y < TmsiSpace THEN y ELSE y - TmsiSpace)
      BY <3>3
    <3> QED
      BY <3>4, <3>5, <3>6
  <2>6. Cardinality(B) < Cardinality(A)
    BY <1>1, <2>3, <2>4
  <2> HIDE DEF A, B
  <2>7. \E x, y \in A : x # y /\ f[x] = f[y]
    <3> HIDE DEF f
    <3> QED
      BY <2>2, <2>3, <2>4, <2>6, FS_PigeonHole
  <2> QED
    BY <2>5, <2>7
<1> QED
  BY <1>3, <1>4

-----------------------------------------------------------------------------
(* All shards and the tick                                                 *)

\* The session at a holds the link k, and the link index names it for k.
Holds(r, a, k) == a \in DOMAIN r.sess /\ k \in LinkKeys(r.sess[a])
Named(r, a, k) == k \in DOMAIN r.byLink /\ r.byLink[k] = a

\* The links and the link index of two registries are the same.
SameLinks(q, r) ==
  /\ q.byLink = r.byLink
  /\ \A b \in Addresses, k \in Nat : Holds(q, b, k) <=> Holds(r, b, k)

\* The timer t of the session at a runs.
Runs(r, a, t) == a \in DOMAIN r.sess /\ r.sess[a].timers[t] > 0

\* There is a shard, and they are numbered from 0.
ShardsTyped(sh) == \E n \in Nat \ {0} : sh \in [0..(n - 1) -> Registry]

\* What holds of every shard by itself.
EachSound(sh, mv) ==
  \A i \in DOMAIN sh : Sound(sh[i]) /\ WaitsAgree(sh[i]) /\ ImsisAgree(sh[i], mv)

\* A link that is not contested has one holder at most among the sessions
\* of all shards, and the index names it.
HoldersNamed(sh, cont) ==
  \A k \in Nat \ cont, i, j \in DOMAIN sh, a, b \in Addresses :
    Holds(sh[i], a, k) /\ Holds(sh[j], b, k) => i = j /\ a = b /\ Named(sh[i], a, k)

\* The application waits for exactly the timers that run.
ArmedAgrees(sh, arm) ==
  /\ arm \subseteq (DOMAIN sh) \X Addresses \X TimerIds
  /\ \A i \in DOMAIN sh, a \in Addresses, t \in TimerIds :
       <<i, a, t>> \in arm <=> Runs(sh[i], a, t)

\* A tick in progress is at a shard, and the rest of its snapshot is still
\* there: nobody else gets at the shard before it is through.
TickInv(sh, tk) ==
  /\ tk \in [delta : Nat, next : Nat, written : Nat, todo : SUBSET Addresses]
  /\ tk.next \in DOMAIN sh
  /\ tk.todo \subseteq DOMAIN sh[tk.next].sess

\* The inductive invariant.
Inv ==
  /\ ShardsTyped(shards) /\ EachSound(shards, moved)
  /\ HoldersNamed(shards, contested)
  /\ ArmedAgrees(shards, armed)
  /\ TickInv(shards, tick)

\* The shards after a call on the shard i.
Put(sh, i, q) == [sh EXCEPT ![i] = q]

\* A call on one shard leaves the others alone.
LEMMA PutFields ==
  ASSUME NEW sh, ShardsTyped(sh), NEW i \in DOMAIN sh, NEW q \in Registry
  PROVE  /\ ShardsTyped(Put(sh, i, q)) /\ DOMAIN Put(sh, i, q) = DOMAIN sh
         /\ Put(sh, i, q)[i] = q
         /\ \A j \in DOMAIN sh : j # i => Put(sh, i, q)[j] = sh[j]
<1>1. PICK n \in Nat \ {0} : sh \in [0..(n - 1) -> Registry]
  BY DEF ShardsTyped
<1>2. Put(sh, i, q) \in [0..(n - 1) -> Registry]
  BY <1>1 DEF Put
<1> QED
  BY <1>1, <1>2 DEF Put, ShardsTyped

\* Every shard is sound after a sound call on one of them.
LEMMA SoundPut ==
  ASSUME NEW sh, ShardsTyped(sh), NEW mv, EachSound(sh, mv), NEW i \in DOMAIN sh,
         NEW q, Sound(q), WaitsAgree(q), ImsisAgree(q, mv)
  PROVE  ShardsTyped(Put(sh, i, q)) /\ EachSound(Put(sh, i, q), mv)
<1>1. q \in Registry
  BY DEF Sound
<1> QED
  BY <1>1, PutFields DEF EachSound

\* A call on a shard the tick is not in leaves the snapshot valid.
LEMMA TickPut ==
  ASSUME NEW sh, ShardsTyped(sh), NEW i \in DOMAIN sh, NEW q \in Registry, NEW tk,
         TickInv(sh, tk),
         tk.todo = {} \/ tk.next # i \/ DOMAIN q.sess = DOMAIN sh[i].sess
  PROVE  TickInv(Put(sh, i, q), tk)
  BY PutFields DEF TickInv

\* A call that moves no channel.
LEMMA HoldersSame ==
  ASSUME NEW sh, ShardsTyped(sh), NEW i \in DOMAIN sh, NEW q \in Registry, NEW cont,
         HoldersNamed(sh, cont), SameLinks(q, sh[i])
  PROVE  HoldersNamed(Put(sh, i, q), cont)
<1>1. \A j \in DOMAIN sh, b \in Addresses, k \in Nat :
        /\ Holds(Put(sh, i, q)[j], b, k) <=> Holds(sh[j], b, k)
        /\ Named(Put(sh, i, q)[j], b, k) <=> Named(sh[j], b, k)
  BY PutFields DEF Named, SameLinks
<1>2. DOMAIN Put(sh, i, q) = DOMAIN sh
  BY PutFields
<1> QED
  BY <1>1, <1>2 DEF HoldersNamed

\* A call that takes the links of one session and gives it those of K.  What
\* is no longer contested, and K if it is not, nobody else holds.
LEMMA HoldersMoved ==
  ASSUME NEW sh, ShardsTyped(sh), NEW i \in DOMAIN sh, NEW q \in Registry, NEW cont,
         HoldersNamed(sh, cont), NEW a \in DOMAIN sh[i].sess, a \in Addresses,
         NEW K \in SUBSET Nat, NEW left,
         \A b \in Addresses, k \in Nat :
           Holds(q, b, k) <=> IF b = a THEN k \in K ELSE Holds(sh[i], b, k),
         \A k \in K : Named(q, a, k),
         \A b \in Addresses, k \in Nat \ K :
           ~Holds(sh[i], a, k) /\ Named(sh[i], b, k) => Named(q, b, k),
         \A k \in Nat \ left : k \in cont \/ k \in K =>
           \A j \in DOMAIN sh, b \in Addresses : Holds(sh[j], b, k) => j = i /\ b = a
  PROVE  HoldersNamed(Put(sh, i, q), left)
<1> DEFINE p == Put(sh, i, q)
<1>1. /\ DOMAIN p = DOMAIN sh /\ p[i] = q
      /\ \A j \in DOMAIN sh : j # i => p[j] = sh[j]
  BY PutFields
<1> HIDE DEF p
<1>2. \A j \in DOMAIN sh, b \in Addresses, k \in Nat :
        Holds(p[j], b, k) <=> IF j = i /\ b = a THEN k \in K ELSE Holds(sh[j], b, k)
  BY <1>1
<1> SUFFICES ASSUME NEW k \in Nat \ left, NEW j \in DOMAIN sh, NEW m \in DOMAIN sh,
                    NEW b \in Addresses, NEW e \in Addresses,
                    Holds(p[j], b, k), Holds(p[m], e, k)
             PROVE  j = m /\ b = e /\ Named(p[j], b, k)
  BY <1>1 DEF HoldersNamed, p
<1>3. CASE k \in K
  <2>1. j = i /\ b = a /\ m = i /\ e = a
    BY <1>2, <1>3
  <2> QED
    BY <1>1, <1>3, <2>1
<1>4. CASE k \notin K
  <2>1. /\ ~(j = i /\ b = a) /\ Holds(sh[j], b, k)
        /\ ~(m = i /\ e = a) /\ Holds(sh[m], e, k)
    BY <1>2, <1>4
  <2>2. k \notin cont
    BY <2>1
  <2>3. j = m /\ b = e /\ Named(sh[j], b, k)
    BY <2>1, <2>2 DEF HoldersNamed
  <2>4. CASE j # i
    BY <1>1, <2>3, <2>4
  <2>5. CASE j = i
    <3>1. ~Holds(sh[i], a, k)
      BY <2>1, <2>2, <2>5 DEF HoldersNamed
    <3> QED
      BY <1>1, <1>4, <2>3, <2>5, <3>1
  <2> QED
    BY <2>3, <2>4, <2>5
<1> QED
  BY <1>3, <1>4

\* A call that changes which timers of one shard run.
LEMMA ArmedPut ==
  ASSUME NEW sh, ShardsTyped(sh), NEW i \in DOMAIN sh, NEW q \in Registry, NEW arm,
         ArmedAgrees(sh, arm), NEW arm2 \in SUBSET ((DOMAIN sh) \X Addresses \X TimerIds),
         \A j \in DOMAIN sh, b \in Addresses, t \in TimerIds :
           j # i => (<<j, b, t>> \in arm2 <=> <<j, b, t>> \in arm),
         \A b \in Addresses, t \in TimerIds : <<i, b, t>> \in arm2 <=> Runs(q, b, t)
  PROVE  ArmedAgrees(Put(sh, i, q), arm2)
<1>1. \A j \in DOMAIN sh, b \in Addresses, t \in TimerIds :
        <<j, b, t>> \in arm2 <=> Runs(Put(sh, i, q)[j], b, t)
  <2>1. ASSUME NEW j \in DOMAIN sh, NEW b \in Addresses, NEW t \in TimerIds, j # i
        PROVE  <<j, b, t>> \in arm2 <=> Runs(Put(sh, i, q)[j], b, t)
    <3>1. Put(sh, i, q)[j] = sh[j]
      BY <2>1, PutFields
    <3>2. <<j, b, t>> \in arm <=> Runs(sh[j], b, t)
      BY DEF ArmedAgrees
    <3> QED
      BY <2>1, <3>1, <3>2
  <2>2. \A b \in Addresses, t \in TimerIds :
          <<i, b, t>> \in arm2 <=> Runs(Put(sh, i, q)[i], b, t)
    BY PutFields
  <2> QED
    BY <2>1, <2>2
<1> QED
  BY <1>1, PutFields DEF ArmedAgrees

\* A change of timers moves no channel and reaches no other session.
LEMMA SameHolds ==
  ASSUME NEW r, NEW a \in DOMAIN r.sess, NEW q, SameButTimers(r, a, q)
  PROVE  /\ SameLinks(q, r)
         /\ \A b \in Addresses, t \in TimerIds : b # a => (Runs(q, b, t) <=> Runs(r, b, t))
  BY DEF SameButTimers, SameLinks, Holds, Runs, LinksOf

\* N is the number of shards.
LEMMA CountShards ==
  ASSUME ShardsTyped(shards)
  PROVE  N \in Nat \ {0} /\ DOMAIN shards = 0..(N - 1)
<1>1. PICK n \in Nat \ {0} : shards \in [0..(n - 1) -> Registry]
  BY DEF ShardsTyped
<1>2. DOMAIN shards = 0..(n - 1)
  BY <1>1
<1>3. Cardinality(0..(n - 1)) = n
  BY <1>1, FS_Interval
<1>4. N = n
  BY <1>2, <1>3 DEF N
<1> QED
  BY <1>1, <1>2, <1>4

\* What the invariant says of one shard.
LEMMA ShardTyped ==
  ASSUME Inv, NEW i \in DOMAIN shards
  PROVE  /\ Sound(shards[i]) /\ WaitsAgree(shards[i]) /\ ImsisAgree(shards[i], moved)
         /\ shards[i] \in Registry
         /\ DOMAIN shards[i].sess \subseteq Addresses
<1>1. Sound(shards[i]) /\ WaitsAgree(shards[i]) /\ ImsisAgree(shards[i], moved)
  BY DEF Inv, EachSound
<1>2. shards[i] \in Registry
  BY <1>1 DEF Sound
<1> QED
  BY <1>1, <1>2, SessionTyped

\* A new session takes an address nobody has.
LEMMA NewAddressFree ==
  ASSUME NEW i, FreeAddresses(i) # {}
  PROVE  NewAddress(i) \in Addresses \ DOMAIN shards[i].sess
<1>1. FreeAddresses(i) \in SUBSET Nat
  BY TmsiAssumption DEF FreeAddresses
<1>2. NewAddress(i) \in FreeAddresses(i)
  BY <1>1, MinOf DEF NewAddress
<1> QED
  BY <1>2 DEF FreeAddresses

\* Who may call on a shard does not meet a tick there.
LEMMA FreeNotTicked ==
  ASSUME NEW i, Free(i)
  PROVE  tick.todo = {} \/ tick.next # i
  BY DEF Free, Idle

\* What a member of Sessions is.
LEMMA SessionIn ==
  ASSUME Inv, NEW p \in Sessions
  PROVE  /\ p[1] \in DOMAIN shards /\ p[2] \in DOMAIN shards[p[1]].sess
         /\ p[2] \in Addresses /\ p = <<p[1], p[2]>>
         /\ Session(p) = shards[p[1]].sess[p[2]]
  BY DEF Sessions, Session

\* A call on one shard that moves no channel keeps the invariant.
LEMMA OneShardStep ==
  ASSUME Inv, NEW i \in DOMAIN shards, NEW q,
         Sound(q), WaitsAgree(q), ImsisAgree(q, moved),
         SameLinks(q, shards[i]),
         Free(i),
         shards' = Put(shards, i, q), contested' = contested, tick' = tick, moved' = moved,
         ArmedAgrees(Put(shards, i, q), armed')
  PROVE  Inv'
<1>1. q \in Registry
  BY DEF Sound
<1>2. ShardsTyped(shards) /\ EachSound(shards, moved)
      /\ HoldersNamed(shards, contested) /\ TickInv(shards, tick)
  BY DEF Inv
<1>3. ShardsTyped(Put(shards, i, q)) /\ EachSound(Put(shards, i, q), moved)
  BY <1>2, SoundPut
<1>4. HoldersNamed(Put(shards, i, q), contested)
  BY <1>1, <1>2, HoldersSame
<1>5. TickInv(Put(shards, i, q), tick)
  BY <1>1, <1>2, TickPut, FreeNotTicked
<1> QED
  BY <1>2, <1>3, <1>4, <1>5 DEF Inv

\* A new session holds no channel and runs no timer.
LEMMA AddedSame ==
  ASSUME NEW r, NEW a \in Addresses \ DOMAIN r.sess, NEW t \in Tmsis, NEW id \in Tmsis \cup Imsis,
         NEW q, DOMAIN q.sess = DOMAIN r.sess \cup {a},
         \A b \in DOMAIN r.sess : q.sess[b] = r.sess[b],
         q.sess[a] = NewSession(t, id), q.byLink = r.byLink
  PROVE  /\ SameLinks(q, r)
         /\ \A b \in Addresses, u \in TimerIds : Runs(q, b, u) <=> Runs(r, b, u)
<1>1. LinksOf(q, a, {}) /\ \A u \in TimerIds : q.sess[a].timers[u] = 0
  BY NewSessionFields DEF LinksOf
<1>2. \A k \in Nat : ~Holds(q, a, k) /\ ~Holds(r, a, k)
  BY <1>1 DEF Holds, LinksOf
<1>3. \A u \in TimerIds : ~Runs(q, a, u) /\ ~Runs(r, a, u)
  BY <1>1 DEF Runs
<1>4. \A b \in Addresses, k \in Nat : b # a => (Holds(q, b, k) <=> Holds(r, b, k))
  BY DEF Holds
<1>5. \A b \in Addresses, u \in TimerIds : b # a => (Runs(q, b, u) <=> Runs(r, b, u))
  BY DEF Runs
<1> QED
  BY <1>2, <1>3, <1>4, <1>5 DEF SameLinks

\* A call that starts and stops no timer.
LEMMA ArmedKept ==
  ASSUME Inv, NEW i \in DOMAIN shards, NEW q \in Registry,
         \A b \in Addresses, u \in TimerIds : Runs(q, b, u) <=> Runs(shards[i], b, u)
  PROVE  ArmedAgrees(Put(shards, i, q), armed)
<1>1. ShardsTyped(shards) /\ ArmedAgrees(shards, armed)
  BY DEF Inv
<1>2. armed \in SUBSET ((DOMAIN shards) \X Addresses \X TimerIds)
  BY <1>1 DEF ArmedAgrees
<1>3. \A b \in Addresses, t \in TimerIds : <<i, b, t>> \in armed <=> Runs(q, b, t)
  BY <1>1 DEF ArmedAgrees
<1> QED
  BY <1>1, <1>2, <1>3, ArmedPut

\* createByTMSI() keeps the invariant.
LEMMA CreateStep ==
  ASSUME Inv, NEW t \in 0..(TmsiSpace - 1), Create(t)
  PROVE  Inv'
<1> DEFINE i == ShardOf(t)
           r == shards[i]
           a == NewAddress(i)
           q == CreateByTMSI(r, a, t)
<1>1. t \in Tmsis /\ t \notin TmsisOf(r)
  BY TmsiAssumption DEF Create, MayCreateByTMSI, Tmsis
<1>2. i \in DOMAIN shards
  <2>1. N \in Nat \ {0} /\ DOMAIN shards = 0..(N - 1)
    BY CountShards DEF Inv
  <2>2. t \in Nat
    BY <1>1, TmsiAssumption DEF Tmsis
  <2> QED
    BY <2>1, <2>2 DEF ShardOf
<1>3. Free(i) /\ a \in Addresses \ DOMAIN r.sess
  BY NewAddressFree DEF Create
<1>4. shards' = Put(shards, i, q)
  BY DEF Create, Put
<1>5. contested' = contested /\ tick' = tick /\ moved' = moved /\ armed' = armed
  BY DEF Create
<1> HIDE DEF i
<1>6. Sound(r) /\ WaitsAgree(r) /\ ImsisAgree(r, moved) /\ r \in Registry
  BY <1>2, ShardTyped
<1> HIDE DEF r, a
<1>7. Sound(q) /\ WaitsAgree(q) /\ ImsisAgree(q, moved)
  BY <1>1, <1>3, <1>6, CreateByTMSISound
<1>8. /\ q \in Registry
      /\ DOMAIN q.sess = DOMAIN r.sess \cup {a}
      /\ \A b \in DOMAIN r.sess : q.sess[b] = r.sess[b]
      /\ q.sess[a] = NewSession(t, t) /\ q.byLink = r.byLink
  BY <1>1, <1>3, <1>6, CreateByTMSIFields
<1> HIDE DEF q
<1>9. /\ SameLinks(q, r)
      /\ \A b \in Addresses, u \in TimerIds : Runs(q, b, u) <=> Runs(r, b, u)
  BY <1>1, <1>3, <1>8, AddedSame
<1>10. ArmedAgrees(Put(shards, i, q), armed)
  BY <1>2, <1>8, <1>9, ArmedKept DEF r
<1> QED
  BY <1>2, <1>3, <1>4, <1>5, <1>7, <1>9, <1>10, OneShardStep DEF r

\* A registry that is not sharded has the shard 0 only.
LEMMA OneShard ==
  ASSUME Inv, ~Sharded
  PROVE  DOMAIN shards = {0}
<1>1. N \in Nat \ {0} /\ DOMAIN shards = 0..(N - 1)
  BY CountShards DEF Inv
<1>2. N = 1
  BY <1>1 DEF Sharded
<1> QED
  BY <1>1, <1>2

\* A scan that gives up moves the mark and nothing else.
LEMMA ScanFailedSound ==
  ASSUME NEW r, Sound(r), WaitsAgree(r), NEW unsure, ImsisAgree(r, unsure),
         NEW q, q = ScanFailed(r)
  PROVE  /\ Sound(q) /\ WaitsAgree(q) /\ ImsisAgree(q, unsure)
         /\ q.sess = r.sess /\ q.byLink = r.byLink
<1>1. r \in Registry
  BY DEF Sound
<1>2. Cardinality(TmsisOf(r)) + 3 \in Nat
  BY <1>1, TmsisOfFinite
<1> DEFINE k == Cardinality(TmsisOf(r)) + 3
<1>3. Candidate(r, k) \in 0..(TmsiSpace - 1)
  BY <1>1, <1>2, CandidateType
<1>4. q = [r EXCEPT !.nextAuto = Candidate(r, k)]
  BY DEF ScanFailed
<1> HIDE DEF k
<1>5. /\ q \in Registry
      /\ q.sess = r.sess /\ q.byIMSI = r.byIMSI /\ q.byLink = r.byLink /\ q.active = r.active
  BY <1>1, <1>3, <1>4 DEF Registry
<1>6. TmsisDiffer(q) /\ LinksAgree(q) /\ ActiveAgrees(q)
  BY <1>5 DEF Sound, TmsisDiffer, LinksAgree, ActiveAgrees
<1>7. WaitsAgree(q) /\ ImsisAgree(q, unsure)
  BY <1>5 DEF WaitsAgree, ImsisAgree
<1> QED
  BY <1>5, <1>6, <1>7 DEF Sound

\* createByIMSI() keeps the invariant, whether it finds a TMSI or not.
LEMMA CreateWithIMSIStep ==
  ASSUME Inv, NEW im \in Imsis, CreateWithIMSI(im)
  PROVE  Inv'
<1> DEFINE r == shards[0]
<1>1. 0 \in DOMAIN shards /\ Free(0)
  BY OneShard DEF CreateWithIMSI
<1>2. Sound(r) /\ WaitsAgree(r) /\ ImsisAgree(r, moved) /\ r \in Registry
  BY <1>1, ShardTyped
<1>3. contested' = contested /\ tick' = tick /\ moved' = moved /\ armed' = armed
  BY DEF CreateWithIMSI
<1>4. im \notin DOMAIN r.byIMSI
  BY DEF CreateWithIMSI
<1>5. CASE Scan(r) = {}
  <2> DEFINE q == ScanFailed(r)
  <2>1. shards' = Put(shards, 0, q)
    BY <1>5 DEF CreateWithIMSI, Put
  <2>2. /\ Sound(q) /\ WaitsAgree(q) /\ ImsisAgree(q, moved)
        /\ q.sess = r.sess /\ q.byLink = r.byLink
    BY <1>2, ScanFailedSound
  <2> HIDE DEF q, r
  <2>3. q \in Registry
    BY <2>2 DEF Sound
  <2>4. /\ SameLinks(q, r)
        /\ \A b \in Addresses, u \in TimerIds : Runs(q, b, u) <=> Runs(r, b, u)
    BY <2>2 DEF SameLinks, Holds, Runs
  <2>5. ArmedAgrees(Put(shards, 0, q), armed)
    BY <1>1, <2>3, <2>4, ArmedKept DEF r
  <2> QED
    BY <1>1, <1>3, <2>1, <2>2, <2>4, <2>5, OneShardStep DEF r
<1>6. CASE Scan(r) # {}
  <2> DEFINE a == NewAddress(0)
  <2>1. a \in Addresses \ DOMAIN r.sess
    BY <1>6, NewAddressFree DEF CreateWithIMSI
  <2>2. PICK n \in Scan(r) : shards' = [shards EXCEPT ![0] = CreateByIMSI(r, a, im, n)]
    BY <1>6 DEF CreateWithIMSI
  <2> DEFINE q == CreateByIMSI(r, a, im, n)
  <2>3. shards' = Put(shards, 0, q)
    BY <2>2 DEF Put
  <2> HIDE DEF r, a
  <2>4. n \in Nat /\ Usable(r, n)
    BY DEF Scan
  <2>5. /\ Candidate(r, n) \in Tmsis /\ Candidate(r, n) \notin TmsisOf(r)
        /\ Candidate(r, n + 1) \in 0..(TmsiSpace - 1)
    <3>1. Candidate(r, n) \in 0..(TmsiSpace - 1) /\ Candidate(r, n + 1) \in 0..(TmsiSpace - 1)
      BY <1>2, <2>4, CandidateType
    <3> QED
      BY <2>4, <3>1, TmsiAssumption DEF Usable, Tmsis
  <2>6. Sound(q) /\ WaitsAgree(q) /\ ImsisAgree(q, moved)
    BY <1>2, <1>4, <2>1, <2>4, <2>5, CreateByIMSISound
  <2>7. /\ q \in Registry
        /\ DOMAIN q.sess = DOMAIN r.sess \cup {a}
        /\ \A b \in DOMAIN r.sess : q.sess[b] = r.sess[b]
        /\ q.sess[a] = NewSession(Candidate(r, n), im) /\ q.byLink = r.byLink
    BY <1>2, <2>1, <2>4, <2>5, CreateByIMSIFields
  <2> HIDE DEF q
  <2>8. /\ SameLinks(q, r)
        /\ \A b \in Addresses, u \in TimerIds : Runs(q, b, u) <=> Runs(r, b, u)
    BY <2>1, <2>5, <2>7, AddedSame
  <2>9. ArmedAgrees(Put(shards, 0, q), armed)
    BY <1>1, <2>7, <2>8, ArmedKept DEF r
  <2> QED
    BY <1>1, <1>3, <2>3, <2>6, <2>8, <2>9, OneShardStep DEF r
<1> QED
  BY <1>5, <1>6

\* A change of identity is safe for the IMSIs it does not concern.
LEMMA SetIdentitySound ==
  ASSUME NEW r, Sound(r), WaitsAgree(r), NEW unsure, ImsisAgree(r, unsure),
         NEW a \in DOMAIN r.sess, NEW id \in Tmsis \cup Imsis,
         NEW q, q = [r EXCEPT !.sess[a].id = id],
         NEW un2, un2 = unsure \cup ({r.sess[a].id, id} \cap Imsis)
  PROVE  /\ Sound(q) /\ WaitsAgree(q) /\ ImsisAgree(q, un2) /\ SameButTimers(r, a, q)
         /\ q.sess[a].timers = r.sess[a].timers
<1>1. r \in Registry
  BY DEF Sound
<1>2. /\ q \in Registry
      /\ DOMAIN q.sess = DOMAIN r.sess
      /\ \A b \in DOMAIN r.sess : b # a => q.sess[b] = r.sess[b]
      /\ q.sess[a].tmsi = r.sess[a].tmsi
      /\ q.sess[a].id = id
      /\ LinksOf(q, a, LinkKeys(r.sess[a]))
      /\ q.sess[a].timers = r.sess[a].timers
      /\ q.sess[a].tx = r.sess[a].tx
      /\ q.sess[a].due = r.sess[a].due
      /\ q.byIMSI = r.byIMSI /\ q.byLink = r.byLink /\ q.nextAuto = r.nextAuto
      /\ q.active = r.active
  BY <1>1, SetIdentityFields
<1>3. SameButTimers(r, a, q)
  BY <1>2 DEF SameButTimers
<1>4. TmsisDiffer(q) /\ LinksAgree(q)
  BY <1>1, <1>3, SameButTimersSound DEF Sound
<1>5. ActiveAgrees(q)
  BY <1>2 DEF Sound, ActiveAgrees
<1>6. WaitsAgree(q)
  BY <1>2 DEF WaitsAgree
<1>7. ASSUME NEW i \in Imsis \ un2
      PROVE  /\ i \in DOMAIN q.byIMSI =>
                  \E b \in DOMAIN q.sess : q.sess[b].tmsi = q.byIMSI[i] /\ q.sess[b].id = i
             /\ \A b \in DOMAIN q.sess : q.sess[b].id = i =>
                  i \in DOMAIN q.byIMSI /\ q.byIMSI[i] = q.sess[b].tmsi
  <2>1. i \in Imsis \ unsure /\ i # id /\ i # r.sess[a].id
    OBVIOUS
  <2>2. /\ i \in DOMAIN r.byIMSI =>
             \E b \in DOMAIN r.sess : r.sess[b].tmsi = r.byIMSI[i] /\ r.sess[b].id = i
        /\ \A b \in DOMAIN r.sess : r.sess[b].id = i =>
             i \in DOMAIN r.byIMSI /\ r.byIMSI[i] = r.sess[b].tmsi
    BY <2>1 DEF ImsisAgree
  <2> QED
    BY <1>2, <2>1, <2>2
<1>8. ImsisAgree(q, un2)
  BY <1>7 DEF ImsisAgree
<1> QED
  BY <1>2, <1>3, <1>4, <1>5, <1>6, <1>8 DEF Sound

\* setTMSI() and setIMSI() of a context keep the invariant.
LEMMA SetIdentityStep ==
  ASSUME Inv, NEW p \in Sessions, NEW id \in {Session(p).tmsi} \cup Imsis, SetIdentity(p, id)
  PROVE  Inv'
<1> DEFINE i == p[1]
           a == p[2]
           r == shards[i]
           q == [r EXCEPT !.sess[a].id = id]
<1>1. i \in DOMAIN shards /\ a \in DOMAIN r.sess /\ Session(p) = r.sess[a] /\ a \in Addresses
  BY SessionIn
<1>2. Sound(r) /\ WaitsAgree(r) /\ ImsisAgree(r, moved) /\ r \in Registry
  BY <1>1, ShardTyped
<1>3. id \in Tmsis \cup Imsis
  BY <1>1, <1>2, SessionTyped
<1>4. moved' = moved \cup ({r.sess[a].id, id} \cap Imsis)
  BY <1>1 DEF SetIdentity
<1>5. shards' = Put(shards, i, q)
  BY DEF SetIdentity, Put
<1>6. contested' = contested /\ tick' = tick /\ armed' = armed /\ Free(i)
  BY DEF SetIdentity
<1> HIDE DEF i, a, r
<1>7. /\ Sound(q) /\ WaitsAgree(q) /\ ImsisAgree(q, moved') /\ SameButTimers(r, a, q)
      /\ q.sess[a].timers = r.sess[a].timers
  BY <1>1, <1>2, <1>3, <1>4, SetIdentitySound
<1> HIDE DEF q
<1>8. q \in Registry
  BY <1>7 DEF Sound
<1>9. /\ SameLinks(q, r)
      /\ \A b \in Addresses, t \in TimerIds : Runs(q, b, t) <=> Runs(r, b, t)
  <2>1. /\ SameLinks(q, r)
        /\ \A b \in Addresses, t \in TimerIds : b # a => (Runs(q, b, t) <=> Runs(r, b, t))
    BY <1>1, <1>7, SameHolds
  <2>2. \A t \in TimerIds : Runs(q, a, t) <=> Runs(r, a, t)
    BY <1>1, <1>7 DEF Runs, SameButTimers
  <2> QED
    BY <2>1, <2>2
<1>10. ShardsTyped(shards) /\ EachSound(shards, moved)
       /\ HoldersNamed(shards, contested) /\ TickInv(shards, tick)
  BY DEF Inv
<1>11. EachSound(shards, moved')
  <2>1. \A j \in DOMAIN shards : ImsisAgree(shards[j], moved) => ImsisAgree(shards[j], moved')
    BY <1>4 DEF ImsisAgree
  <2> QED
    BY <1>10, <2>1 DEF EachSound
<1>12. ShardsTyped(Put(shards, i, q)) /\ EachSound(Put(shards, i, q), moved')
  BY <1>1, <1>7, <1>10, <1>11, SoundPut
<1>13. HoldersNamed(Put(shards, i, q), contested)
  BY <1>1, <1>8, <1>9, <1>10, HoldersSame DEF r
<1>14. TickInv(Put(shards, i, q), tick)
  BY <1>1, <1>6, <1>8, <1>10, TickPut, FreeNotTicked
<1>15. ArmedAgrees(Put(shards, i, q), armed)
  BY <1>1, <1>8, <1>9, ArmedKept DEF r
<1> QED
  BY <1>5, <1>6, <1>10, <1>12, <1>13, <1>14, <1>15 DEF Inv

\* Who holds what after a change of one session's links.
LEMMA ChannelPutSame ==
  ASSUME NEW r, NEW a \in DOMAIN r.sess, NEW K, NEW q,
         DOMAIN q.sess = DOMAIN r.sess,
         \A b \in DOMAIN r.sess : b # a => q.sess[b] = r.sess[b],
         LinksOf(q, a, K), q.sess[a].timers = r.sess[a].timers
  PROVE  /\ \A b \in Addresses, k \in Nat :
              Holds(q, b, k) <=> IF b = a THEN k \in K ELSE Holds(r, b, k)
         /\ \A b \in Addresses, u \in TimerIds : Runs(q, b, u) <=> Runs(r, b, u)
<1>1. \A k \in Nat : Holds(q, a, k) <=> k \in K
  BY DEF Holds, LinksOf
<1>2. \A b \in Addresses, k \in Nat : b # a => (Holds(q, b, k) <=> Holds(r, b, k))
  BY DEF Holds
<1>3. \A u \in TimerIds : Runs(q, a, u) <=> Runs(r, a, u)
  BY DEF Runs
<1>4. \A b \in Addresses, u \in TimerIds : b # a => (Runs(q, b, u) <=> Runs(r, b, u))
  BY DEF Runs
<1> QED
  BY <1>1, <1>2, <1>3, <1>4

\* A link nobody else holds has at most the session p for a holder.
LEMMA OnlyHolder ==
  ASSUME Inv, NEW p \in Sessions, NEW k, ~OthersHold(p, k),
         NEW j \in DOMAIN shards, NEW b \in Addresses, Holds(shards[j], b, k)
  PROVE  j = p[1] /\ b = p[2]
<1>1. <<j, b>> \in Sessions /\ k \in LinkKeys(Session(<<j, b>>))
  BY DEF Sessions, Session, Holds
<1>2. <<j, b>> \in Holders(k)
  BY <1>1 DEF Holders
<1>3. p = <<j, b>>
  BY <1>2 DEF OthersHold
<1> QED
  BY <1>3

\* assignChannel() keeps the invariant.
LEMMA AssignStep ==
  ASSUME Inv, NEW p \in Sessions, NEW c \in Descriptors, NEW l \in LinkIds, Assign(p, c, l)
  PROVE  Inv'
<1> DEFINE i == p[1]
           a == p[2]
           r == shards[i]
           k == encodeLinkKey(c.trx, c.timeslot, l)
           q == AssignChannel(r, a, c, l)
<1>1. i \in DOMAIN shards /\ a \in DOMAIN r.sess /\ a \in Addresses
  BY SessionIn
<1>2. Sound(r) /\ WaitsAgree(r) /\ ImsisAgree(r, moved) /\ r \in Registry
  BY <1>1, ShardTyped
<1>3. ShardsTyped(shards) /\ EachSound(shards, moved)
      /\ HoldersNamed(shards, contested) /\ TickInv(shards, tick)
  BY DEF Inv
<1>4. tick' = tick /\ armed' = armed /\ moved' = moved /\ Free(i)
  BY DEF Assign
<1>5. shards' = Put(shards, i, q)
  BY DEF Assign, Put
<1>6. ASSUME NEW m \in Nat \ contested', m \in contested \/ m \in {k}
      PROVE  \A j \in DOMAIN shards, b \in Addresses : Holds(shards[j], b, m) => j = i /\ b = a
  <2>1. ~OthersHold(p, m)
    BY <1>6 DEF Assign, Contested
  <2> QED
    BY <2>1, OnlyHolder
<1>7. k \in Nat
  BY KeyIsNat
<1> HIDE DEF i, a, r
<1>8. Sound(q) /\ WaitsAgree(q) /\ ImsisAgree(q, moved)
  BY <1>1, <1>2, AssignChannelSound
<1>9. /\ q \in Registry
      /\ DOMAIN q.sess = DOMAIN r.sess
      /\ \A b \in DOMAIN r.sess : b # a => q.sess[b] = r.sess[b]
      /\ LinksOf(q, a, {k})
      /\ q.sess[a].timers = r.sess[a].timers
      /\ DOMAIN q.byLink = (DOMAIN r.byLink \ LinkKeys(r.sess[a])) \cup {k}
      /\ q.byLink[k] = a
      /\ \A m \in DOMAIN q.byLink : m # k => q.byLink[m] = r.byLink[m]
  BY <1>1, <1>2, AssignChannelFields
<1> HIDE DEF q, k
<1>10. /\ \A b \in Addresses, m \in Nat :
            Holds(q, b, m) <=> IF b = a THEN m \in {k} ELSE Holds(r, b, m)
       /\ \A b \in Addresses, u \in TimerIds : Runs(q, b, u) <=> Runs(r, b, u)
  BY <1>1, <1>9, ChannelPutSame
<1>11. \A m \in {k} : Named(q, a, m)
  BY <1>9 DEF Named
<1>12. \A b \in Addresses, m \in Nat \ {k} : ~Holds(r, a, m) /\ Named(r, b, m) => Named(q, b, m)
  BY <1>1, <1>9 DEF Named, Holds
<1>13. ShardsTyped(Put(shards, i, q)) /\ EachSound(Put(shards, i, q), moved)
  BY <1>1, <1>3, <1>8, SoundPut
<1>14. HoldersNamed(Put(shards, i, q), contested')
  <2> DEFINE K == {k}
  <2>1. K \in SUBSET Nat
    BY <1>7
  <2>2. /\ \A b \in Addresses, m \in Nat :
             Holds(q, b, m) <=> IF b = a THEN m \in K ELSE Holds(shards[i], b, m)
        /\ \A m \in K : Named(q, a, m)
        /\ \A b \in Addresses, m \in Nat \ K :
             ~Holds(shards[i], a, m) /\ Named(shards[i], b, m) => Named(q, b, m)
        /\ \A m \in Nat \ contested' : m \in contested \/ m \in K =>
             \A j \in DOMAIN shards, b \in Addresses : Holds(shards[j], b, m) => j = i /\ b = a
    BY <1>6, <1>10, <1>11, <1>12 DEF r
  <2> HIDE DEF K
  <2> QED
    BY <1>1, <1>3, <1>9, <2>1, <2>2, HoldersMoved DEF r
<1>15. TickInv(Put(shards, i, q), tick)
  BY <1>1, <1>3, <1>4, <1>9, TickPut, FreeNotTicked
<1>16. ArmedAgrees(Put(shards, i, q), armed)
  BY <1>1, <1>9, <1>10, ArmedKept DEF r
<1> QED
  BY <1>4, <1>5, <1>13, <1>14, <1>15, <1>16 DEF Inv

\* The links a session gives up are nobody's, or as before somebody else's.
LEMMA LinksGivenUp ==
  ASSUME Inv, NEW p \in Sessions, NEW q \in Registry, contested' = Contested(p),
         \A b \in Addresses, k \in Nat :
           Holds(q, b, k) <=> b # p[2] /\ Holds(shards[p[1]], b, k),
         DOMAIN q.byLink = DOMAIN shards[p[1]].byLink \ LinkKeys(shards[p[1]].sess[p[2]]),
         \A k \in DOMAIN q.byLink : q.byLink[k] = shards[p[1]].byLink[k]
  PROVE  HoldersNamed(Put(shards, p[1], q), contested')
<1> DEFINE i == p[1]
           a == p[2]
           K == {}
<1>1. i \in DOMAIN shards /\ a \in DOMAIN shards[i].sess /\ a \in Addresses
  BY SessionIn
<1>2. ShardsTyped(shards) /\ HoldersNamed(shards, contested)
  BY DEF Inv
<1>3. ASSUME NEW k \in Nat \ contested', k \in contested \/ k \in K
      PROVE  \A j \in DOMAIN shards, b \in Addresses : Holds(shards[j], b, k) => j = i /\ b = a
  <2>1. ~OthersHold(p, k)
    BY <1>3 DEF Contested
  <2> QED
    BY <2>1, OnlyHolder
<1>4. /\ K \in SUBSET Nat /\ \A k \in K : Named(q, a, k)
      /\ \A b \in Addresses, k \in Nat :
           Holds(q, b, k) <=> IF b = a THEN k \in K ELSE Holds(shards[i], b, k)
  OBVIOUS
<1>5. \A b \in Addresses, k \in Nat \ K :
        ~Holds(shards[i], a, k) /\ Named(shards[i], b, k) => Named(q, b, k)
  BY <1>1 DEF Named, Holds
<1> HIDE DEF i, a, K
<1>6. HoldersNamed(Put(shards, i, q), contested')
  BY <1>1, <1>2, <1>3, <1>4, <1>5, HoldersMoved, SMTT(60)
<1> QED
  BY <1>6 DEF i

\* releaseChannel() keeps the invariant.
LEMMA ReleaseStep ==
  ASSUME Inv, NEW p \in Sessions, Release(p)
  PROVE  Inv'
<1> DEFINE i == p[1]
           a == p[2]
           r == shards[i]
           q == ReleaseChannel(r, a)
<1>1. i \in DOMAIN shards /\ a \in DOMAIN r.sess /\ a \in Addresses
  BY SessionIn
<1>2. Sound(r) /\ WaitsAgree(r) /\ ImsisAgree(r, moved) /\ r \in Registry
  BY <1>1, ShardTyped
<1>3. ShardsTyped(shards) /\ EachSound(shards, moved) /\ TickInv(shards, tick)
  BY DEF Inv
<1>4. tick' = tick /\ armed' = armed /\ moved' = moved /\ Free(i) /\ contested' = Contested(p)
  BY DEF Release
<1>5. shards' = Put(shards, i, q)
  BY DEF Release, Put
<1> HIDE DEF i, a, r
<1>6. Sound(q) /\ WaitsAgree(q) /\ ImsisAgree(q, moved)
  BY <1>1, <1>2, ReleaseChannelSound
<1>7. /\ q \in Registry
      /\ DOMAIN q.sess = DOMAIN r.sess
      /\ \A b \in DOMAIN r.sess : b # a => q.sess[b] = r.sess[b]
      /\ LinksOf(q, a, {})
      /\ q.sess[a].timers = r.sess[a].timers
      /\ DOMAIN q.byLink = DOMAIN r.byLink \ LinkKeys(r.sess[a])
      /\ \A k \in DOMAIN q.byLink : q.byLink[k] = r.byLink[k]
  BY <1>1, <1>2, ReleaseChannelFields
<1> HIDE DEF q
<1>8. /\ \A b \in Addresses, k \in Nat :
            Holds(q, b, k) <=> IF b = a THEN k \in {} ELSE Holds(r, b, k)
      /\ \A b \in Addresses, u \in TimerIds : Runs(q, b, u) <=> Runs(r, b, u)
  BY <1>1, <1>7, ChannelPutSame
<1>9. ShardsTyped(Put(shards, i, q)) /\ EachSound(Put(shards, i, q), moved)
  BY <1>1, <1>3, <1>6, SoundPut
<1>10. HoldersNamed(Put(shards, i, q), contested')
  BY <1>4, <1>7, <1>8, LinksGivenUp DEF i, a, r
<1>11. TickInv(Put(shards, i, q), tick)
  BY <1>1, <1>3, <1>4, <1>7, TickPut, FreeNotTicked
<1>12. ArmedAgrees(Put(shards, i, q), armed)
  BY <1>1, <1>7, <1>8, ArmedKept DEF r
<1> QED
  BY <1>4, <1>5, <1>9, <1>10, <1>11, <1>12 DEF Inv

\* remove() keeps the invariant.
LEMMA RemoveFromStep ==
  ASSUME Inv, NEW p \in Sessions, RemoveFrom(p)
  PROVE  Inv'
<1> DEFINE i == p[1]
           a == p[2]
           r == shards[i]
           q == RemoveSession(r, a)
<1>1. /\ i \in DOMAIN shards /\ a \in DOMAIN r.sess /\ a \in Addresses
      /\ p = <<i, a>>
  BY SessionIn
<1>2. Sound(r) /\ WaitsAgree(r) /\ ImsisAgree(r, moved) /\ r \in Registry
  BY <1>1, ShardTyped
<1>3. ShardsTyped(shards) /\ EachSound(shards, moved)
      /\ TickInv(shards, tick) /\ ArmedAgrees(shards, armed)
  BY DEF Inv
<1>4. tick' = tick /\ moved' = moved /\ Free(i) /\ contested' = Contested(p)
  BY DEF RemoveFrom
<1>5. shards' = Put(shards, i, q)
  BY DEF RemoveFrom, Put
<1>6. armed' = {w \in armed : <<w[1], w[2]>> # <<i, a>>}
  BY <1>1 DEF RemoveFrom, ArmedOf
<1> HIDE DEF i, a, r
<1>7. Sound(q) /\ WaitsAgree(q) /\ ImsisAgree(q, moved)
  BY <1>1, <1>2, RemoveSessionSound
<1>8. /\ q \in Registry
      /\ DOMAIN q.sess = DOMAIN r.sess \ {a}
      /\ \A b \in DOMAIN q.sess : q.sess[b] = r.sess[b]
      /\ DOMAIN q.byLink = DOMAIN r.byLink \ LinkKeys(r.sess[a])
      /\ \A k \in DOMAIN q.byLink : q.byLink[k] = r.byLink[k]
  BY <1>1, <1>2, RemoveSessionFields
<1> HIDE DEF q
<1>9. /\ \A b \in Addresses, k \in Nat : Holds(q, b, k) <=> b # a /\ Holds(r, b, k)
      /\ \A b \in Addresses, u \in TimerIds : Runs(q, b, u) <=> b # a /\ Runs(r, b, u)
  BY <1>8 DEF Holds, Runs
<1>10. ShardsTyped(Put(shards, i, q)) /\ EachSound(Put(shards, i, q), moved)
  BY <1>1, <1>3, <1>7, SoundPut
<1>11. HoldersNamed(Put(shards, i, q), contested')
  BY <1>4, <1>8, <1>9, LinksGivenUp DEF i, a, r
<1>12. TickInv(Put(shards, i, q), tick)
  BY <1>1, <1>3, <1>4, <1>8, TickPut, FreeNotTicked
<1>13. ArmedAgrees(Put(shards, i, q), armed')
  <2>1. armed' \in SUBSET ((DOMAIN shards) \X Addresses \X TimerIds)
    BY <1>3, <1>6 DEF ArmedAgrees
  <2>2. \A j, b, t : <<j, b, t>> \in armed' <=> <<j, b, t>> \in armed /\ ~(j = i /\ b = a)
    BY <1>6
  <2>3. \A b \in Addresses, t \in TimerIds : <<i, b, t>> \in armed <=> Runs(r, b, t)
    BY <1>1, <1>3 DEF ArmedAgrees, r
  <2>4. \A b \in Addresses, t \in TimerIds : <<i, b, t>> \in armed' <=> Runs(q, b, t)
    BY <1>9, <2>2, <2>3
  <2> QED
    BY <1>1, <1>3, <1>8, <2>1, <2>2, <2>4, ArmedPut
<1> QED
  BY <1>4, <1>5, <1>10, <1>11, <1>12, <1>13 DEF Inv

\* clear() keeps the invariant.
LEMMA ClearAllStep ==
  ASSUME Inv, ClearAll
  PROVE  Inv'
<1> DEFINE r == shards[0]
           q == Clear(r)
<1>1. DOMAIN shards = {0} /\ Free(0)
  BY OneShard DEF ClearAll
<1>2. r \in Registry
  BY <1>1, ShardTyped
<1>3. /\ q \in Registry
      /\ DOMAIN q.sess = {} /\ DOMAIN q.byIMSI = {} /\ DOMAIN q.byLink = {}
      /\ q.active = {}
  <2>1. r.nextAuto \in 0..(TmsiSpace - 1)
    BY <1>2 DEF Registry
  <2> QED
    BY <2>1, EmptyFields DEF Clear
<1>4. shards' = Put(shards, 0, q) /\ armed' = {} /\ moved' = {} /\ tick' = tick
  BY DEF ClearAll, Put
<1> HIDE DEF q
<1>5. ShardsTyped(shards) /\ TickInv(shards, tick)
  BY DEF Inv
<1>6. ShardsTyped(shards') /\ DOMAIN shards' = {0} /\ shards'[0] = q
  BY <1>1, <1>3, <1>4, <1>5, PutFields
<1>7. Sound(q) /\ WaitsAgree(q) /\ ImsisAgree(q, {})
  BY <1>3 DEF Sound, TmsisDiffer, LinksAgree, ActiveAgrees, WaitsAgree, ImsisAgree
<1>8. EachSound(shards', moved')
  BY <1>4, <1>6, <1>7 DEF EachSound
<1>9. HoldersNamed(shards', contested')
  BY <1>3, <1>6 DEF HoldersNamed, Holds
<1>10. ArmedAgrees(shards', armed')
  BY <1>3, <1>4, <1>6 DEF ArmedAgrees, Runs
<1>11. TickInv(shards', tick')
  BY <1>1, <1>3, <1>4, <1>5, TickPut, FreeNotTicked
<1> QED
  BY <1>6, <1>8, <1>9, <1>10, <1>11 DEF Inv

\* The begin of a transaction keeps the invariant.
LEMMA BeginStep ==
  ASSUME Inv, NEW p \in Sessions, NEW t \in TimerIds, NEW expiry \in Expiries, Begin(p, t, expiry)
  PROVE  Inv'
<1> DEFINE i == p[1]
           a == p[2]
           r == shards[i]
           q == Begun(r, a, t, expiry)
<1>1. i \in DOMAIN shards /\ a \in DOMAIN r.sess /\ Session(p) = r.sess[a] /\ a \in Addresses
  BY SessionIn
<1>2. Sound(r) /\ WaitsAgree(r) /\ ImsisAgree(r, moved) /\ r \in Registry
  BY <1>1, ShardTyped
<1>3. ShardsTyped(shards) /\ ArmedAgrees(shards, armed)
  BY DEF Inv
<1>4. contested' = contested /\ tick' = tick /\ moved' = moved /\ Free(i)
      /\ armed' = armed \cup {<<i, a, t>>}
  BY DEF Begin
<1>5. shards' = Put(shards, i, q)
  BY <1>1 DEF Begin, Put, Begun
<1> HIDE DEF i, a, r
<1>6. /\ Sound(q) /\ SameButTimers(r, a, q) /\ WaitsAgree(q) /\ q.sess[a].id = r.sess[a].id
      /\ \A u \in TimerIds : q.sess[a].timers[u] > 0 <=> r.sess[a].timers[u] > 0 \/ u = t
  BY <1>1, <1>2, RoomAssumption, BeginSound
<1> HIDE DEF q
<1>7. ImsisAgree(q, moved)
  BY <1>1, <1>2, <1>6, ImsisStep
<1>8. q \in Registry
  BY <1>6 DEF Sound
<1>9. /\ SameLinks(q, r)
      /\ \A b \in Addresses, u \in TimerIds : b # a => (Runs(q, b, u) <=> Runs(r, b, u))
  BY <1>1, <1>6, SameHolds
<1>10. \A u \in TimerIds : Runs(q, a, u) <=> Runs(r, a, u) \/ u = t
  BY <1>1, <1>6 DEF Runs, SameButTimers
<1>11. ArmedAgrees(Put(shards, i, q), armed')
  <2>1. armed' \in SUBSET ((DOMAIN shards) \X Addresses \X TimerIds)
    BY <1>1, <1>3, <1>4 DEF ArmedAgrees
  <2>2. \A j, b, u : <<j, b, u>> \in armed' <=>
          <<j, b, u>> \in armed \/ (j = i /\ b = a /\ u = t)
    BY <1>4
  <2>3. \A b \in Addresses, u \in TimerIds : <<i, b, u>> \in armed <=> Runs(r, b, u)
    BY <1>1, <1>3 DEF ArmedAgrees, r
  <2>4. \A b \in Addresses, u \in TimerIds : <<i, b, u>> \in armed' <=> Runs(q, b, u)
    BY <1>9, <1>10, <2>2, <2>3
  <2> QED
    BY <1>1, <1>3, <1>8, <2>1, <2>2, <2>4, ArmedPut
<1> QED
  BY <1>1, <1>4, <1>5, <1>6, <1>7, <1>9, <1>11, OneShardStep DEF r

\* The timers in out of one session stop, and the application hears of them.
LEMMA ArmedDropped ==
  ASSUME NEW sh, ShardsTyped(sh), NEW i \in DOMAIN sh, NEW a \in Addresses, NEW q \in Registry,
         NEW arm, ArmedAgrees(sh, arm), NEW out \in SUBSET TimerIds, NEW arm2,
         \A w : w \in arm2 <=> w \in arm /\ ~(\E t \in out : w = <<i, a, t>>),
         \A b \in Addresses, u \in TimerIds : b # a => (Runs(q, b, u) <=> Runs(sh[i], b, u)),
         \A u \in TimerIds : Runs(q, a, u) <=> Runs(sh[i], a, u) /\ u \notin out
  PROVE  ArmedAgrees(Put(sh, i, q), arm2)
<1>1. arm2 \in SUBSET ((DOMAIN sh) \X Addresses \X TimerIds)
  BY DEF ArmedAgrees
<1>2. \A j, b, u : <<j, b, u>> \in arm2 <=>
        <<j, b, u>> \in arm /\ ~(j = i /\ b = a /\ u \in out)
  <2> TAKE j, b, u
  <2>1. (\E t \in out : <<j, b, u>> = <<i, a, t>>) <=> (j = i /\ b = a /\ u \in out)
    OBVIOUS
  <2> QED
    BY <2>1
<1>3. \A b \in Addresses, u \in TimerIds : <<i, b, u>> \in arm <=> Runs(sh[i], b, u)
  BY DEF ArmedAgrees
<1>4. \A b \in Addresses, u \in TimerIds : <<i, b, u>> \in arm2 <=> Runs(q, b, u)
  BY <1>2, <1>3
<1> QED
  BY <1>1, <1>2, <1>4, ArmedPut

\* The end of a transaction keeps the invariant.
LEMMA FinishStep ==
  ASSUME Inv, NEW p \in Sessions, NEW t \in TimerIds, Finish(p, t)
  PROVE  Inv'
<1> DEFINE i == p[1]
           a == p[2]
           r == shards[i]
           q == Finished(r, a, t)
<1>1. i \in DOMAIN shards /\ a \in DOMAIN r.sess /\ Session(p) = r.sess[a] /\ a \in Addresses
  BY SessionIn
<1>2. Sound(r) /\ WaitsAgree(r) /\ ImsisAgree(r, moved) /\ r \in Registry
  BY <1>1, ShardTyped
<1>3. ShardsTyped(shards) /\ ArmedAgrees(shards, armed)
  BY DEF Inv
<1>4. contested' = contested /\ tick' = tick /\ moved' = moved /\ Free(i)
      /\ armed' = armed \ {<<i, a, t>>}
  BY DEF Finish
<1>5. shards' = Put(shards, i, q)
  BY <1>1 DEF Finish, Put, Finished
<1> HIDE DEF i, a, r
<1>6. /\ Sound(q) /\ SameButTimers(r, a, q) /\ WaitsAgree(q) /\ q.sess[a].id = r.sess[a].id
      /\ \A u \in TimerIds : q.sess[a].timers[u] > 0 <=> r.sess[a].timers[u] > 0 /\ u # t
  BY <1>1, <1>2, FinishSound
<1> HIDE DEF q
<1>7. ImsisAgree(q, moved)
  BY <1>1, <1>2, <1>6, ImsisStep
<1>8. q \in Registry
  BY <1>6 DEF Sound
<1>9. /\ SameLinks(q, r)
      /\ \A b \in Addresses, u \in TimerIds : b # a => (Runs(q, b, u) <=> Runs(r, b, u))
  BY <1>1, <1>6, SameHolds
<1>10. \A u \in TimerIds : Runs(q, a, u) <=> Runs(r, a, u) /\ u \notin {t}
  BY <1>1, <1>6 DEF Runs, SameButTimers
<1>11. \A w : w \in armed' <=> w \in armed /\ ~(\E u \in {t} : w = <<i, a, u>>)
  BY <1>4
<1>12. ArmedAgrees(Put(shards, i, q), armed')
  BY <1>1, <1>3, <1>8, <1>9, <1>10, <1>11, ArmedDropped DEF r
<1> QED
  BY <1>1, <1>4, <1>5, <1>6, <1>7, <1>9, <1>12, OneShardStep DEF r

\* What a tick of one session does to the shard and to the others.
LEMMA TickedEffect ==
  ASSUME NEW r, NEW unsure, ImsisAgree(r, unsure), NEW a \in DOMAIN r.sess, NEW q, NEW delta,
         NEW out, Ticked(r, a, q, delta, out)
  PROVE  /\ Sound(q) /\ WaitsAgree(q) /\ ImsisAgree(q, unsure) /\ q \in Registry
         /\ DOMAIN q.sess = DOMAIN r.sess
         /\ SameLinks(q, r)
         /\ \A b \in Addresses, u \in TimerIds : b # a => (Runs(q, b, u) <=> Runs(r, b, u))
         /\ \A u \in TimerIds : Runs(q, a, u) <=> Runs(r, a, u) /\ u \notin out
<1>1. /\ Sound(q) /\ SameButTimers(r, a, q) /\ WaitsAgree(q) /\ q.sess[a].id = r.sess[a].id
      /\ \A u \in TimerIds : q.sess[a].timers[u] > 0 <=> r.sess[a].timers[u] > 0 /\ u \notin out
  BY DEF Ticked
<1>2. ImsisAgree(q, unsure)
  BY <1>1, ImsisStep
<1>3. q \in Registry /\ DOMAIN q.sess = DOMAIN r.sess
  BY <1>1 DEF SameButTimers
<1>4. /\ SameLinks(q, r)
      /\ \A b \in Addresses, u \in TimerIds : b # a => (Runs(q, b, u) <=> Runs(r, b, u))
  BY <1>1, SameHolds
<1>5. \A u \in TimerIds : Runs(q, a, u) <=> Runs(r, a, u) /\ u \notin out
  BY <1>1, <1>3 DEF Runs
<1> QED
  BY <1>1, <1>2, <1>3, <1>4, <1>5

\* The application's own tick of a session keeps the invariant.
LEMMA TickOneStep ==
  ASSUME Inv, NEW p \in Sessions, NEW delta \in Deltas, TickOne(p, delta)
  PROVE  Inv'
<1> DEFINE i == p[1]
           a == p[2]
           r == shards[i]
           out == Written(r.sess[a].timers, delta, OutSize)
           q == SetWaits(SetTimers(r, a, TickTimers(r.sess[a].timers, delta, OutSize)), a,
                         r.sess[a].tx \ Written(r.sess[a].timers, delta, OutSize),
                         Elapse(r.sess[a].due, delta))
<1>1. i \in DOMAIN shards /\ a \in DOMAIN r.sess /\ Session(p) = r.sess[a] /\ a \in Addresses
  BY SessionIn
<1>2. Sound(r) /\ WaitsAgree(r) /\ ImsisAgree(r, moved) /\ r \in Registry
  BY <1>1, ShardTyped
<1>3. ShardsTyped(shards) /\ ArmedAgrees(shards, armed)
  BY DEF Inv
<1>4. contested' = contested /\ tick' = tick /\ moved' = moved /\ Free(i)
      /\ armed' = armed \ {<<i, a, t>> : t \in out}
  BY <1>1 DEF TickOne
<1>5. shards' = Put(shards, i, q)
  BY <1>1 DEF TickOne, Put
<1> HIDE DEF i, a, r
<1>6. Ticked(r, a, q, delta, out)
  BY <1>1, <1>2, RoomAssumption, TickOneTicked
<1>7. out \in SUBSET TimerIds
  BY DEF Written, Expiring, Running
<1> HIDE DEF q, out
<1>8. /\ Sound(q) /\ WaitsAgree(q) /\ ImsisAgree(q, moved) /\ q \in Registry
      /\ SameLinks(q, r)
      /\ \A b \in Addresses, u \in TimerIds : b # a => (Runs(q, b, u) <=> Runs(r, b, u))
      /\ \A u \in TimerIds : Runs(q, a, u) <=> Runs(r, a, u) /\ u \notin out
  BY <1>1, <1>2, <1>6, TickedEffect
<1>9. \A w : w \in armed' <=> w \in armed /\ ~(\E t \in out : w = <<i, a, t>>)
  BY <1>4
<1>10. ArmedAgrees(Put(shards, i, q), armed')
  BY <1>1, <1>3, <1>7, <1>8, <1>9, ArmedDropped DEF r
<1> QED
  BY <1>1, <1>4, <1>5, <1>8, <1>10, OneShardStep DEF r

\* No tick in progress, or one at its start.
LEMMA IdleTick ==
  ASSUME NEW sh, ShardsTyped(sh), NEW d \in Nat
  PROVE  TickInv(sh, Idle) /\ TickInv(sh, [Idle EXCEPT !.delta = d])
<1>1. 0 \in DOMAIN sh
  BY DEF ShardsTyped
<1> QED
  BY <1>1 DEF TickInv, Idle

\* The tick goes on to the next shard, or returns.
LEMMA AdvancedTick ==
  ASSUME Inv, NEW w \in Nat
  PROVE  TickInv(shards, Advanced(w))
<1>1. ShardsTyped(shards) /\ TickInv(shards, tick)
  BY DEF Inv
<1>2. CASE tick.next = N - 1
  BY <1>1, <1>2, IdleTick DEF Advanced
<1>3. CASE tick.next # N - 1
  <2>1. N \in Nat \ {0} /\ DOMAIN shards = 0..(N - 1)
    BY <1>1, CountShards
  <2>2. tick \in [delta : Nat, next : Nat, written : Nat, todo : SUBSET Addresses]
        /\ tick.next \in 0..(N - 1)
    BY <1>1, <2>1 DEF TickInv
  <2> DEFINE tk == [tick EXCEPT !.next = tick.next + 1, !.written = w, !.todo = {}]
  <2>3. Advanced(w) = tk
    BY <1>3 DEF Advanced
  <2>4. /\ tk \in [delta : Nat, next : Nat, written : Nat, todo : SUBSET Addresses]
        /\ tk.next = tick.next + 1 /\ tk.todo = {}
    <3>1. tick.next + 1 \in Nat /\ {} \in SUBSET Addresses
      BY <2>2
    <3> QED
      BY <2>2, <3>1
  <2>5. tick.next + 1 \in 0..(N - 1)
    BY <1>3, <2>1, <2>2
  <2> HIDE DEF tk
  <2> QED
    BY <2>1, <2>3, <2>4, <2>5 DEF TickInv
<1> QED
  BY <1>2, <1>3

\* Locking a shard and taking the snapshot keeps the invariant.
LEMMA TickShardStep ==
  ASSUME Inv, TickShard
  PROVE  Inv'
<1>1. ShardsTyped(shards) /\ TickInv(shards, tick)
  BY DEF Inv
<1> DEFINE i == tick.next
<1>2. /\ tick \in [delta : Nat, next : Nat, written : Nat, todo : SUBSET Addresses]
      /\ i \in DOMAIN shards
  BY <1>1 DEF TickInv
<1>3. shards[i].active \subseteq DOMAIN shards[i].sess /\ shards[i].active \subseteq Addresses
  <2>1. Sound(shards[i]) /\ shards[i] \in Registry
    BY <1>2, ShardTyped
  <2>2. shards[i].active \subseteq Addresses
    BY <2>1 DEF Registry
  <2> QED
    BY <2>1, <2>2 DEF Sound, ActiveAgrees
<1>4. TickInv(shards, [tick EXCEPT !.todo = shards[i].active])
  BY <1>2, <1>3 DEF TickInv
<1>5. TickInv(shards, Idle)
  BY <1>1, IdleTick
<1>6. TickInv(shards, Advanced(tick.written))
  BY <1>2, AdvancedTick
<1>7. TickInv(shards, tick')
  BY <1>4, <1>5, <1>6 DEF TickShard
<1> QED
  BY <1>7 DEF Inv, TickShard

\* The turn of a session of the snapshot keeps the invariant.
LEMMA TickTurnStep ==
  ASSUME Inv, NEW a \in tick.todo, TickTurn(a)
  PROVE  Inv'
<1> DEFINE i == tick.next
           r == shards[i]
           room == OutSize - tick.written
           out == Written(r.sess[a].timers, tick.delta, room)
           wr == tick.written + Cardinality(out)
           q == TickSession(r, a, tick.delta, room)
<1>1. ShardsTyped(shards) /\ EachSound(shards, moved) /\ HoldersNamed(shards, contested)
      /\ TickInv(shards, tick) /\ ArmedAgrees(shards, armed)
  BY DEF Inv
<1>2. /\ tick \in [delta : Nat, next : Nat, written : Nat, todo : SUBSET Addresses]
      /\ i \in DOMAIN shards /\ tick.todo \subseteq DOMAIN r.sess /\ a \in DOMAIN r.sess
      /\ a \in Addresses /\ tick.delta \in Nat /\ tick.written \in Nat
  BY <1>1 DEF TickInv
<1>3. Sound(r) /\ WaitsAgree(r) /\ ImsisAgree(r, moved) /\ r \in Registry
  BY <1>2, ShardTyped
<1>4. shards' = Put(shards, i, q)
  BY DEF TickTurn, Put
<1>5. contested' = contested /\ moved' = moved /\ armed' = armed \ {<<i, a, t>> : t \in out}
  BY DEF TickTurn
<1>6. tick' = IF tick.todo = {a} THEN Advanced(wr)
              ELSE [tick EXCEPT !.todo = @ \ {a}, !.written = wr]
  BY DEF TickTurn
<1>7. out \in SUBSET TimerIds
  BY DEF Written, Expiring, Running
<1>8. wr \in Nat
  <2>1. IsFiniteSet(out)
    BY <1>7, TimersAssumption, FS_Subset
  <2>2. Cardinality(out) \in Nat
    BY <2>1, FS_CardinalityType
  <2> QED
    BY <1>2, <2>2
<1>9. Ticked(r, a, q, tick.delta, out)
  <2> HIDE DEF r, room
  <2> QED
    BY <1>2, <1>3, TickSessionTicked
<1> HIDE DEF i, r, q, out, wr
<1>10. /\ Sound(q) /\ WaitsAgree(q) /\ ImsisAgree(q, moved) /\ q \in Registry
       /\ DOMAIN q.sess = DOMAIN r.sess
       /\ SameLinks(q, r)
       /\ \A b \in Addresses, u \in TimerIds : b # a => (Runs(q, b, u) <=> Runs(r, b, u))
       /\ \A u \in TimerIds : Runs(q, a, u) <=> Runs(r, a, u) /\ u \notin out
  BY <1>2, <1>3, <1>9, TickedEffect
<1>11. \A w : w \in armed' <=> w \in armed /\ ~(\E t \in out : w = <<i, a, t>>)
  BY <1>5
<1>12. ArmedAgrees(Put(shards, i, q), armed')
  BY <1>1, <1>2, <1>7, <1>10, <1>11, ArmedDropped DEF r
<1>13. ShardsTyped(Put(shards, i, q)) /\ EachSound(Put(shards, i, q), moved)
  BY <1>1, <1>2, <1>10, SoundPut
<1>14. HoldersNamed(Put(shards, i, q), contested)
  BY <1>1, <1>2, <1>10, HoldersSame DEF r
<1>15. TickInv(shards, tick')
  <2>1. CASE tick.todo = {a}
    BY <1>6, <1>8, <2>1, AdvancedTick
  <2>2. CASE tick.todo # {a}
    <3> DEFINE tk == [tick EXCEPT !.todo = tick.todo \ {a}, !.written = wr]
    <3>1. tick' = tk
      BY <1>6, <2>2
    <3>2. /\ tk \in [delta : Nat, next : Nat, written : Nat, todo : SUBSET Addresses]
          /\ tk.next = i /\ tk.todo = tick.todo \ {a}
      BY <1>2, <1>8 DEF i
    <3> HIDE DEF tk
    <3> QED
      BY <1>2, <3>1, <3>2 DEF TickInv, r
  <2> QED
    BY <2>1, <2>2
<1>16. TickInv(Put(shards, i, q), tick')
  BY <1>1, <1>2, <1>10, <1>15, TickPut DEF r
<1> QED
  BY <1>1, <1>4, <1>5, <1>12, <1>13, <1>14, <1>16 DEF Inv

-----------------------------------------------------------------------------
(* The theorems                                                            *)

\* The registry starts sound.
LEMMA InitInv == Init => Inv
<1> SUFFICES ASSUME Init PROVE Inv
  OBVIOUS
<1>1. PICK n \in ShardCounts : shards = [i \in 0..(n - 1) |-> EmptyRegistry]
  BY DEF Init
<1>2. n \in Nat \ {0}
  BY RoomAssumption
<1> DEFINE e == EmptyRegistry
<1>3. /\ e \in Registry
      /\ DOMAIN e.sess = {} /\ DOMAIN e.byIMSI = {} /\ DOMAIN e.byLink = {}
      /\ e.active = {}
  <2>1. EmptyRegistry = [EmptyRegistry EXCEPT !.nextAuto = 1]
    BY DEF EmptyRegistry
  <2>2. 1 \in 0..(TmsiSpace - 1)
    BY TmsiAssumption
  <2> QED
    BY <2>1, <2>2, EmptyFields
<1>4. Sound(e) /\ WaitsAgree(e) /\ ImsisAgree(e, {})
  BY <1>3 DEF Sound, TmsisDiffer, LinksAgree, ActiveAgrees, WaitsAgree, ImsisAgree
<1> HIDE DEF e
<1>5. shards \in [0..(n - 1) -> Registry] /\ \A i \in DOMAIN shards : shards[i] = e
  BY <1>1, <1>3 DEF e
<1>6. ShardsTyped(shards)
  BY <1>2, <1>5 DEF ShardsTyped
<1>7. EachSound(shards, moved)
  BY <1>4, <1>5 DEF EachSound, Init
<1>8. HoldersNamed(shards, contested)
  BY <1>3, <1>5 DEF HoldersNamed, Holds
<1>9. ArmedAgrees(shards, armed)
  BY <1>3, <1>5 DEF ArmedAgrees, Runs, Init
<1>10. TickInv(shards, tick)
  BY <1>6, IdleTick DEF Init
<1> QED
  BY <1>6, <1>7, <1>8, <1>9, <1>10 DEF Inv

\* Every call, and every step of a tick, keeps the invariant.
LEMMA NextInv == Inv /\ [Next]_vars => Inv'
<1> SUFFICES ASSUME Inv, [Next]_vars PROVE Inv'
  OBVIOUS
<1>1. ASSUME NEW t \in 0..(TmsiSpace - 1), Create(t) PROVE Inv'
  BY <1>1, CreateStep
<1>2. ASSUME NEW i \in Imsis, CreateWithIMSI(i) PROVE Inv'
  BY <1>2, CreateWithIMSIStep
<1>3. ASSUME NEW p \in Sessions, NEW id \in {Session(p).tmsi} \cup Imsis, SetIdentity(p, id)
      PROVE  Inv'
  BY <1>3, SetIdentityStep
<1>4. ASSUME NEW p \in Sessions, NEW desc \in Descriptors, NEW link \in LinkIds, Assign(p, desc, link)
      PROVE  Inv'
  BY <1>4, AssignStep
<1>5. ASSUME NEW p \in Sessions, Release(p) PROVE Inv'
  BY <1>5, ReleaseStep
<1>6. ASSUME NEW p \in Sessions, RemoveFrom(p) PROVE Inv'
  BY <1>6, RemoveFromStep
<1>7. ASSUME NEW p \in Sessions, NEW t \in TimerIds, Finish(p, t) PROVE Inv'
  BY <1>7, FinishStep
<1>8. ASSUME NEW p \in Sessions, NEW t \in TimerIds, NEW e \in Expiries, Begin(p, t, e)
      PROVE  Inv'
  BY <1>8, BeginStep
<1>9. ASSUME NEW p \in Sessions, NEW delta \in Deltas, TickOne(p, delta) PROVE Inv'
  BY <1>9, TickOneStep
<1>10. CASE ClearAll
  BY <1>10, ClearAllStep
<1>11. CASE Close
  BY <1>11 DEF Close, Inv
<1>12. ASSUME NEW delta \in Deltas, TickAllTimers(delta) PROVE Inv'
  <2>1. ShardsTyped(shards) /\ delta \in Nat
    BY RoomAssumption DEF Inv
  <2>2. TickInv(shards, tick')
    BY <1>12, <2>1, IdleTick DEF TickAllTimers
  <2> QED
    BY <1>12, <2>2 DEF TickAllTimers, Inv
<1>13. CASE TickShard
  BY <1>13, TickShardStep
<1>14. ASSUME NEW a \in tick.todo, TickTurn(a) PROVE Inv'
  BY <1>14, TickTurnStep
<1>15. CASE UNCHANGED vars
  BY <1>15 DEF vars, Inv
<1> QED
  BY <1>1, <1>2, <1>3, <1>4, <1>5, <1>6, <1>7, <1>8, <1>9, <1>10, <1>11, <1>12, <1>13, <1>14,
     <1>15 DEF Next

\* The indexes of every shard, the armed timers and the tick in progress
\* agree with the sessions in every reachable state, the link indexes except
\* for the links that were assigned while another session held them.
THEOREM RegistryAlwaysSound == Spec => []Inv
  BY InitInv, NextInv, PTL DEF Spec

\* mActiveTimerSessions names exactly the sessions with a running timer
\* (handleTimerActive, remove, clear, tickAllTimers).
THEOREM ActiveIndexAlwaysExact == Spec => []ActiveIndexExact
<1>1. Inv => ActiveIndexExact
  <2> SUFFICES ASSUME Inv, NEW i \in DOMAIN shards
               PROVE  shards[i].active =
                        {a \in DOMAIN shards[i].sess : Running(shards[i].sess[a].timers) # {}}
    BY DEF ActiveIndexExact
  <2>1. Sound(shards[i]) /\ shards[i] \in Registry /\ DOMAIN shards[i].sess \subseteq Addresses
    BY ShardTyped
  <2>2. shards[i].active \subseteq Addresses
    BY <2>1 DEF Registry
  <2> QED
    BY <2>1, <2>2 DEF Sound, ActiveAgrees
<1> QED
  BY <1>1, RegistryAlwaysSound, PTL

\* No expiry is dropped, however small the output buffer (tick,
\* tickAllTimers, start, stop, remove).
THEOREM NoExpiryEverLost == Spec => []NoExpiryLost
<1>1. Inv => NoExpiryLost
  <2> SUFFICES ASSUME Inv PROVE NoExpiryLost
    OBVIOUS
  <2> DEFINE all == (DOMAIN shards) \X Addresses \X TimerIds
             runs(w) == <<w[1], w[2]>> \in Sessions /\ Session(<<w[1], w[2]>>).timers[w[3]] > 0
  <2>1. ArmedAgrees(shards, armed)
    BY DEF Inv
  <2>2. ASSUME NEW w \in all PROVE w \in armed <=> runs(w)
    <3>1. PICK i \in DOMAIN shards, a \in Addresses, t \in TimerIds : w = <<i, a, t>>
      OBVIOUS
    <3>2. w \in armed <=> Runs(shards[i], a, t)
      BY <2>1, <3>1 DEF ArmedAgrees
    <3>3. <<i, a>> \in Sessions <=> a \in DOMAIN shards[i].sess
      BY DEF Sessions
    <3>4. Session(<<i, a>>) = shards[i].sess[a]
      BY DEF Session
    <3> QED
      BY <3>1, <3>2, <3>3, <3>4 DEF Runs
  <2>3. armed \subseteq all
    BY <2>1 DEF ArmedAgrees
  <2> HIDE DEF all, runs
  <2>4. armed = {w \in all : runs(w)}
    BY <2>2, <2>3
  <2> QED
    BY <2>4 DEF NoExpiryLost, all, runs
<1> QED
  BY <1>1, RegistryAlwaysSound, PTL

\* The 1 ms re-arm of an expiry that found no room never cuts short the wait
\* of a transaction begun anew on the same timer (tickAllTimers, start).
THEOREM NoEarlyTimeout == Spec => []TimeoutNotEarly
<1>1. Inv => TimeoutNotEarly
  <2> SUFFICES ASSUME Inv, NEW p \in Sessions, NEW t \in TimerIds, Session(p).due[t] > 0
               PROVE  t \in Session(p).tx /\ Session(p).timers[t] = Session(p).due[t]
    BY DEF TimeoutNotEarly
  <2>1. /\ p[1] \in DOMAIN shards /\ p[2] \in DOMAIN shards[p[1]].sess
        /\ Session(p) = shards[p[1]].sess[p[2]]
    BY SessionIn
  <2>2. WaitsAgree(shards[p[1]])
    BY <2>1, ShardTyped
  <2> QED
    BY <2>1, <2>2 DEF WaitsAgree
<1> QED
  BY <1>1, RegistryAlwaysSound, PTL

\* The keys of the instance are numbers.
LEMMA KeysAreNumbers == Keys \subseteq Nat
<1> SUFFICES ASSUME NEW trx \in Trxs, NEW ts \in Timeslots, NEW link \in LinkIds
             PROVE  encodeLinkKey(trx, ts, link) \in Nat
  BY DEF Keys
<1>1. trx \in Nat /\ ts \in Nat /\ link \in Nat
  BY LinkAssumption
<1> QED
  BY <1>1 DEF encodeLinkKey

\* What a link index finds under a key, and who holds the key.
LEMMA FoundAndHeld ==
  ASSUME Inv, NEW k, NEW p
  PROVE  /\ p \in Found(k) <=> /\ p \in (DOMAIN shards) \X Addresses
                               /\ Named(shards[p[1]], p[2], k)
         /\ p \in Holders(k) <=> /\ p \in (DOMAIN shards) \X Addresses
                                 /\ Holds(shards[p[1]], p[2], k)
<1>1. p \in Found(k) <=> /\ p \in (DOMAIN shards) \X Addresses
                         /\ Named(shards[p[1]], p[2], k)
  BY DEF Found, FindByLink, Named
<1>2. p \in Holders(k) <=> /\ p \in (DOMAIN shards) \X Addresses
                           /\ Holds(shards[p[1]], p[2], k)
  BY DEF Holders, Sessions, Session, Holds
<1> QED
  BY <1>1, <1>2

\* findByLink() finds only a session that holds the link, and finds the one
\* holder of every link that was not assigned to a second session while
\* another held it (assignChannel, releaseChannel, remove).
THEOREM LinkIndexAlwaysExact == Spec => []LinkIndexExact
<1>1. Inv => LinkIndexExact
  <2> SUFFICES ASSUME Inv, NEW k \in Keys
               PROVE  /\ Found(k) \subseteq Holders(k)
                      /\ k \notin contested => Found(k) = Holders(k) /\ Cardinality(Found(k)) <= 1
    BY DEF LinkIndexExact
  <2>1. k \in Nat
    BY KeysAreNumbers
  <2>2. ASSUME NEW p \in Found(k) PROVE p \in Holders(k)
    <3>1. /\ p \in (DOMAIN shards) \X Addresses /\ p[1] \in DOMAIN shards
          /\ Named(shards[p[1]], p[2], k)
      BY <2>2, FoundAndHeld
    <3>2. LinksAgree(shards[p[1]])
      BY <3>1, ShardTyped DEF Sound
    <3>3. Holds(shards[p[1]], p[2], k)
      BY <3>1, <3>2 DEF LinksAgree, Named, Holds
    <3> QED
      BY <3>1, <3>3, FoundAndHeld
  <2>3. ASSUME k \notin contested
        PROVE  Found(k) = Holders(k) /\ Cardinality(Found(k)) <= 1
    <3>1. HoldersNamed(shards, contested)
      BY DEF Inv
    <3>2. ASSUME NEW p \in Holders(k) PROVE p \in Found(k)
      <4>1. p \in (DOMAIN shards) \X Addresses /\ Holds(shards[p[1]], p[2], k)
        BY <3>2, FoundAndHeld
      <4>2. Named(shards[p[1]], p[2], k)
        BY <2>1, <2>3, <3>1, <4>1 DEF HoldersNamed
      <4> QED
        BY <4>1, <4>2, FoundAndHeld
    <3>3. ASSUME NEW p \in Holders(k), NEW q \in Holders(k) PROVE p = q
      <4>1. /\ p \in (DOMAIN shards) \X Addresses /\ Holds(shards[p[1]], p[2], k)
            /\ q \in (DOMAIN shards) \X Addresses /\ Holds(shards[q[1]], q[2], k)
        BY <3>3, FoundAndHeld
      <4>2. p[1] = q[1] /\ p[2] = q[2]
        BY <2>1, <2>3, <3>1, <4>1 DEF HoldersNamed
      <4> QED
        BY <4>1, <4>2
    <3>4. Found(k) = Holders(k)
      BY <2>2, <3>2
    <3>5. CASE Found(k) = {}
      BY <3>4, <3>5, FS_EmptySet
    <3>6. CASE Found(k) # {}
      <4>1. PICK p : Found(k) = {p}
        BY <3>3, <3>4, <3>6
      <4> QED
        BY <3>4, <4>1, FS_Singleton
    <3> QED
      BY <3>4, <3>5, <3>6
  <2> QED
    BY <2>2, <2>3
<1> QED
  BY <1>1, RegistryAlwaysSound, PTL

\* createByIMSI() gives up only when no TMSI is left, and findByIMSI() finds
\* exactly the session of an IMSI that was not changed behind the index.
THEOREM ImsiIndexAlwaysExact == Spec => []ImsiIndexExact
<1>1. Inv => ScanFindsFree
  <2> SUFFICES ASSUME Inv, NEW i \in DOMAIN shards, Scan(shards[i]) = {}
               PROVE  1..(TmsiSpace - 1) \subseteq TmsisOf(shards[i])
    BY DEF ScanFindsFree
  <2>1. shards[i] \in Registry
    BY ShardTyped
  <2> QED
    BY <2>1, ScanComplete DEF Tmsis
<1>2. ASSUME Inv, NEW im \in Imsis \ moved
      PROVE  /\ FindByIMSI(shards[0], im)
                  = {a \in DOMAIN shards[0].sess : shards[0].sess[a].id = im}
             /\ im \in DOMAIN shards[0].byIMSI <=> FindByIMSI(shards[0], im) # {}
  <2> DEFINE r == shards[0]
  <2>1. 0 \in DOMAIN shards
    BY <1>2 DEF Inv, ShardsTyped
  <2>2. TmsisDiffer(r) /\ ImsisAgree(r, moved)
    BY <1>2, <2>1, ShardTyped DEF Sound
  <2> HIDE DEF r
  <2>3. /\ im \in DOMAIN r.byIMSI =>
             \E a \in DOMAIN r.sess : r.sess[a].tmsi = r.byIMSI[im] /\ r.sess[a].id = im
        /\ \A a \in DOMAIN r.sess : r.sess[a].id = im =>
             im \in DOMAIN r.byIMSI /\ r.byIMSI[im] = r.sess[a].tmsi
    BY <2>2 DEF ImsisAgree
  <2>4. CASE im \in DOMAIN r.byIMSI
    <3>1. PICK a \in DOMAIN r.sess : r.sess[a].tmsi = r.byIMSI[im] /\ r.sess[a].id = im
      BY <2>3, <2>4
    <3>2. \A b \in DOMAIN r.sess : r.sess[b].tmsi = r.byIMSI[im] <=> r.sess[b].id = im
      BY <2>2, <2>3, <3>1 DEF TmsisDiffer
    <3>3. FindByIMSI(r, im) = {b \in DOMAIN r.sess : r.sess[b].tmsi = r.byIMSI[im]}
      BY <2>4 DEF FindByIMSI, FindByTMSI
    <3> QED
      BY <2>4, <3>1, <3>2, <3>3 DEF r
  <2>5. CASE im \notin DOMAIN r.byIMSI
    BY <2>3, <2>5 DEF FindByIMSI, r
  <2> QED
    BY <2>4, <2>5
<1>3. Inv => ImsiIndexExact
  BY <1>1, <1>2 DEF ImsiIndexExact
<1> QED
  BY <1>3, RegistryAlwaysSound, PTL
=============================================================================
