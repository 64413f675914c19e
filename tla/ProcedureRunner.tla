-------------------------- MODULE ProcedureRunner --------------------------
(***************************************************************************)
(* The per-session ProcedureRunner (src/src/stack/procedure_runner.cpp):   *)
(* eight slots, routing of a message to the procedure that claims it, to   *)
(* the default procedure of its protocol discriminator or to a new one,    *)
(* external data by type, ticks and cancellation; the session's response   *)
(* context, which all procedures of the session share; and the flag the    *)
(* registry keeps through the active-change observer, which decides        *)
(* whether the session is ticked at all.                                   *)
(***************************************************************************)
EXTENDS Procedures

CONSTANT MAX_PROCEDURES

\* There are five types feed() creates by itself (autoCreateProcedure).
ASSUME SlotsAssumption == MAX_PROCEDURES \in Nat /\ MAX_PROCEDURES >= 5

VARIABLES
    slots,          \* mSlots: a procedure, or Free where active is false
    registered,     \* the session is in mActiveProcedureSessions
    tmsi,           \* the session's identity is a TMSI
    response,       \* session->response
    foreign,        \* history: the parameters of running procedures last set
                    \* or cleared by another procedure
    lacking         \* history: what the last token needed and did not find

runnerVars == <<slots, registered, foreign>>
sessionVars == <<tmsi, response, lacking>>

Free == Nothing
Slots == 1..MAX_PROCEDURES
ActiveIn(s) == {i \in Slots : s[i] # Free}
Active == ActiveIn(slots)
OfType(t) == {i \in Active : slots[i].type = t}
First(S) == CHOOSE i \in S : \A j \in S : i <= j

RunnerInit ==
    /\ slots = [i \in Slots |-> Free]
    /\ registered = FALSE
    /\ foreign = {}

SessionInit ==
    /\ tmsi \in BOOLEAN
    /\ response = NoResponse
    /\ lacking = {}

\* The parameters a token's message is built from that the context does not
\* have as the procedure holds them.
Lacking(context, p, token) ==
    {q \in Needs(p.type, token) :
        \/ context[q] = Nothing
        \/ q = "rand" /\ context[q] # p.expected
        \/ q = "ti" /\ context[q] # p.ti}

(***************************************************************************)
(* insertSlot(), cleanupSlotIfTerminal() and the active-change observer.   *)
(* The observer is called on the edges only: when a procedure enters an    *)
(* empty runner, and when the slot freed was the last one taken.  The      *)
(* registry keeps what it was last told.                                   *)
(***************************************************************************)

\* What the observer has been told once insertSlot() returns.
Inserted == IF Active = {} THEN TRUE ELSE registered

Settled(p) == IF Terminal(p) THEN Free ELSE p

\* The observer is told only if the runner is empty before the slot is freed.
FaultCleaned(i, p, told) ==
    /\ slots' = [slots EXCEPT ![i] = Settled(p)]
    /\ registered' = IF Terminal(p) /\ Active = {} THEN FALSE ELSE told

\* The procedure in slot i is now p: its slot is freed if it has finished.
Cleaned(i, p, told) ==
    /\ slots' = [slots EXCEPT ![i] = Settled(p)]
    /\ registered' = IF Terminal(p) /\ Active \ {i} = {} THEN FALSE ELSE told

(***************************************************************************)
(* feed(): the first procedure that claims the message, else the default   *)
(* procedure of its protocol discriminator, else a new procedure.          *)
(***************************************************************************)
pdToProcedureType(pd) ==
    CASE pd = "RR" -> "ChannelAssignment"
      [] pd = "MM" -> "LocationUpdate"
      [] pd = "CC" -> "CallSetup_MO"

Claiming(m) == {i \in Active : matches(slots[i].type, m)}

FaultRouted(m) == Claiming(m)

Routed(m) ==
    LET claiming == Claiming(m)
    IN  IF claiming # {} THEN claiming ELSE OfType(pdToProcedureType(m.pd))

autoCreateProcedure(m) ==
    CASE m.mti \in {"ChannelRequest", "PagingResponse"} -> {"ChannelAssignment"}
      [] m.mti = "CMServiceRequest" /\ m.arg = "LocationUpdateRequest" -> {"LocationUpdate"}
      [] m.mti = "IMSIDetachIndication" -> {"IMSIDetach"}
      [] m.mti = "Setup" -> {"CallSetup_MO"}
      [] m.mti = "Disconnect" -> {"CallRelease"}
      [] OTHER -> {}

\* One step of the procedure in slot i, and cleanupSlotIfTerminal(); before it
\* the context was `from', and the observer had been told `told'.
Stepped(i, r, told, from, other) ==
    /\ Cleaned(i, r.proc, told)
    /\ response' = Sets(from, r.sets)
    /\ foreign' = ((other \ DOMAIN r.sets) \cup (DOMAIN r.sets \ Uses(r.proc.type)))
                     \cap UNION {Uses(slots'[j].type) : j \in ActiveIn(slots')}
    /\ lacking' = Lacking(response', r.proc, r.token) \ foreign'

FeedActive(m) ==
    /\ LET routed == Routed(m)
           i == First(routed)
       IN  /\ routed # {}
           /\ Stepped(i, Fed(slots[i], m, tmsi), registered, response, foreign)
    /\ UNCHANGED tmsi

\* insertSlot(), the reset of the shared context, and the first feed().
FeedNew(m) ==
    /\ autoCreateProcedure(m) # {}
    /\ Routed(m) = {}
    /\ Active # Slots
    /\ \E t \in autoCreateProcedure(m) :
          Stepped(First(Slots \ Active), Fed(Created(t), m, tmsi),
                  Inserted, NoResponse, Params \ Uses(t))
    /\ UNCHANGED tmsi

\* Nothing takes the message, or there is no slot for its procedure.
FeedIgnored(m) ==
    /\ autoCreateProcedure(m) = {} \/ Active = Slots
    /\ Routed(m) = {}
    /\ UNCHANGED <<runnerVars, sessionVars>>

feedExternalTyped(t, d) ==
    /\ OfType(t) # {}
    /\ LET i == First(OfType(t))
       IN  Stepped(i, Told(slots[i], d), registered, response, foreign)
    /\ UNCHANGED tmsi

(***************************************************************************)
(* tickAll(), called by the registry for its active sessions only; E is    *)
(* the set of slots whose timer runs out in this tick.  The slots are      *)
(* cleaned one by one, in order, each with its own call of the observer.   *)
(***************************************************************************)
Timed == {i \in Active : slots[i].timer}

tickAll(E) ==
    LET after == [i \in Slots |-> IF i \in E THEN Expired(slots[i]) ELSE slots[i]]
        gone == {i \in Active : Terminal(after[i])}
        leftAfter(i) == Active \ {j \in gone : j <= i}
    IN  /\ registered
        /\ slots' = [i \in Slots |-> IF i \in gone THEN Free ELSE after[i]]
        /\ registered' = IF \E i \in gone : leftAfter(i) = {} THEN FALSE ELSE registered
        /\ UNCHANGED <<foreign, sessionVars>>

\* wasActive: the observer is told once, whatever the number of slots freed.
cancelAll ==
    /\ Active # {}
    /\ slots' = [i \in Slots |-> Free]
    /\ registered' = FALSE
    /\ UNCHANGED <<foreign, sessionVars>>

\* Data that a procedure does not take, and that leaves it as it is, is left out.
RunnerNext ==
    \/ \E m \in Messages : FeedActive(m)
    \/ \E m \in Messages : FeedNew(m)
    \/ \E m \in Messages : FeedIgnored(m)
    \/ \E i \in Active, d \in ExternalData :
          /\ Told(slots[i], d) # Silent(slots[i])
          /\ feedExternalTyped(slots[i].type, d)
    \/ \E E \in SUBSET Timed : E # {} /\ tickAll(E)
    \/ cancelAll
-----------------------------------------------------------------------------
(***************************************************************************)
(* Properties.                                                             *)
(***************************************************************************)

\* External data and getActive() address a procedure by its type alone
\* (procedure_runner.cpp, feedExternalTyped), and a new procedure that finds
\* no slot is dropped without a word: whatever the messages, a runner never
\* holds two procedures of one type, and never a location update next to an
\* IMSI detach, which would take the update's answers.
RoutingUnambiguous ==
    /\ \A i, j \in Active : slots[i].type = slots[j].type => i = j
    /\ OfType("LocationUpdate") = {} \/ OfType("IMSIDetach") = {}
    /\ Active # Slots

\* The registry ticks a session only while the observer's last call said
\* active (subscriber_registry.cpp, tickAllProcedures), and the observer is
\* called on edges alone (procedure_runner.cpp, wasActive): through every order
\* of insertions, finished procedures, ticks and cancellation its last word is
\* "active" exactly while a slot is taken, and no finished procedure keeps its
\* slot, so no timer is ever left without a tick.
TickedWhileRunning ==
    /\ registered <=> Active # {}
    /\ \A i \in Active : ~Terminal(slots[i])
=============================================================================
