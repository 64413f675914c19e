----------------------- MODULE ProcedureOrchestrator -----------------------
(***************************************************************************)
(* The ProcedureOrchestrator (src/src/stack/procedure_orchestrator.cpp):   *)
(* one chain at a time, from the message that starts it through identity,  *)
(* authentication, ciphering and location update, or through a call setup, *)
(* with the phase timers T3102 (retransmissions of the Identity Request)   *)
(* and T3103 (the VLR's decision) and the session's state machines.        *)
(*                                                                         *)
(* The session is always given to feed().  The phases CallSetupMT,         *)
(* ChannelAssignment, Paging, Handover and PeriodicLocationUpdate are      *)
(* never entered by the code and are left out.                             *)
(***************************************************************************)
EXTENDS ProcedureRunner

VARIABLES
    phase,          \* mCurrentPhase
    current,        \* mCurrentProcedure, or Free
    attached,       \* mSession is not null
    phaseTimer,     \* "off", "due" (no time remains) or "running"
    resends,        \* mPhaseRetransmissions
    retransmit,     \* mRetransmitToken
    last,           \* mLastToken and the procedure it came from
    mm, rr, cc,     \* the states of the session's three machines
    ciphered,       \* context.isCiphered()
    shown           \* history: what the mobile has shown in this chain

chainVars == <<phase, current, attached, phaseTimer, resends, retransmit, last>>
fsmVars == <<mm, rr, cc, ciphered>>
orchestratorVars == <<chainVars, fsmVars, shown>>

kMaxIdentityRetransmissions == 3

Token(t, tok, rand, ti) == [type |-> t, token |-> tok, expected |-> rand, ti |-> ti]
NoToken == Token(Nothing, Nothing, Nothing, Nothing)

ChainInit ==
    /\ phase = "None"
    /\ current = Free
    /\ attached = FALSE
    /\ phaseTimer = "off"
    /\ resends = 0
    /\ retransmit = Nothing
    /\ last = NoToken
    /\ mm = "DEREGISTERED" /\ rr = "IDLE" /\ cc = "IDLE"
    /\ ciphered = FALSE
    /\ shown = {}

(***************************************************************************)
(* transitionToPhase(), stopPhaseTimer(), endChain(), cancelAll().         *)
(***************************************************************************)
procedureFor(ph) ==
    CASE ph = "Authentication" -> Created("Authentication")
      [] ph = "CipheringMode" -> Created("CipheringMode")
      [] ph = "CallSetupMO" -> Created("CallSetup_MO")
      [] OTHER -> Free

FaultPhaseTimer(t, token) ==
    /\ phaseTimer' = t
    /\ resends' = 0
    /\ retransmit' = IF token = Nothing THEN retransmit ELSE token

PhaseTimer(t, token) ==
    /\ phaseTimer' = t
    /\ resends' = 0
    /\ retransmit' = token

transitionToPhase(ph) ==
    /\ phase' = ph
    /\ current' = procedureFor(ph)
    /\ CASE ph = "LocationUpdate" -> PhaseTimer("running", retransmit)
         [] ph = "IdentityVerification" -> PhaseTimer("due", "IdentityRequest")
         [] OTHER -> PhaseTimer("off", Nothing)

endChain ==
    /\ phase' = "None"
    /\ current' = Free
    /\ PhaseTimer("off", Nothing)

Idle ==
    /\ endChain
    /\ attached' = FALSE
    /\ response' = IF attached THEN NoResponse ELSE response
    /\ last' = NoToken

(***************************************************************************)
(* A step of the procedure object: its token becomes the last token, with  *)
(* the parameters the procedure holds now; onProcedureCompleted() moves    *)
(* the chain on or ends it, a failure cancels it.                          *)
(***************************************************************************)
Kept(r) ==
    IF r.token # Nothing
      THEN Token(r.proc.type, r.token, r.proc.expected, r.proc.ti)
      ELSE IF last.type = r.proc.type
             THEN Token(last.type, last.token, r.proc.expected, r.proc.ti)
             ELSE last

onProcedureCompleted ==
    CASE phase = "Authentication" ->
            /\ mm' = "AUTHENTICATED" /\ rr' = "CIPHER_MODE"
            /\ transitionToPhase("CipheringMode")
            /\ UNCHANGED <<cc, ciphered>>
      [] phase = "CipheringMode" ->
            /\ rr' = "ACTIVE" /\ ciphered' = TRUE /\ mm' = "LOCATION_UPDATE"
            /\ transitionToPhase("LocationUpdate")
            /\ UNCHANGED cc
      [] OTHER -> endChain /\ UNCHANGED fsmVars

ProcedureStep(r) ==
    CASE r.proc.state = "COMPLETED" ->
            /\ onProcedureCompleted
            /\ last' = Kept(r)
            /\ response' = Sets(response, r.sets)
            /\ UNCHANGED attached
      [] r.proc.state = "FAILED" -> Idle /\ UNCHANGED fsmVars
      [] OTHER ->
            /\ current' = r.proc
            /\ last' = Kept(r)
            /\ response' = Sets(response, r.sets)
            /\ UNCHANGED <<phase, attached, phaseTimer, resends, retransmit, fsmVars>>

(***************************************************************************)
(* feed().                                                                 *)
(***************************************************************************)
\* A chain starts with a cleared context and an accepted service request.
StartsClean(t) ==
    /\ attached' = TRUE
    /\ shown' = {}
    /\ response' = NoResponse
    /\ last' = Token(t, "CMServiceAccept", Nothing, Nothing)

FeedServiceRequest(m) ==
    /\ phase = "None"
    /\ m.mti = "CMServiceRequest"
    /\ \/ /\ m.arg = "LocationUpdateRequest"
          /\ LET ph == IF tmsi THEN "Authentication" ELSE "IdentityVerification"
             IN  /\ transitionToPhase(ph)
                 /\ mm' = IF tmsi THEN "AUTHENTICATION" ELSE "WAITING_IDENTITY"
          /\ StartsClean("LocationUpdate")
          /\ UNCHANGED <<rr, cc, ciphered>>
       \/ /\ m.arg = "MobileOriginatedCall"
          /\ transitionToPhase("CallSetupMO")
          /\ mm' = "SERVICE_REQUEST" /\ cc' = "SETUP_RECEIVED"
          /\ StartsClean("CallSetup_MO")
          /\ UNCHANGED <<rr, ciphered>>

\* handleIMSIDetachPhase(): the chain starts and ends in one call.
FeedDetach(m) ==
    /\ phase = "None"
    /\ m.mti = "IMSIDetachIndication"
    /\ endChain
    /\ mm' = "DEREGISTERED"
    /\ StartsClean("IMSIDetach")
    /\ UNCHANGED <<rr, cc, ciphered>>

\* handleCallReleasePhase(): likewise, with the TI of the Disconnect.
FeedDisconnect(m) ==
    /\ phase = "None"
    /\ m.mti = "Disconnect"
    /\ endChain
    /\ cc' = "RELEASE"
    /\ attached' = TRUE
    /\ shown' = {}
    /\ response' = [NoResponse EXCEPT !["ti"] = m.arg]
    /\ last' = Token("CallRelease", "Release", Nothing, m.arg)
    /\ UNCHANGED <<mm, rr, ciphered>>

\* detectChainPhase() returns None: only the session pointer is kept.
FeedUnknown(m) ==
    /\ phase = "None"
    /\ m.mti \notin {"IMSIDetachIndication", "Disconnect"}
    /\ m.mti = "CMServiceRequest" => m.arg = "ShortMessage"
    /\ attached' = TRUE
    /\ UNCHANGED <<phase, current, phaseTimer, resends, retransmit, last, fsmVars, shown, response>>

\* handleIdentityVerification(): the answer, or the request once more.
FeedIdentity(m) ==
    /\ phase = "IdentityVerification"
    /\ \/ /\ m.mti = "IdentityResponse"
          /\ mm' = "AUTHENTICATION"
          /\ transitionToPhase("Authentication")
          /\ UNCHANGED last
       \/ /\ m.mti # "IdentityResponse"
          /\ phaseTimer' = "running"
          /\ last' = Token("LocationUpdate", "IdentityRequest", Nothing, Nothing)
          /\ UNCHANGED <<phase, current, resends, retransmit, mm>>
    /\ UNCHANGED <<attached, response, rr, cc, ciphered, shown>>

\* History: the challenge an authentication response answers, and that
\* ciphering was completed.
Evidence(m) ==
    CASE m.mti = "AuthenticationResponse" -> {m.arg}
      [] m.mti = "CipheringModeComplete" -> {"ciphered"}
      [] OTHER -> {}

\* The location update phase waits for the VLR: feed() changes nothing.
FeedProcedure(m) ==
    /\ current # Free
    /\ ProcedureStep(Fed(current, m, tmsi))
    /\ shown' = shown \cup Evidence(m)

(***************************************************************************)
(* feedExternalTyped().                                                    *)
(***************************************************************************)
ExternalProcedure(d) ==
    /\ current # Free
    /\ ProcedureStep(Told(current, d))
    /\ UNCHANGED shown

\* handleExternalDataLocationUpdate(): the VLR's decision ends the chain.
ExternalDecision(d) ==
    /\ phase = "LocationUpdate"
    /\ d.kind = "VLRDecision"
    /\ endChain
    /\ response' = [response EXCEPT !["newTmsi"] = "decision"]
    /\ mm' = IF d.arg THEN "REGISTERED" ELSE "DEREGISTERED"
    /\ last' = Token("LocationUpdate",
            IF d.arg THEN "LocationUpdatingAccept" ELSE "LocationUpdatingReject",
            Nothing, Nothing)
    /\ UNCHANGED <<attached, rr, cc, ciphered, shown>>

(***************************************************************************)
(* tickAll(): the phase timer, then the timer of the procedure object.     *)
(* Only expiries are steps; a tick that expires nothing changes nothing    *)
(* but the time left, except for T3102 just started, which is due at once. *)
(***************************************************************************)
FaultPhaseTimeout ==
    /\ phaseTimer # "off"
    /\ IF phase = "IdentityVerification"
         THEN /\ resends' = resends
              /\ retransmit' = "IdentityRequest"
              /\ phaseTimer' = "running"
              /\ UNCHANGED <<phase, current, attached, response, last>>
         ELSE Idle
    /\ UNCHANGED <<fsmVars, shown>>

PhaseTimeout ==
    /\ phaseTimer # "off"
    /\ IF phase = "IdentityVerification" /\ resends < kMaxIdentityRetransmissions
         THEN /\ resends' = resends + 1
              /\ retransmit' = "IdentityRequest"
              /\ phaseTimer' = "running"
              /\ UNCHANGED <<phase, current, attached, response, last>>
         ELSE Idle
    /\ UNCHANGED <<fsmVars, shown>>

ProcedureTimeout ==
    /\ current # Free
    /\ current.timer
    /\ ProcedureStep(Silent(Expired(current)))
    /\ UNCHANGED shown

ChainCancel ==
    /\ Idle
    /\ UNCHANGED <<fsmVars, shown>>

takeRetransmissionToken ==
    /\ retransmit # Nothing
    /\ retransmit' = Nothing
    /\ UNCHANGED <<phase, current, attached, phaseTimer, resends, last, fsmVars, shown, response>>

ChainInput ==
    \/ \E m \in Messages : FeedServiceRequest(m)
    \/ \E m \in Messages : FeedDetach(m)
    \/ \E m \in Messages : FeedDisconnect(m)
    \/ \E m \in Messages : FeedUnknown(m)
    \/ \E m \in Messages : FeedIdentity(m)
    \/ \E m \in Messages : FeedProcedure(m)
    \/ \E d \in ExternalData : ExternalProcedure(d)
    \/ \E d \in ExternalData : ExternalDecision(d)
    \/ ChainCancel

ChainTick == PhaseTimeout \/ ProcedureTimeout
-----------------------------------------------------------------------------
(***************************************************************************)
(* Properties.                                                             *)
(***************************************************************************)

\* A subscriber is REGISTERED only by the VLR's acceptance, at the end of a
\* chain in which the mobile answered this chain's challenge and completed
\* ciphering (procedure_orchestrator.cpp, onProcedureCompleted and
\* handleExternalDataLocationUpdate): no order of answers, late decisions,
\* timeouts and restarted chains skips a check.
RegisteredAfterChecks ==
    [][mm' = "REGISTERED" /\ mm # "REGISTERED" =>
         /\ phase = "LocationUpdate"
         /\ response["rand"] \in shown
         /\ "ciphered" \in shown]_<<mm, shown, phase, response>>

\* Nothing of a finished or cancelled chain survives it (comments at
\* endChain and stopPhaseTimer): an idle orchestrator has no procedure, no
\* phase timer and no Identity Request queued, and only the two inline
\* phases are timed by the phase timer.
IdleIsClean ==
    /\ phase = "None" => current = Free /\ phaseTimer = "off" /\ retransmit = Nothing
    /\ phaseTimer # "off" <=> phase \in {"IdentityVerification", "LocationUpdate"}
    /\ retransmit # Nothing => phase = "IdentityVerification"
    /\ current = Free \/ ~Terminal(current)
=============================================================================
