-------------------------- MODULE ProcedureSession --------------------------
(***************************************************************************)
(* One subscriber session and the application that drives its procedures   *)
(* in one of the three ways the library offers: through the session's      *)
(* ProcedureRunner, through a ProcedureOrchestrator, or by owning a        *)
(* Procedure made by ProcedureFactory (the only way to reach paging,       *)
(* handover and mobile-terminated calls).                                  *)
(*                                                                         *)
(* `silent' becomes true when the mobile and the network send nothing      *)
(* more; from then on only the application's ticks happen.  (A runner has  *)
(* no retries: its timed procedures all end at one long tick.)             *)
(***************************************************************************)
EXTENDS ProcedureOrchestrator

VARIABLES
    user,           \* "runner", "orchestrator" or "owner"
    own,            \* the procedure the application owns, or Free
    silent

ownVars == <<own>>
vars == <<user, own, silent, runnerVars, sessionVars, orchestratorVars>>

Init ==
    /\ RunnerInit /\ SessionInit /\ ChainInit
    /\ user \in {"runner", "orchestrator", "owner"}
    /\ own = Free
    /\ silent = FALSE

(***************************************************************************)
(* The application's own procedure; it is released once it is terminal, as *)
(* the caller contract of procedure.h asks.                                *)
(***************************************************************************)
OwnedTypes == {"CallSetup_MT", "Paging", "Handover"}

Owns(r) ==
    /\ own' = Settled(r.proc)
    /\ response' = Sets(response, r.sets)
    /\ lacking' = Lacking(response', r.proc, r.token)
    /\ UNCHANGED tmsi

OwnCreate ==
    /\ own = Free
    /\ \E t \in OwnedTypes : own' = Created(t)
    /\ UNCHANGED sessionVars

OwnFeed(m) == own # Free /\ Owns(Fed(own, m, tmsi))
OwnExternal(d) == own # Free /\ Owns(Told(own, d))
OwnTimeout == own # Free /\ own.timer /\ Owns(Silent(Expired(own)))
OwnCancel == own # Free /\ Owns(Silent(fail(own)))

OwnInput ==
    \/ OwnCreate
    \/ \E m \in Messages : OwnFeed(m)
    \/ \E d \in ExternalData : OwnExternal(d)
    \/ OwnCancel

(***************************************************************************)
(* The session.                                                            *)
(***************************************************************************)
RunnerStep ==
    /\ user = "runner"
    /\ RunnerNext
    /\ UNCHANGED <<user, own, silent, orchestratorVars>>

ChainStep ==
    /\ user = "orchestrator" /\ ~silent
    /\ ChainInput
    /\ UNCHANGED <<user, own, silent, tmsi, lacking, runnerVars>>

ChainTimeout ==
    /\ user = "orchestrator"
    /\ ChainTick
    /\ UNCHANGED <<user, own, silent, tmsi, lacking, runnerVars>>

ChainTake ==
    /\ user = "orchestrator"
    /\ takeRetransmissionToken
    /\ UNCHANGED <<user, own, silent, tmsi, lacking, runnerVars>>

OwnStep ==
    /\ user = "owner" /\ ~silent
    /\ OwnInput
    /\ UNCHANGED <<user, silent, runnerVars, orchestratorVars>>

OwnTick ==
    /\ user = "owner"
    /\ OwnTimeout
    /\ UNCHANGED <<user, silent, runnerVars, orchestratorVars>>

FallSilent ==
    /\ user # "runner" /\ ~silent
    /\ silent' = TRUE
    /\ UNCHANGED <<user, own, runnerVars, sessionVars, orchestratorVars>>

Next ==
    \/ RunnerStep
    \/ ChainStep \/ ChainTimeout \/ ChainTake
    \/ OwnStep \/ OwnTick
    \/ FallSilent

\* The event loop keeps ticking, so a running timer runs out.
Fairness == WF_vars(ChainTimeout) /\ WF_vars(OwnTick)

Spec == Init /\ [][Next]_vars /\ Fairness
-----------------------------------------------------------------------------
(***************************************************************************)
(* Properties.                                                             *)
(***************************************************************************)
Live == ({slots[i] : i \in Slots} \cup {current, own}) \ {Free}

\* The states in which the code leaves a procedure without a timer: before it
\* has started; where the next message or decision of any kind moves it on; and
\* five waits for an answer that is asked for but not timed - the Identity
\* Request of a location update, the Authentication Request an
\* AuthenticationProcedure hands out when it is given the challenge (T3106 starts
\* with the request repeated at the next message), the Setup after a service
\* request, and of a mobile-terminated call the messages after its Immediate
\* Assignment and its Connect.  A page that runs out is sent again by the next
\* message only.
Untimed(t) ==
    {"INIT"} \cup
    CASE t = "LocationUpdate" ->
            {"IDENTITY_CHECK", "REQUEST_IDENTITY", "AUTH_CHECK", "LU_REQUEST"}
      [] t = "Authentication" -> {"SEND_AUTH_REQ"}
      [] t = "CallSetup_MO" -> {"SERVICE_ACCEPT", "WAIT_SETUP"}
      [] t = "CallSetup_MT" ->
            {"ASSIGN_SDCCH", "SEND_SETUP", "ASSIGN_TCH", "ALERTING", "CONNECT", "ACTIVE"}
      [] t = "ChannelAssignment" -> {"ALLOCATE_CHANNEL"}
      [] t = "Paging" -> {"SEND_PAGE1", "SEND_PAGE2", "SEND_PAGE3"}
      [] OTHER -> {}

\* A live procedure has its timer running (the startTimer() and stopTimer()
\* calls of the procedures), whatever reached it in between, in every state but
\* those of Untimed: a lost answer can leave a session waiting for ever in those
\* states only.  doc/API.md has T3106 time the Authentication Response too.
WaitsAreTimed == \A p \in Live : p.timer \/ p.state \in Untimed(p.type)

\* The response context is one per session and every new procedure clears it
\* (procedure_runner.cpp, feed; response_builder.cpp, buildResponseFromToken):
\* a token is handed out with the parameters its message is built from, the
\* RAND of the procedure's own challenge and the TI of its own call, unless
\* another procedure of the runner was started or wrote in between; and what
\* the orchestrator's last token needs is still there when the caller builds
\* it later (buildPendingResponse).
AnswerHasItsParameters ==
    /\ lacking = {}
    /\ Lacking(response, last, last.token) = {}

\* Once the mobile and the network are silent, a chain whose phase or
\* procedure is timed ends, also through the bounded retransmissions of the
\* Identity Request (procedure_orchestrator.h: "after
\* kMaxIdentityRetransmissions the chain times out"), and the timed
\* procedure of an application ends or comes to a state without a timer.
SilenceEndsWaiting ==
    /\ (silent /\ (phaseTimer # "off" \/ (current # Free /\ current.timer)))
          ~> phase = "None"
    /\ (silent /\ own # Free /\ own.timer) ~> (own = Free \/ ~own.timer)
=============================================================================
