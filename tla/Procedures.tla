----------------------------- MODULE Procedures -----------------------------
(***************************************************************************)
(* The ten protocol procedures (src/src/stack/procedures/) as functions on *)
(* a procedure record: what feed(), feedExternalTyped(), tick() and        *)
(* cancel() do to it, which response token the step returns and which      *)
(* parameters of the session's ResponseContext it writes.                  *)
(*                                                                         *)
(* A procedure keeps its state, whether its timer runs, the challenge it   *)
(* expects to be answered, the transaction identifier of its call and the  *)
(* number of pages sent.  Timer lengths are abstracted: a running timer    *)
(* may run out at any tick.  An authentication response names the          *)
(* challenge its SRES answers, which is what the comparison of the two     *)
(* 32-bit values tells apart.                                              *)
(***************************************************************************)
EXTENDS Naturals, FiniteSets

CONSTANTS
    Challenges,         \* the RAND/SRES pairs of the authentication centre
    WrongAnswers,       \* SRES values that answer no challenge
    TIs,                \* transaction identifiers, other than the default 0
    Nothing             \* a parameter or token that is not set

ASSUME AnswersAssumption == Challenges \cap WrongAnswers = {}

ProcedureTypes == {"LocationUpdate", "Authentication", "CipheringMode",
    "CallSetup_MO", "CallSetup_MT", "ChannelAssignment", "Paging", "Handover",
    "CallRelease", "IMSIDetach"}

\* The fields of ResponseContext; a flag that says a field is set is the
\* field being different from Nothing.  The causes and the request reference
\* have defaults the builder falls back on and are left out.
Params == {"rand", "ti", "calledNumber", "newTmsi", "channel", "cipherAlgo",
    "identity", "hoChannel"}

NoResponse == [q \in Params |-> Nothing]

(***************************************************************************)
(* Messages: protocol discriminator and message type, and of the contents  *)
(* only what a procedure looks at.                                         *)
(***************************************************************************)
RRTypes == {"ChannelRequest", "PagingResponse", "AssignmentComplete",
    "CipheringModeComplete", "HandoverComplete", "HandoverFailure"}

MMPlain == {"IdentityResponse", "IMSIDetachIndication"}

CCPlain == {"Release", "CallConfirmed", "ConnectAcknowledge"}

Messages ==
    [pd : {"RR"}, mti : RRTypes, arg : {Nothing}]
      \cup [pd : {"MM"}, mti : MMPlain, arg : {Nothing}]
      \cup [pd : {"MM"}, mti : {"CMServiceRequest"},
            arg : {"LocationUpdateRequest", "MobileOriginatedCall", "ShortMessage"}]
      \cup [pd : {"MM"}, mti : {"AuthenticationResponse"}, arg : Challenges \cup WrongAnswers]
      \cup [pd : {"CC"}, mti : CCPlain, arg : {Nothing}]
      \cup [pd : {"CC"}, mti : {"Setup", "Disconnect"}, arg : TIs]

\* The typed external data of the core network and of the application.
ExternalData ==
    [kind : {"AuthChallenge"}, arg : Challenges]
      \cup [kind : {"VLRDecision"}, arg : BOOLEAN]
      \cup [kind : {"CipheringParameters", "PagingTrigger", "HandoverTarget"},
            arg : {Nothing}]

\* The response tokens, and what stands for the contents of a parameter that
\* is filled, where they do not matter.
Tokens == {"IdentityRequest", "AuthenticationRequest", "CipheringModeCommand",
    "CMServiceAccept", "CallProceeding", "AssignmentCommand", "Alerting", "Connect",
    "ConnectAcknowledge", "PagingRequestType1", "PagingRequestType2", "PagingRequestType3",
    "ImmediateAssignment", "Setup", "HandoverCommand", "Disconnect", "Release",
    "ReleaseComplete", "LocationUpdatingAccept", "LocationUpdatingReject"}

Filled == {"number", "sdcch", "decision", "algorithm", "paged", "target"}

(***************************************************************************)
(* The procedure object.                                                   *)
(***************************************************************************)
States == {"INIT", "COMPLETED", "FAILED",
    "IDENTITY_CHECK", "REQUEST_IDENTITY", "AUTH_CHECK", "SEND_AUTH", "WAIT_AUTH",
    "LU_REQUEST", "WAITING_EXTERNAL", "SEND_REJECT", "SEND_AUTH_REQ", "WAIT_RESPONSE",
    "SEND_COMMAND", "WAIT_COMPLETE", "SERVICE_ACCEPT", "WAIT_SETUP", "PROCEEDING",
    "ASSIGN_TCH", "WAIT_ASSIGN_COMPLETE", "ALERTING", "CONNECT", "ACTIVE", "PAGE",
    "WAIT_PAGE_RESPONSE", "ASSIGN_SDCCH", "SEND_SETUP", "WAIT_CONFIRMED",
    "ALLOCATE_CHANNEL", "SEND_IMMEDIATE_ASSIGNMENT", "WAIT_SEIZURE", "SEND_PAGE1",
    "WAIT_PAGE1", "SEND_PAGE2", "WAIT_PAGE2", "SEND_PAGE3", "WAIT_PAGE3",
    "SEND_HO_CMD", "WAIT_HO_COMPLETE", "WAIT_RELEASE", "WAIT_DETACH_COMPLETE"}

Procedure == [type : ProcedureTypes, state : States, timer : BOOLEAN,
    expected : Challenges \cup {Nothing}, ti : TIs \cup {Nothing}, pages : Nat]

ASSUME NothingAssumption ==
    /\ Nothing \notin Challenges \cup WrongAnswers \cup TIs \cup Tokens \cup Filled
    /\ Nothing \notin Procedure

Created(t) == [type |-> t, state |-> "INIT", timer |-> FALSE,
               expected |-> Nothing, ti |-> Nothing, pages |-> 0]

Terminal(p) == p.state \in {"COMPLETED", "FAILED"}

\* transitionTo(s) followed by startTimer(), by stopTimer(), or by neither.
Goes(p, s) == [p EXCEPT !.state = s]
GoesTimed(p, s) == [p EXCEPT !.state = s, !.timer = TRUE]
GoesStopped(p, s) == [p EXCEPT !.state = s, !.timer = FALSE]

complete(p) == GoesStopped(p, "COMPLETED")
fail(p) == GoesStopped(p, "FAILED")

\* The result of a step: the procedure after it, the response token it
\* returns and the response parameters it writes (a partial function).
Silent(p) == [proc |-> p, token |-> Nothing, sets |-> <<>>]
Sends(p, tok) == [proc |-> p, token |-> tok, sets |-> <<>>]
Writing(r, q, v) == [r EXCEPT !.sets = [x \in {q} |-> v]]

Sets(response, sets) ==
    [q \in Params |-> IF q \in DOMAIN sets THEN sets[q] ELSE response[q]]

(***************************************************************************)
(* matches(): the messages a procedure claims, in whatever state it is.    *)
(***************************************************************************)
matches(t, m) ==
    CASE t = "LocationUpdate" ->
            m.mti \in {"CMServiceRequest", "IdentityResponse", "AuthenticationResponse"}
      [] t = "Authentication" -> m.mti = "AuthenticationResponse"
      [] t = "CipheringMode" -> m.mti = "CipheringModeComplete"
      [] t = "CallSetup_MO" ->
            m.mti \in {"CMServiceRequest", "Setup", "ConnectAcknowledge", "AssignmentComplete"}
      [] t = "CallSetup_MT" ->
            m.mti \in {"PagingResponse", "AssignmentComplete", "CallConfirmed", "ConnectAcknowledge"}
      [] t = "ChannelAssignment" -> m.mti \in {"ChannelRequest", "PagingResponse"}
      [] t = "Paging" -> m.mti = "PagingResponse"
      [] t = "Handover" -> m.mti \in {"HandoverComplete", "HandoverFailure"}
      [] t = "CallRelease" -> m.mti \in {"Disconnect", "Release"}
      [] t = "IMSIDetach" -> m.pd = "MM"

(***************************************************************************)
(* feed(): one operator per procedure.  `tmsi' says whether the session's  *)
(* identity is a TMSI.                                                     *)
(***************************************************************************)
FaultSresMatches(p, m) == TRUE

SresMatches(p, m) == p.expected \in {Nothing, m.arg}

LocationUpdateFed(p, m, tmsi) ==
    CASE p.state = "INIT" ->
            Silent(IF m.pd \in {"MM", "RR"} THEN Goes(p, "IDENTITY_CHECK") ELSE p)
      [] p.state = "IDENTITY_CHECK" ->
            IF tmsi THEN Silent(Goes(p, "AUTH_CHECK"))
                    ELSE Sends(Goes(p, "REQUEST_IDENTITY"), "IdentityRequest")
      [] p.state = "REQUEST_IDENTITY" ->
            Silent(IF m.mti = "IdentityResponse" THEN Goes(p, "AUTH_CHECK") ELSE p)
      [] p.state = "AUTH_CHECK" ->
            IF p.expected = Nothing THEN Silent(Goes(p, "LU_REQUEST"))
                ELSE Sends(GoesTimed(p, "SEND_AUTH"), "AuthenticationRequest")
      [] p.state = "SEND_AUTH" -> Silent(Goes(p, "WAIT_AUTH"))
      [] p.state = "WAIT_AUTH" /\ m.mti = "AuthenticationResponse" ->
            IF SresMatches(p, m) THEN Silent(Goes(p, "LU_REQUEST"))
                ELSE Sends(Goes(p, "SEND_REJECT"), "LocationUpdatingReject")
      [] p.state = "LU_REQUEST" -> Silent(GoesTimed(p, "WAITING_EXTERNAL"))
      [] p.state = "SEND_REJECT" -> Sends(fail(p), "LocationUpdatingReject")
      [] OTHER -> Silent(p)

FaultAuthenticationFed(p, m) ==
    CASE p.state = "SEND_AUTH_REQ" ->
            Sends(Goes(p, "WAIT_RESPONSE"), "AuthenticationRequest")
      [] p.state = "WAIT_RESPONSE" /\ m.mti = "AuthenticationResponse" ->
            Silent(IF SresMatches(p, m) THEN complete(p) ELSE fail(p))
      [] OTHER -> Silent(p)

AuthenticationFed(p, m) ==
    CASE p.state = "SEND_AUTH_REQ" ->
            Sends(GoesTimed(p, "WAIT_RESPONSE"), "AuthenticationRequest")
      [] p.state = "WAIT_RESPONSE" /\ m.mti = "AuthenticationResponse" ->
            Silent(IF SresMatches(p, m) THEN complete(p) ELSE fail(p))
      [] OTHER -> Silent(p)

CipheringModeFed(p, m) ==
    CASE p.state = "SEND_COMMAND" ->
            Sends(GoesTimed(p, "WAIT_COMPLETE"), "CipheringModeCommand")
      [] p.state = "WAIT_COMPLETE" /\ m.mti = "CipheringModeComplete" -> Silent(complete(p))
      [] OTHER -> Silent(p)

FaultTakesSetup(p, m) ==
    Sends([GoesTimed(p, "PROCEEDING") EXCEPT !.ti = m.arg], "CallProceeding")

\* The two places where call setup reads the Setup message.
TakesSetup(p, m) ==
    Writing(Sends([GoesTimed(p, "PROCEEDING") EXCEPT !.ti = m.arg], "CallProceeding"),
            "ti", m.arg)

CallSetupMOFed(p, m) ==
    CASE p.state = "INIT" /\ m.mti = "CMServiceRequest" ->
            Sends(Goes(p, "SERVICE_ACCEPT"), "CMServiceAccept")
      [] p.state \in {"INIT", "WAIT_SETUP"} /\ m.mti = "Setup" -> TakesSetup(p, m)
      [] p.state = "SERVICE_ACCEPT" -> Silent(Goes(p, "WAIT_SETUP"))
      [] p.state = "PROCEEDING" -> Sends(GoesTimed(p, "ASSIGN_TCH"), "AssignmentCommand")
      [] p.state = "ASSIGN_TCH" -> Silent(Goes(p, "WAIT_ASSIGN_COMPLETE"))
      [] p.state = "WAIT_ASSIGN_COMPLETE" /\ m.mti = "AssignmentComplete" ->
            Sends(Goes(p, "ALERTING"), "Alerting")
      [] p.state = "ALERTING" -> Sends(Goes(p, "CONNECT"), "Connect")
      [] p.state = "CONNECT" -> Sends(Goes(p, "ACTIVE"), "ConnectAcknowledge")
      [] p.state = "ACTIVE" /\ m.mti = "ConnectAcknowledge" -> Silent(complete(p))
      [] OTHER -> Silent(p)

\* The called number is given when the procedure is made; its identifier is 0.
CallSetupMTFed(p, m) ==
    CASE p.state = "PAGE" -> Sends(GoesTimed(p, "WAIT_PAGE_RESPONSE"), "PagingRequestType1")
      [] p.state = "WAIT_PAGE_RESPONSE" /\ m.mti = "PagingResponse" ->
            Sends(GoesStopped(p, "ASSIGN_SDCCH"), "ImmediateAssignment")
      [] p.state = "ASSIGN_SDCCH" ->
            Writing(Sends(Goes(p, "SEND_SETUP"), "Setup"), "calledNumber", "number")
      [] p.state = "SEND_SETUP" ->
            Writing(Sends(GoesTimed(p, "WAIT_CONFIRMED"), "Setup"), "calledNumber", "number")
      [] p.state = "WAIT_CONFIRMED" /\ m.mti = "CallConfirmed" ->
            Silent(GoesStopped(p, "ASSIGN_TCH"))
      [] p.state = "ASSIGN_TCH" ->
            Sends(GoesTimed(p, "WAIT_ASSIGN_COMPLETE"), "AssignmentCommand")
      [] p.state = "WAIT_ASSIGN_COMPLETE" /\ m.mti = "AssignmentComplete" ->
            Sends(GoesStopped(p, "ALERTING"), "Alerting")
      [] p.state = "ALERTING" -> Sends(Goes(p, "CONNECT"), "Connect")
      [] p.state = "CONNECT" -> Sends(Goes(p, "ACTIVE"), "ConnectAcknowledge")
      [] p.state = "ACTIVE" /\ m.mti = "ConnectAcknowledge" -> Silent(complete(p))
      [] OTHER -> Silent(p)

ChannelAssignmentFed(p, m) ==
    CASE p.state = "INIT" /\ m.mti \in {"ChannelRequest", "PagingResponse"} ->
            Silent(Goes(p, "ALLOCATE_CHANNEL"))
      [] p.state = "ALLOCATE_CHANNEL" ->
            Writing(Sends(GoesTimed(p, "SEND_IMMEDIATE_ASSIGNMENT"), "ImmediateAssignment"),
                    "channel", "sdcch")
      [] p.state = "SEND_IMMEDIATE_ASSIGNMENT" -> Silent(Goes(p, "WAIT_SEIZURE"))
      [] p.state = "WAIT_SEIZURE" -> Silent(complete(p))
      [] OTHER -> Silent(p)

PagingFed(p, m) ==
    CASE p.state = "SEND_PAGE1" ->
            Sends([GoesTimed(p, "WAIT_PAGE1") EXCEPT !.pages = 1], "PagingRequestType1")
      [] p.state = "SEND_PAGE2" ->
            Sends([GoesTimed(p, "WAIT_PAGE2") EXCEPT !.pages = 2], "PagingRequestType2")
      [] p.state = "SEND_PAGE3" ->
            Sends([GoesTimed(p, "WAIT_PAGE3") EXCEPT !.pages = 3], "PagingRequestType3")
      [] p.state \in {"WAIT_PAGE1", "WAIT_PAGE2", "WAIT_PAGE3"} /\ m.mti = "PagingResponse" ->
            Silent(complete(p))
      [] OTHER -> Silent(p)

HandoverFed(p, m) ==
    CASE p.state = "SEND_HO_CMD" -> Sends(GoesTimed(p, "WAIT_HO_COMPLETE"), "HandoverCommand")
      [] p.state = "WAIT_HO_COMPLETE" /\ m.mti = "HandoverComplete" -> Silent(complete(p))
      [] p.state = "WAIT_HO_COMPLETE" /\ m.mti = "HandoverFailure" -> Silent(fail(p))
      [] OTHER -> Silent(p)

\* Every feed writes the identifier the procedure was made with, which is 0.
CallReleaseFed(p, m) ==
    Writing(CASE p.state = "INIT" /\ m.pd = "CC" ->
                    Sends(GoesTimed(p, "WAIT_RELEASE"), "Disconnect")
              [] p.state = "WAIT_RELEASE" /\ m.mti = "Release" ->
                    Sends(complete(p), "ReleaseComplete")
              [] OTHER -> Silent(p), "ti", Nothing)

IMSIDetachFed(p, m) ==
    CASE p.state = "INIT" /\ m.pd = "MM" ->
            Sends(GoesTimed(p, "WAIT_DETACH_COMPLETE"), "CMServiceAccept")
      [] p.state = "WAIT_DETACH_COMPLETE" /\ m.pd = "MM" -> Silent(complete(p))
      [] OTHER -> Silent(p)

Fed(p, m, tmsi) ==
    CASE p.type = "LocationUpdate" -> LocationUpdateFed(p, m, tmsi)
      [] p.type = "Authentication" -> AuthenticationFed(p, m)
      [] p.type = "CipheringMode" -> CipheringModeFed(p, m)
      [] p.type = "CallSetup_MO" -> CallSetupMOFed(p, m)
      [] p.type = "CallSetup_MT" -> CallSetupMTFed(p, m)
      [] p.type = "ChannelAssignment" -> ChannelAssignmentFed(p, m)
      [] p.type = "Paging" -> PagingFed(p, m)
      [] p.type = "Handover" -> HandoverFed(p, m)
      [] p.type = "CallRelease" -> CallReleaseFed(p, m)
      [] p.type = "IMSIDetach" -> IMSIDetachFed(p, m)

(***************************************************************************)
(* feedExternalTyped().                                                    *)
(***************************************************************************)
LocationUpdateTold(p, d) ==
    CASE d.kind = "AuthChallenge" ->
            LET q == [p EXCEPT !.expected = d.arg]
            IN  Writing(IF p.state = "AUTH_CHECK"
                            THEN Sends(GoesTimed(q, "SEND_AUTH"), "AuthenticationRequest")
                            ELSE Silent(q), "rand", d.arg)
      [] d.kind = "VLRDecision" /\ p.state = "WAITING_EXTERNAL" ->
            Writing(IF d.arg THEN Sends(complete(p), "LocationUpdatingAccept")
                             ELSE Sends(fail(p), "LocationUpdatingReject"),
                    "newTmsi", "decision")
      [] OTHER -> Silent(p)

AuthenticationTold(p, d) ==
    IF d.kind = "AuthChallenge"
      THEN LET q == [p EXCEPT !.expected = d.arg]
           IN  Writing(IF p.state = "INIT"
                           THEN Sends(Goes(q, "SEND_AUTH_REQ"), "AuthenticationRequest")
                           ELSE Silent(q), "rand", d.arg)
      ELSE Silent(p)

CipheringModeTold(p, d) ==
    IF d.kind = "CipheringParameters" /\ p.state = "INIT"
      THEN Writing(Sends(GoesTimed(p, "SEND_COMMAND"), "CipheringModeCommand"),
                   "cipherAlgo", "algorithm")
      ELSE Silent(p)

\* Any external data starts the page of a mobile-terminated call.
CallSetupMTTold(p, d) ==
    IF p.state = "INIT"
      THEN Writing(Sends([GoesTimed(p, "PAGE") EXCEPT !.pages = 1], "PagingRequestType1"),
                   "identity", "paged")
      ELSE Silent(p)

PagingTold(p, d) ==
    IF d.kind = "PagingTrigger" /\ p.state = "INIT"
      THEN Writing(Sends([GoesTimed(p, "SEND_PAGE1") EXCEPT !.pages = 1],
                         "PagingRequestType1"), "identity", "paged")
      ELSE Silent(p)

HandoverTold(p, d) ==
    IF d.kind = "HandoverTarget" /\ p.state = "INIT"
      THEN Writing(Sends(GoesTimed(p, "SEND_HO_CMD"), "HandoverCommand"), "hoChannel", "target")
      ELSE Silent(p)

\* The base class, call release and IMSI detach ignore external data.
Told(p, d) ==
    CASE p.type = "LocationUpdate" -> LocationUpdateTold(p, d)
      [] p.type = "Authentication" -> AuthenticationTold(p, d)
      [] p.type = "CipheringMode" -> CipheringModeTold(p, d)
      [] p.type = "CallSetup_MT" -> CallSetupMTTold(p, d)
      [] p.type = "Paging" -> PagingTold(p, d)
      [] p.type = "Handover" -> HandoverTold(p, d)
      [] OTHER -> Silent(p)

(***************************************************************************)
(* tick() of a procedure whose timer runs out.                             *)
(***************************************************************************)
MAX_PAGE_ATTEMPTS == 3

PagingExpired(p) ==
    CASE p.state = "WAIT_PAGE1" -> GoesStopped(p, "SEND_PAGE2")
      [] p.state = "WAIT_PAGE2" -> GoesStopped(p, "SEND_PAGE3")
      [] p.state = "WAIT_PAGE3" -> fail(p)
      [] OTHER -> [p EXCEPT !.timer = FALSE]

CallSetupMTExpired(p) ==
    IF p.state = "WAIT_PAGE_RESPONSE" /\ p.pages < MAX_PAGE_ATTEMPTS
      THEN [p EXCEPT !.pages = @ + 1, !.timer = TRUE]
      ELSE fail(p)

Expired(p) ==
    CASE p.type = "Paging" -> PagingExpired(p)
      [] p.type = "CallSetup_MT" -> CallSetupMTExpired(p)
      [] OTHER -> fail(p)

(***************************************************************************)
(* The parameters ResponseBuilder::buildResponseFromToken() needs for the  *)
(* token a procedure of type t returned, and the type that sets a          *)
(* parameter.  Some tokens are left out because the procedure that returns    *)
(* them never fills their parameter: the AssignmentCommand of a call and   *)
(* the ImmediateAssignment of a mobile-terminated one need a channel the   *)
(* application must set, and the Disconnect and ReleaseComplete of a       *)
(* runner-made release carry the identifier 0 whatever the mobile sent.    *)
(***************************************************************************)
Uses(t) ==
    CASE t = "LocationUpdate" -> {"rand", "newTmsi"}
      [] t = "Authentication" -> {"rand"}
      [] t = "CipheringMode" -> {"cipherAlgo"}
      [] t = "CallSetup_MO" -> {"ti"}
      [] t = "CallSetup_MT" -> {"identity", "calledNumber"}
      [] t = "ChannelAssignment" -> {"channel"}
      [] t = "Paging" -> {"identity"}
      [] t = "Handover" -> {"hoChannel"}
      [] OTHER -> {}

Needs(t, token) ==
    CASE token = "AuthenticationRequest" -> {"rand"}
      [] token = "CipheringModeCommand" -> {"cipherAlgo"}
      [] token = "HandoverCommand" -> {"hoChannel"}
      [] token \in {"PagingRequestType1", "PagingRequestType2", "PagingRequestType3"} ->
            {"identity"}
      [] token = "LocationUpdatingAccept" -> {"newTmsi"}
      [] token = "ImmediateAssignment" /\ t = "ChannelAssignment" -> {"channel"}
      [] token = "Setup" -> {"calledNumber"}
      [] token \in {"CallProceeding", "Alerting", "Connect", "ConnectAcknowledge"}
            /\ t = "CallSetup_MO" -> {"ti"}
      [] token = "Release" -> {"ti"}
      [] OTHER -> {}
=============================================================================
