--------------------------- MODULE ProcedureProofs ---------------------------
(***************************************************************************)
(* Theorems about ProcedureSession: the procedures a session drives, in    *)
(* each of the three ways, for all challenges, answers and transaction     *)
(* identifiers and every order of messages, external data, timeouts and    *)
(* cancellations.                                                          *)
(*                                                                         *)
(* What holds of one procedure object after every step of it (Sound, and   *)
(* StepSound for the step) is proved once per procedure type; the runner,  *)
(* the orchestrator and the owning application then only have to keep      *)
(* their procedures in agreement with the session's response context.      *)
(***************************************************************************)
EXTENDS ProcedureSession, WellFoundedInduction, TLAPS

-----------------------------------------------------------------------------
(* One procedure                                                           *)

StatesOf(t) ==
  CASE t = "LocationUpdate" -> {"INIT", "IDENTITY_CHECK", "REQUEST_IDENTITY", "AUTH_CHECK",
                                "SEND_AUTH", "WAIT_AUTH", "LU_REQUEST", "WAITING_EXTERNAL",
                                "SEND_REJECT"}
    [] t = "Authentication" -> {"INIT", "SEND_AUTH_REQ", "WAIT_RESPONSE"}
    [] t = "CipheringMode" -> {"INIT", "SEND_COMMAND", "WAIT_COMPLETE"}
    [] t = "CallSetup_MO" -> {"INIT", "SERVICE_ACCEPT", "WAIT_SETUP", "PROCEEDING", "ASSIGN_TCH",
                              "WAIT_ASSIGN_COMPLETE", "ALERTING", "CONNECT", "ACTIVE"}
    [] t = "CallSetup_MT" -> {"INIT", "PAGE", "WAIT_PAGE_RESPONSE", "ASSIGN_SDCCH", "SEND_SETUP",
                              "WAIT_CONFIRMED", "ASSIGN_TCH", "WAIT_ASSIGN_COMPLETE", "ALERTING",
                              "CONNECT", "ACTIVE"}
    [] t = "ChannelAssignment" -> {"INIT", "ALLOCATE_CHANNEL", "SEND_IMMEDIATE_ASSIGNMENT",
                                   "WAIT_SEIZURE"}
    [] t = "Paging" -> {"INIT", "SEND_PAGE1", "WAIT_PAGE1", "SEND_PAGE2", "WAIT_PAGE2",
                        "SEND_PAGE3", "WAIT_PAGE3"}
    [] t = "Handover" -> {"INIT", "SEND_HO_CMD", "WAIT_HO_COMPLETE"}
    [] t = "CallRelease" -> {"INIT", "WAIT_RELEASE"}
    [] t = "IMSIDetach" -> {"INIT", "WAIT_DETACH_COMPLETE"}

\* The states in which the timer runs.
TimedStates(t) == StatesOf(t) \ Untimed(t)

\* A procedure that is not finished: in a state of its type, timed where it
\* waits; a call that was set up has its identifier, an authentication that
\* was started its challenge.
Sound(p) ==
  /\ p \in Procedure
  /\ p.state \in StatesOf(p.type)
  /\ p.state \in TimedStates(p.type) => p.timer = TRUE
  /\ p.type = "CallSetup_MO" /\ p.state \notin {"INIT", "SERVICE_ACCEPT", "WAIT_SETUP"} =>
       p.ti # Nothing
  /\ p.type = "Authentication" => (p.state = "INIT" <=> p.expected = Nothing)

\* The context holds what the procedure put there, but for the parameters F.
Agrees(p, context, F) ==
  /\ p.type \in {"LocationUpdate", "Authentication"} => "rand" \in F \/ context["rand"] = p.expected
  /\ p.type = "CallSetup_MO" => "ti" \in F \/ context["ti"] = p.ti
  /\ p.type = "CipheringMode" /\ p.state # "INIT" => context["cipherAlgo"] # Nothing
  /\ p.type \in {"CallSetup_MT", "Paging"} /\ p.state # "INIT" => context["identity"] # Nothing
  /\ p.type = "Handover" /\ p.state # "INIT" => context["hoChannel"] # Nothing

\* What a step of an unfinished procedure does: it stays in the states of its
\* type or ends; what it writes is its own, and what its token needs was written
\* in this step or before it.
StepSound(p, r) ==
  /\ r.proc \in Procedure /\ r.proc.type = p.type
  /\ Terminal(r.proc) \/ Sound(r.proc)
  /\ DOMAIN r.sets \subseteq Params
  /\ p.type # "CallRelease" =>
       /\ DOMAIN r.sets \subseteq Uses(p.type)
       /\ \A q \in DOMAIN r.sets : r.sets[q] # Nothing
       /\ IF "ti" \in DOMAIN r.sets THEN r.sets["ti"] = r.proc.ti ELSE r.proc.ti = p.ti
  /\ IF "rand" \in DOMAIN r.sets THEN r.sets["rand"] = r.proc.expected
                                 ELSE r.proc.expected = p.expected
  /\ p.state = "INIT" /\ r.proc.state # "INIT" /\ ~Terminal(r.proc) =>
       Uses(p.type) \cap {"cipherAlgo", "identity", "hoChannel"} \subseteq DOMAIN r.sets
  /\ \A q \in Needs(p.type, r.token) :
       /\ q \in Uses(p.type)
       /\ q \in {"rand", "ti"} => ~Terminal(r.proc)
       /\ q = "rand" => r.proc.expected # Nothing
       /\ q = "ti" => r.proc.ti # Nothing
       /\ q \notin {"rand", "ti"} =>
            q \in DOMAIN r.sets \/ (q \in {"cipherAlgo", "identity", "hoChannel"} /\ p.state # "INIT")

LEMMA StatesAreStates ==
  ASSUME NEW t \in ProcedureTypes
  PROVE  StatesOf(t) \subseteq States /\ "COMPLETED" \in States /\ "FAILED" \in States
BY DEF ProcedureTypes, StatesOf, States

LEMMA SoundGoesOn == ASSUME NEW p, Sound(p) PROVE ~Terminal(p) /\ p # Free
BY NothingAssumption DEF Sound, StatesOf, Procedure, ProcedureTypes, Terminal, Free

\* transitionTo() with the three ways of treating the timer.
LEMMA GoesFields ==
  ASSUME NEW p \in Procedure, NEW s \in States
  PROVE  /\ Goes(p, s) \in Procedure /\ Goes(p, s).type = p.type /\ Goes(p, s).state = s
         /\ Goes(p, s).timer = p.timer
         /\ Goes(p, s).expected = p.expected /\ Goes(p, s).ti = p.ti
BY DEF Goes, Procedure

LEMMA GoesTimedFields ==
  ASSUME NEW p \in Procedure, NEW s \in States
  PROVE  /\ GoesTimed(p, s) \in Procedure /\ GoesTimed(p, s).type = p.type
         /\ GoesTimed(p, s).state = s /\ GoesTimed(p, s).timer = TRUE
         /\ GoesTimed(p, s).expected = p.expected /\ GoesTimed(p, s).ti = p.ti
BY DEF GoesTimed, Procedure

LEMMA GoesStoppedFields ==
  ASSUME NEW p \in Procedure, NEW s \in States
  PROVE  /\ GoesStopped(p, s) \in Procedure /\ GoesStopped(p, s).type = p.type
         /\ GoesStopped(p, s).state = s /\ GoesStopped(p, s).timer = FALSE
         /\ GoesStopped(p, s).expected = p.expected /\ GoesStopped(p, s).ti = p.ti
BY DEF GoesStopped, Procedure

\* A procedure after a step that keeps its challenge and its identifier.
Moved(p, q) ==
  /\ q \in Procedure /\ q.type = p.type /\ q.expected = p.expected /\ q.ti = p.ti
  /\ Terminal(q) \/ Sound(q)

\* The state s with the timer as given is sound for a procedure with p's data.
May(p, s, timer) ==
  /\ s \in StatesOf(p.type)
  /\ s \in TimedStates(p.type) => timer = TRUE
  /\ p.type = "CallSetup_MO" /\ s \notin {"INIT", "SERVICE_ACCEPT", "WAIT_SETUP"} => p.ti # Nothing
  /\ p.type = "Authentication" => (s = "INIT" <=> p.expected = Nothing)

\* The types that external data starts: the start writes their parameter.
StartedByData == {"CipheringMode", "CallSetup_MT", "Paging", "Handover"}
Started(p) == p.type \notin StartedByData \/ p.state # "INIT"

LEMMA MayMove ==
  ASSUME NEW p, Sound(p), NEW s
  PROVE  /\ May(p, s, p.timer) => Moved(p, Goes(p, s))
         /\ May(p, s, TRUE) => Moved(p, GoesTimed(p, s))
         /\ May(p, s, FALSE) => Moved(p, GoesStopped(p, s))
<1>1. p \in Procedure /\ StatesOf(p.type) \subseteq States
  BY StatesAreStates DEF Sound, Procedure
<1>2. ASSUME May(p, s, p.timer) PROVE Moved(p, Goes(p, s))
  BY <1>1, <1>2, GoesFields DEF Moved, Sound, May
<1>3. ASSUME May(p, s, TRUE) PROVE Moved(p, GoesTimed(p, s))
  BY <1>1, <1>3, GoesTimedFields DEF Moved, Sound, May
<1>4. ASSUME May(p, s, FALSE) PROVE Moved(p, GoesStopped(p, s))
  BY <1>1, <1>4, GoesStoppedFields DEF Moved, Sound, May
<1> QED
  BY <1>2, <1>3, <1>4

LEMMA MayGoOn ==
  ASSUME NEW p, Sound(p), NEW s, NEW timer, May(p, s, timer)
  PROVE  ~Terminal(Goes(p, s)) /\ ~Terminal(GoesTimed(p, s)) /\ ~Terminal(GoesStopped(p, s))
<1>1. p \in Procedure /\ s \in States
  BY StatesAreStates DEF May, Sound, Procedure
<1>2. s # "COMPLETED" /\ s # "FAILED"
  BY <1>1 DEF May, StatesOf, Procedure, ProcedureTypes
<1>3. Goes(p, s).state = s
  BY <1>1, GoesFields
<1>4. GoesTimed(p, s).state = s
  BY <1>1, GoesTimedFields
<1>5. GoesStopped(p, s).state = s
  BY <1>1, GoesStoppedFields
<1> QED
  BY <1>2, <1>3, <1>4, <1>5 DEF Terminal

LEMMA Ends ==
  ASSUME NEW p, Sound(p)
  PROVE  Moved(p, complete(p)) /\ Moved(p, fail(p)) /\ Terminal(complete(p)) /\ Terminal(fail(p))
<1>1. p \in Procedure /\ "COMPLETED" \in States /\ "FAILED" \in States
  BY StatesAreStates DEF Sound, Procedure
<1>2. Terminal(complete(p)) /\ Terminal(fail(p))
  BY <1>1, GoesStoppedFields DEF complete, fail, Terminal
<1> QED
  BY <1>1, <1>2, GoesStoppedFields DEF Moved, complete, fail

LEMMA NoParameters ==
  \A t : Needs(t, Nothing) = {}
<1> SUFFICES ASSUME NEW t PROVE Needs(t, Nothing) = {}
  OBVIOUS
<1>1. /\ Nothing # "AuthenticationRequest" /\ Nothing # "CipheringModeCommand"
      /\ Nothing # "HandoverCommand" /\ Nothing # "PagingRequestType1"
      /\ Nothing # "PagingRequestType2" /\ Nothing # "PagingRequestType3"
      /\ Nothing # "LocationUpdatingAccept" /\ Nothing # "ImmediateAssignment"
      /\ Nothing # "Setup" /\ Nothing # "CallProceeding" /\ Nothing # "Alerting"
      /\ Nothing # "Connect" /\ Nothing # "ConnectAcknowledge" /\ Nothing # "Release"
  BY NothingAssumption DEF Tokens
<1> QED
  BY <1>1 DEF Needs

LEMMA StartUses ==
  ASSUME NEW p, Sound(p), p.type \notin StartedByData
  PROVE  Uses(p.type) \cap {"cipherAlgo", "identity", "hoChannel"} = {}
BY DEF StartedByData, Uses, Sound, Procedure, ProcedureTypes

LEMMA SilentSound ==
  ASSUME NEW p, Sound(p), NEW q, Moved(p, q), Started(p) \/ q.state = "INIT" \/ Terminal(q)
  PROVE  StepSound(p, Silent(q))
<1>1. Silent(q).proc = q /\ Silent(q).token = Nothing /\ DOMAIN Silent(q).sets = {}
  BY DEF Silent
<1> QED
  BY <1>1, StartUses, NoParameters DEF StepSound, Moved, Started

\* A token whose parameters are in the context already.
Served(p, tok) ==
  \A x \in Needs(p.type, tok) :
    /\ x \in Uses(p.type)
    /\ x \in {"cipherAlgo", "identity", "hoChannel"} => p.state # "INIT"
    /\ x \notin {"cipherAlgo", "identity", "hoChannel"} => x \in {"rand", "ti"}
    /\ x = "rand" => p.expected # Nothing
    /\ x = "ti" => p.ti # Nothing

LEMMA SendsSound ==
  ASSUME NEW p, Sound(p), NEW q, Moved(p, q), Started(p), NEW tok, Served(p, tok),
         ~Terminal(q) \/ Needs(p.type, tok) = {}
  PROVE  StepSound(p, Sends(q, tok))
<1>1. Sends(q, tok).proc = q /\ Sends(q, tok).token = tok /\ DOMAIN Sends(q, tok).sets = {}
  BY DEF Sends
<1> QED
  BY <1>1, StartUses DEF StepSound, Moved, Served, Started

LEMMA SilentEnds ==
  ASSUME NEW p, Sound(p)
  PROVE  StepSound(p, Silent(complete(p))) /\ StepSound(p, Silent(fail(p)))
BY Ends, SilentSound

LEMMA SilentStays ==
  ASSUME NEW p, Sound(p)
  PROVE  StepSound(p, Silent(p))
<1>1. Moved(p, p)
  BY DEF Moved, Sound
<1> QED
  BY <1>1, SilentSound DEF Started

LEMMA SilentMoves ==
  ASSUME NEW p, Sound(p), Started(p), NEW s
  PROVE  /\ May(p, s, p.timer) => StepSound(p, Silent(Goes(p, s)))
         /\ May(p, s, TRUE) => StepSound(p, Silent(GoesTimed(p, s)))
         /\ May(p, s, FALSE) => StepSound(p, Silent(GoesStopped(p, s)))
BY MayMove, SilentSound

LEMMA SendsMoves ==
  ASSUME NEW p, Sound(p), Started(p), NEW s, NEW tok, Served(p, tok)
  PROVE  /\ May(p, s, p.timer) => StepSound(p, Sends(Goes(p, s), tok))
         /\ May(p, s, TRUE) => StepSound(p, Sends(GoesTimed(p, s), tok))
         /\ May(p, s, FALSE) => StepSound(p, Sends(GoesStopped(p, s), tok))
BY MayMove, MayGoOn, SendsSound

\* The tokens that need nothing of the session.
LEMMA ServedFreely ==
  ASSUME NEW p,
         NEW tok \in {"IdentityRequest", "CMServiceAccept", "AssignmentCommand", "ReleaseComplete",
                      "Disconnect", "LocationUpdatingReject"}
  PROVE  Served(p, tok) /\ Needs(p.type, tok) = {}
BY DEF Served, Needs

\* The page counter plays no part in the soundness of a procedure.
LEMMA PagesMoved ==
  ASSUME NEW p, NEW q, Moved(p, q), NEW n \in Nat
  PROVE  Moved(p, [q EXCEPT !.pages = n]) /\ (~Terminal(q) => ~Terminal([q EXCEPT !.pages = n]))
<1> DEFINE r == [q EXCEPT !.pages = n]
<1>1. /\ r \in Procedure /\ r.type = q.type /\ r.state = q.state /\ r.timer = q.timer
      /\ r.expected = q.expected /\ r.ti = q.ti
  BY DEF Moved, Procedure
<1> QED
  BY <1>1 DEF Moved, Sound, Terminal

LEMMA UsesParams ==
  ASSUME NEW p, Sound(p)
  PROVE  Uses(p.type) \subseteq Params
BY DEF Uses, Params, Sound, Procedure, ProcedureTypes

\* A step that writes a parameter of its own procedure, and sends at most what
\* needs this parameter.
LEMMA WritingSound ==
  ASSUME NEW p, Sound(p), NEW q \in Procedure, q.type = p.type, Terminal(q) \/ Sound(q),
         NEW x \in Uses(p.type), NEW v, v # Nothing,
         IF x = "rand" THEN q.expected = v ELSE q.expected = p.expected,
         IF x = "ti" THEN q.ti = v ELSE q.ti = p.ti,
         p.state = "INIT" => Uses(p.type) \cap {"cipherAlgo", "identity", "hoChannel"} \subseteq {x},
         x \in {"rand", "ti"} => ~Terminal(q)
  PROVE  /\ StepSound(p, Writing(Silent(q), x, v))
         /\ \A tok : Needs(p.type, tok) \subseteq {x} => StepSound(p, Writing(Sends(q, tok), x, v))
<1>1. x \in Params
  BY UsesParams
<1>2. /\ Writing(Silent(q), x, v).proc = q /\ Writing(Silent(q), x, v).token = Nothing
      /\ DOMAIN Writing(Silent(q), x, v).sets = {x} /\ Writing(Silent(q), x, v).sets[x] = v
  BY DEF Writing, Silent
<1>3. StepSound(p, Writing(Silent(q), x, v))
  BY <1>1, <1>2, NoParameters DEF StepSound
<1>4. ASSUME NEW tok, Needs(p.type, tok) \subseteq {x}
      PROVE  StepSound(p, Writing(Sends(q, tok), x, v))
  <2>1. /\ Writing(Sends(q, tok), x, v).proc = q /\ Writing(Sends(q, tok), x, v).token = tok
        /\ DOMAIN Writing(Sends(q, tok), x, v).sets = {x} /\ Writing(Sends(q, tok), x, v).sets[x] = v
    BY DEF Writing, Sends
  <2> QED
    BY <1>1, <1>4, <2>1 DEF StepSound
<1> QED
  BY <1>3, <1>4

LEMMA WritingMoved ==
  ASSUME NEW p, Sound(p), NEW q, Moved(p, q),
         NEW x \in Uses(p.type), x \notin {"rand", "ti"}, NEW v \in Filled, NEW tok,
         Needs(p.type, tok) \subseteq {x},
         p.state = "INIT" => Uses(p.type) \cap {"cipherAlgo", "identity", "hoChannel"} \subseteq {x}
  PROVE  StepSound(p, Writing(Sends(q, tok), x, v))
<1>1. v # Nothing
  BY NothingAssumption
<1> QED
  BY <1>1, WritingSound DEF Moved

\* The release of a call writes the identifier 0, and what it sends is built
\* from that.
LEMMA ReleaseSound ==
  ASSUME NEW p, Sound(p), p.type = "CallRelease", NEW q, Moved(p, q)
  PROVE  /\ StepSound(p, Writing(Silent(q), "ti", Nothing))
         /\ \A tok \in {"Disconnect", "ReleaseComplete"} :
              StepSound(p, Writing(Sends(q, tok), "ti", Nothing))
<1>1. /\ Writing(Silent(q), "ti", Nothing).proc = q /\ Writing(Silent(q), "ti", Nothing).token = Nothing
      /\ DOMAIN Writing(Silent(q), "ti", Nothing).sets = {"ti"}
  BY DEF Writing, Silent
<1>2. StepSound(p, Writing(Silent(q), "ti", Nothing))
  BY <1>1, NoParameters DEF StepSound, Moved, Params, Uses
<1>3. ASSUME NEW tok \in {"Disconnect", "ReleaseComplete"}
      PROVE  StepSound(p, Writing(Sends(q, tok), "ti", Nothing))
  <2>1. /\ Writing(Sends(q, tok), "ti", Nothing).proc = q
        /\ Writing(Sends(q, tok), "ti", Nothing).token = tok
        /\ DOMAIN Writing(Sends(q, tok), "ti", Nothing).sets = {"ti"}
    BY DEF Writing, Sends
  <2>2. Needs(p.type, tok) = {}
    BY <1>3 DEF Needs
  <2> QED
    BY <2>1, <2>2 DEF StepSound, Moved, Params, Uses
<1> QED
  BY <1>2, <1>3

-----------------------------------------------------------------------------
(* feed() of each procedure                                                *)

LEMMA AuthenticationFedSound ==
  ASSUME NEW p, Sound(p), p.type = "Authentication", NEW m \in Messages
  PROVE  StepSound(p, AuthenticationFed(p, m))
<1>0. Started(p)
  BY DEF Started, StartedByData
<1>1. CASE p.state = "SEND_AUTH_REQ"
  <2>1. May(p, "WAIT_RESPONSE", TRUE)
    BY <1>1 DEF May, Sound, StatesOf, TimedStates, Untimed
  <2>2. Served(p, "AuthenticationRequest")
    BY <1>1 DEF Served, Needs, Uses, Sound
  <2> QED
    BY <1>0, <1>1, <2>1, <2>2, SendsMoves DEF AuthenticationFed
<1>2. CASE p.state = "WAIT_RESPONSE" /\ m.mti = "AuthenticationResponse"
  BY <1>0, <1>2, SilentEnds DEF AuthenticationFed
<1> QED
  BY <1>1, <1>2, SilentStays DEF AuthenticationFed

LEMMA CipheringModeFedSound ==
  ASSUME NEW p, Sound(p), p.type = "CipheringMode", NEW m \in Messages
  PROVE  StepSound(p, CipheringModeFed(p, m))
<1>0. p.state # "INIT" => Started(p)
  BY DEF Started
<1>1. CASE p.state = "SEND_COMMAND"
  <2>1. May(p, "WAIT_COMPLETE", TRUE)
    BY <1>1 DEF May, Sound, StatesOf, TimedStates, Untimed
  <2>2. Served(p, "CipheringModeCommand")
    BY <1>1 DEF Served, Needs, Uses, Sound
  <2> QED
    BY <1>0, <1>1, <2>1, <2>2, SendsMoves DEF CipheringModeFed
<1>2. CASE p.state = "WAIT_COMPLETE" /\ m.mti = "CipheringModeComplete"
  BY <1>0, <1>2, SilentEnds DEF CipheringModeFed
<1> QED
  BY <1>1, <1>2, SilentStays DEF CipheringModeFed

LEMMA LocationUpdateFedSound ==
  ASSUME NEW p, Sound(p), p.type = "LocationUpdate", NEW m \in Messages, NEW b \in BOOLEAN
  PROVE  StepSound(p, LocationUpdateFed(p, m, b))
<1>0. Started(p)
  BY DEF Started, StartedByData
<1>1. CASE p.state = "INIT"
  <2>1. May(p, "IDENTITY_CHECK", p.timer)
    BY <1>1 DEF May, Sound, StatesOf, TimedStates, Untimed
  <2> QED
    BY <1>0, <1>1, <2>1, SilentMoves, SilentStays DEF LocationUpdateFed
<1>2. CASE p.state = "IDENTITY_CHECK" /\ b
  <2>1. May(p, "AUTH_CHECK", p.timer)
    BY <1>2 DEF May, Sound, StatesOf, TimedStates, Untimed
  <2> QED
    BY <1>0, <1>2, <2>1, SilentMoves DEF LocationUpdateFed
<1>3. CASE p.state = "IDENTITY_CHECK" /\ ~b
  <2>1. May(p, "REQUEST_IDENTITY", p.timer)
    BY <1>3 DEF May, Sound, StatesOf, TimedStates, Untimed
  <2>2. Served(p, "IdentityRequest")
    BY <1>3, ServedFreely
  <2> QED
    BY <1>0, <1>3, <2>1, <2>2, SendsMoves DEF LocationUpdateFed
<1>4. CASE p.state = "REQUEST_IDENTITY"
  <2>1. May(p, "AUTH_CHECK", p.timer)
    BY <1>4 DEF May, Sound, StatesOf, TimedStates, Untimed
  <2> QED
    BY <1>0, <1>4, <2>1, SilentMoves, SilentStays DEF LocationUpdateFed
<1>5. CASE p.state = "AUTH_CHECK" /\ p.expected = Nothing
  <2>1. May(p, "LU_REQUEST", p.timer)
    BY <1>5 DEF May, Sound, StatesOf, TimedStates, Untimed
  <2> QED
    BY <1>0, <1>5, <2>1, SilentMoves DEF LocationUpdateFed
<1>6. CASE p.state = "AUTH_CHECK" /\ p.expected # Nothing
  <2>1. May(p, "SEND_AUTH", TRUE)
    BY <1>6 DEF May, Sound, StatesOf, TimedStates, Untimed
  <2>2. Served(p, "AuthenticationRequest")
    BY <1>6 DEF Served, Needs, Uses, Sound
  <2> QED
    BY <1>0, <1>6, <2>1, <2>2, SendsMoves DEF LocationUpdateFed
<1>7. CASE p.state = "SEND_AUTH"
  <2>1. May(p, "WAIT_AUTH", p.timer)
    BY <1>7 DEF May, Sound, StatesOf, TimedStates, Untimed
  <2> QED
    BY <1>0, <1>7, <2>1, SilentMoves DEF LocationUpdateFed
<1>8. CASE p.state = "WAIT_AUTH" /\ m.mti = "AuthenticationResponse" /\ SresMatches(p, m)
  <2>1. May(p, "LU_REQUEST", p.timer)
    BY <1>8 DEF May, Sound, StatesOf, TimedStates, Untimed
  <2> QED
    BY <1>0, <1>8, <2>1, SilentMoves DEF LocationUpdateFed
<1>9. CASE p.state = "WAIT_AUTH" /\ m.mti = "AuthenticationResponse" /\ ~SresMatches(p, m)
  <2>1. May(p, "SEND_REJECT", p.timer)
    BY <1>9 DEF May, Sound, StatesOf, TimedStates, Untimed
  <2>2. Served(p, "LocationUpdatingReject")
    BY <1>9, ServedFreely
  <2> QED
    BY <1>0, <1>9, <2>1, <2>2, SendsMoves DEF LocationUpdateFed
<1>10. CASE p.state = "LU_REQUEST"
  <2>1. May(p, "WAITING_EXTERNAL", TRUE)
    BY <1>10 DEF May, Sound, StatesOf, TimedStates, Untimed
  <2> QED
    BY <1>0, <1>10, <2>1, SilentMoves DEF LocationUpdateFed
<1>11. CASE p.state = "SEND_REJECT"
  BY <1>0, <1>11, Ends, SendsSound, ServedFreely DEF LocationUpdateFed
<1> QED
  BY <1>1, <1>2, <1>3, <1>4, <1>5, <1>6, <1>7, <1>8, <1>9, <1>10, <1>11, SilentStays DEF LocationUpdateFed

LEMMA CallSetupMOFedSound ==
  ASSUME NEW p, Sound(p), p.type = "CallSetup_MO", NEW m \in Messages
  PROVE  StepSound(p, CallSetupMOFed(p, m))
<1>0. Started(p)
  BY DEF Started, StartedByData
<1>1. CASE p.state = "INIT" /\ m.mti = "CMServiceRequest"
  <2>1. May(p, "SERVICE_ACCEPT", p.timer)
    BY <1>1 DEF May, Sound, StatesOf, TimedStates, Untimed
  <2>2. Served(p, "CMServiceAccept")
    BY <1>1, ServedFreely
  <2> QED
    BY <1>0, <1>1, <2>1, <2>2, SendsMoves DEF CallSetupMOFed
<1>2. CASE p.state \in {"INIT", "WAIT_SETUP"} /\ m.mti = "Setup"
  <2> DEFINE q == [GoesTimed(p, "PROCEEDING") EXCEPT !.ti = m.arg]
  <2>1. m.arg \in TIs /\ m.arg # Nothing
    BY <1>2, NothingAssumption DEF Messages, RRTypes, MMPlain, CCPlain
  <2>2. /\ q \in Procedure /\ q.type = p.type /\ q.state = "PROCEEDING" /\ q.timer = TRUE
        /\ q.expected = p.expected /\ q.ti = m.arg
    BY <2>1 DEF Sound, Procedure, GoesTimed, States
  <2> HIDE DEF q
  <2>3. Sound(q)
    BY <2>1, <2>2 DEF Sound, StatesOf
  <2>4. "ti" \in Uses(p.type) /\ Needs(p.type, "CallProceeding") \subseteq {"ti"}
        /\ Uses(p.type) \cap {"cipherAlgo", "identity", "hoChannel"} = {}
    BY DEF Uses, Needs
  <2>5. StepSound(p, Writing(Sends(q, "CallProceeding"), "ti", m.arg))
    BY <2>1, <2>2, <2>3, <2>4, WritingSound DEF Terminal
  <2> QED
    BY <1>2, <2>5 DEF CallSetupMOFed, TakesSetup, q
<1>3. CASE p.state = "SERVICE_ACCEPT"
  <2>1. May(p, "WAIT_SETUP", p.timer)
    BY <1>3 DEF May, Sound, StatesOf, TimedStates, Untimed
  <2> QED
    BY <1>0, <1>3, <2>1, SilentMoves DEF CallSetupMOFed
<1>4. CASE p.state = "PROCEEDING"
  <2>1. May(p, "ASSIGN_TCH", TRUE)
    BY <1>4 DEF May, Sound, StatesOf, TimedStates, Untimed
  <2>2. Served(p, "AssignmentCommand")
    BY <1>4, ServedFreely
  <2> QED
    BY <1>0, <1>4, <2>1, <2>2, SendsMoves DEF CallSetupMOFed
<1>5. CASE p.state = "ASSIGN_TCH"
  <2>1. May(p, "WAIT_ASSIGN_COMPLETE", p.timer)
    BY <1>5 DEF May, Sound, StatesOf, TimedStates, Untimed
  <2> QED
    BY <1>0, <1>5, <2>1, SilentMoves DEF CallSetupMOFed
<1>6. CASE p.state = "WAIT_ASSIGN_COMPLETE" /\ m.mti = "AssignmentComplete"
  <2>1. May(p, "ALERTING", p.timer)
    BY <1>6 DEF May, Sound, StatesOf, TimedStates, Untimed
  <2>2. Served(p, "Alerting")
    BY <1>6 DEF Served, Needs, Uses, Sound
  <2> QED
    BY <1>0, <1>6, <2>1, <2>2, SendsMoves DEF CallSetupMOFed
<1>7. CASE p.state = "ALERTING"
  <2>1. May(p, "CONNECT", p.timer)
    BY <1>7 DEF May, Sound, StatesOf, TimedStates, Untimed
  <2>2. Served(p, "Connect")
    BY <1>7 DEF Served, Needs, Uses, Sound
  <2> QED
    BY <1>0, <1>7, <2>1, <2>2, SendsMoves DEF CallSetupMOFed
<1>8. CASE p.state = "CONNECT"
  <2>1. May(p, "ACTIVE", p.timer)
    BY <1>8 DEF May, Sound, StatesOf, TimedStates, Untimed
  <2>2. Served(p, "ConnectAcknowledge")
    BY <1>8 DEF Served, Needs, Uses, Sound
  <2> QED
    BY <1>0, <1>8, <2>1, <2>2, SendsMoves DEF CallSetupMOFed
<1>9. CASE p.state = "ACTIVE" /\ m.mti = "ConnectAcknowledge"
  BY <1>0, <1>9, SilentEnds DEF CallSetupMOFed
<1> QED
  BY <1>1, <1>2, <1>3, <1>4, <1>5, <1>6, <1>7, <1>8, <1>9, SilentStays DEF CallSetupMOFed

LEMMA CallSetupMTFedSound ==
  ASSUME NEW p, Sound(p), p.type = "CallSetup_MT", NEW m \in Messages
  PROVE  StepSound(p, CallSetupMTFed(p, m))
<1>0. p.state # "INIT" => Started(p)
  BY DEF Started
<1>1. CASE p.state = "PAGE"
  <2>1. May(p, "WAIT_PAGE_RESPONSE", TRUE)
    BY <1>1 DEF May, Sound, StatesOf, TimedStates, Untimed
  <2>2. Served(p, "PagingRequestType1")
    BY <1>1 DEF Served, Needs, Uses, Sound
  <2> QED
    BY <1>0, <1>1, <2>1, <2>2, SendsMoves DEF CallSetupMTFed
<1>2. CASE p.state = "WAIT_PAGE_RESPONSE" /\ m.mti = "PagingResponse"
  <2>1. May(p, "ASSIGN_SDCCH", FALSE)
    BY <1>2 DEF May, Sound, StatesOf, TimedStates, Untimed
  <2>2. Served(p, "ImmediateAssignment")
    BY <1>2 DEF Served, Needs, Uses, Sound
  <2> QED
    BY <1>0, <1>2, <2>1, <2>2, SendsMoves DEF CallSetupMTFed
<1>3. CASE p.state = "ASSIGN_SDCCH"
  <2>1. May(p, "SEND_SETUP", p.timer)
    BY <1>3 DEF May, Sound, StatesOf, TimedStates, Untimed
  <2>2. "calledNumber" \in Uses(p.type) /\ Needs(p.type, "Setup") \subseteq {"calledNumber"} /\ "number" \in Filled
    BY DEF Uses, Needs, Filled
  <2> QED
    BY <1>3, <2>1, <2>2, MayMove, WritingMoved DEF CallSetupMTFed
<1>4. CASE p.state = "SEND_SETUP"
  <2>1. May(p, "WAIT_CONFIRMED", TRUE)
    BY <1>4 DEF May, Sound, StatesOf, TimedStates, Untimed
  <2>2. "calledNumber" \in Uses(p.type) /\ Needs(p.type, "Setup") \subseteq {"calledNumber"} /\ "number" \in Filled
    BY DEF Uses, Needs, Filled
  <2> QED
    BY <1>4, <2>1, <2>2, MayMove, WritingMoved DEF CallSetupMTFed
<1>5. CASE p.state = "WAIT_CONFIRMED" /\ m.mti = "CallConfirmed"
  <2>1. May(p, "ASSIGN_TCH", FALSE)
    BY <1>5 DEF May, Sound, StatesOf, TimedStates, Untimed
  <2> QED
    BY <1>0, <1>5, <2>1, SilentMoves DEF CallSetupMTFed
<1>6. CASE p.state = "ASSIGN_TCH"
  <2>1. May(p, "WAIT_ASSIGN_COMPLETE", TRUE)
    BY <1>6 DEF May, Sound, StatesOf, TimedStates, Untimed
  <2>2. Served(p, "AssignmentCommand")
    BY <1>6, ServedFreely
  <2> QED
    BY <1>0, <1>6, <2>1, <2>2, SendsMoves DEF CallSetupMTFed
<1>7. CASE p.state = "WAIT_ASSIGN_COMPLETE" /\ m.mti = "AssignmentComplete"
  <2>1. May(p, "ALERTING", FALSE)
    BY <1>7 DEF May, Sound, StatesOf, TimedStates, Untimed
  <2>2. Served(p, "Alerting")
    BY <1>7 DEF Served, Needs, Uses, Sound
  <2> QED
    BY <1>0, <1>7, <2>1, <2>2, SendsMoves DEF CallSetupMTFed
<1>8. CASE p.state = "ALERTING"
  <2>1. May(p, "CONNECT", p.timer)
    BY <1>8 DEF May, Sound, StatesOf, TimedStates, Untimed
  <2>2. Served(p, "Connect")
    BY <1>8 DEF Served, Needs, Uses, Sound
  <2> QED
    BY <1>0, <1>8, <2>1, <2>2, SendsMoves DEF CallSetupMTFed
<1>9. CASE p.state = "CONNECT"
  <2>1. May(p, "ACTIVE", p.timer)
    BY <1>9 DEF May, Sound, StatesOf, TimedStates, Untimed
  <2>2. Served(p, "ConnectAcknowledge")
    BY <1>9 DEF Served, Needs, Uses, Sound
  <2> QED
    BY <1>0, <1>9, <2>1, <2>2, SendsMoves DEF CallSetupMTFed
<1>10. CASE p.state = "ACTIVE" /\ m.mti = "ConnectAcknowledge"
  BY <1>0, <1>10, SilentEnds DEF CallSetupMTFed
<1> QED
  BY <1>1, <1>2, <1>3, <1>4, <1>5, <1>6, <1>7, <1>8, <1>9, <1>10, SilentStays DEF CallSetupMTFed

LEMMA ChannelAssignmentFedSound ==
  ASSUME NEW p, Sound(p), p.type = "ChannelAssignment", NEW m \in Messages
  PROVE  StepSound(p, ChannelAssignmentFed(p, m))
<1>0. Started(p)
  BY DEF Started, StartedByData
<1>1. CASE p.state = "INIT" /\ m.mti \in {"ChannelRequest", "PagingResponse"}
  <2>1. May(p, "ALLOCATE_CHANNEL", p.timer)
    BY <1>1 DEF May, Sound, StatesOf, TimedStates, Untimed
  <2> QED
    BY <1>0, <1>1, <2>1, SilentMoves DEF ChannelAssignmentFed
<1>2. CASE p.state = "ALLOCATE_CHANNEL"
  <2>1. May(p, "SEND_IMMEDIATE_ASSIGNMENT", TRUE)
    BY <1>2 DEF May, Sound, StatesOf, TimedStates, Untimed
  <2>2. "channel" \in Uses(p.type) /\ Needs(p.type, "ImmediateAssignment") \subseteq {"channel"} /\ "sdcch" \in Filled
    BY DEF Uses, Needs, Filled
  <2> QED
    BY <1>2, <2>1, <2>2, MayMove, WritingMoved DEF ChannelAssignmentFed
<1>3. CASE p.state = "SEND_IMMEDIATE_ASSIGNMENT"
  <2>1. May(p, "WAIT_SEIZURE", p.timer)
    BY <1>3 DEF May, Sound, StatesOf, TimedStates, Untimed
  <2> QED
    BY <1>0, <1>3, <2>1, SilentMoves DEF ChannelAssignmentFed
<1>4. CASE p.state = "WAIT_SEIZURE"
  BY <1>0, <1>4, SilentEnds DEF ChannelAssignmentFed
<1> QED
  BY <1>1, <1>2, <1>3, <1>4, SilentStays DEF ChannelAssignmentFed

LEMMA PagingFedSound ==
  ASSUME NEW p, Sound(p), p.type = "Paging", NEW m \in Messages
  PROVE  StepSound(p, PagingFed(p, m))
<1>0. p.state # "INIT" => Started(p)
  BY DEF Started
<1>1. CASE p.state = "SEND_PAGE1"
  <2>1. May(p, "WAIT_PAGE1", TRUE) /\ Served(p, "PagingRequestType1")
    BY <1>1 DEF May, Sound, StatesOf, Served, Needs, Uses
  <2> QED
    BY <1>0, <1>1, <2>1, MayMove, MayGoOn, PagesMoved, SendsSound DEF PagingFed
<1>2. CASE p.state = "SEND_PAGE2"
  <2>1. May(p, "WAIT_PAGE2", TRUE) /\ Served(p, "PagingRequestType2")
    BY <1>2 DEF May, Sound, StatesOf, Served, Needs, Uses
  <2> QED
    BY <1>0, <1>2, <2>1, MayMove, MayGoOn, PagesMoved, SendsSound DEF PagingFed
<1>3. CASE p.state = "SEND_PAGE3"
  <2>1. May(p, "WAIT_PAGE3", TRUE) /\ Served(p, "PagingRequestType3")
    BY <1>3 DEF May, Sound, StatesOf, Served, Needs, Uses
  <2> QED
    BY <1>0, <1>3, <2>1, MayMove, MayGoOn, PagesMoved, SendsSound DEF PagingFed
<1>4. CASE p.state \in {"WAIT_PAGE1", "WAIT_PAGE2", "WAIT_PAGE3"} /\ m.mti = "PagingResponse"
  BY <1>0, <1>4, SilentEnds DEF PagingFed
<1> QED
  BY <1>1, <1>2, <1>3, <1>4, SilentStays DEF PagingFed

LEMMA HandoverFedSound ==
  ASSUME NEW p, Sound(p), p.type = "Handover", NEW m \in Messages
  PROVE  StepSound(p, HandoverFed(p, m))
<1>0. p.state # "INIT" => Started(p)
  BY DEF Started
<1>1. CASE p.state = "SEND_HO_CMD"
  <2>1. May(p, "WAIT_HO_COMPLETE", TRUE)
    BY <1>1 DEF May, Sound, StatesOf, TimedStates, Untimed
  <2>2. Served(p, "HandoverCommand")
    BY <1>1 DEF Served, Needs, Uses, Sound
  <2> QED
    BY <1>0, <1>1, <2>1, <2>2, SendsMoves DEF HandoverFed
<1>2. CASE p.state = "WAIT_HO_COMPLETE" /\ m.mti = "HandoverComplete"
  BY <1>0, <1>2, SilentEnds DEF HandoverFed
<1>3. CASE p.state = "WAIT_HO_COMPLETE" /\ m.mti = "HandoverFailure"
  BY <1>0, <1>3, SilentEnds DEF HandoverFed
<1> QED
  BY <1>1, <1>2, <1>3, SilentStays DEF HandoverFed

LEMMA CallReleaseFedSound ==
  ASSUME NEW p, Sound(p), p.type = "CallRelease", NEW m \in Messages
  PROVE  StepSound(p, CallReleaseFed(p, m))
<1>1. Moved(p, p) /\ Moved(p, complete(p))
  BY Ends DEF Moved, Sound
<1>2. CASE p.state = "INIT" /\ m.pd = "CC"
  <2>1. May(p, "WAIT_RELEASE", TRUE)
    BY DEF May, StatesOf
  <2> QED
    BY <1>2, <2>1, MayMove, ReleaseSound DEF CallReleaseFed
<1>3. CASE p.state = "WAIT_RELEASE" /\ m.mti = "Release"
  BY <1>1, <1>3, ReleaseSound DEF CallReleaseFed
<1> QED
  BY <1>1, <1>2, <1>3, ReleaseSound DEF CallReleaseFed

LEMMA IMSIDetachFedSound ==
  ASSUME NEW p, Sound(p), p.type = "IMSIDetach", NEW m \in Messages
  PROVE  StepSound(p, IMSIDetachFed(p, m))
<1>0. Started(p)
  BY DEF Started, StartedByData
<1>1. CASE p.state = "INIT" /\ m.pd = "MM"
  <2>1. May(p, "WAIT_DETACH_COMPLETE", TRUE)
    BY <1>1 DEF May, Sound, StatesOf, TimedStates, Untimed
  <2>2. Served(p, "CMServiceAccept")
    BY <1>1, ServedFreely
  <2> QED
    BY <1>0, <1>1, <2>1, <2>2, SendsMoves DEF IMSIDetachFed
<1>2. CASE p.state = "WAIT_DETACH_COMPLETE" /\ m.pd = "MM"
  BY <1>0, <1>2, SilentEnds DEF IMSIDetachFed
<1> QED
  BY <1>1, <1>2, SilentStays DEF IMSIDetachFed

LEMMA FedSound ==
  ASSUME NEW p, Sound(p), NEW m \in Messages, NEW b \in BOOLEAN
  PROVE  StepSound(p, Fed(p, m, b))
<1>1. p.type \in ProcedureTypes
  BY DEF Sound, Procedure
<1> QED
  BY <1>1, LocationUpdateFedSound, AuthenticationFedSound, CipheringModeFedSound, CallSetupMOFedSound,
     CallSetupMTFedSound, ChannelAssignmentFedSound, PagingFedSound, HandoverFedSound,
     CallReleaseFedSound, IMSIDetachFedSound DEF Fed, ProcedureTypes

-----------------------------------------------------------------------------
(* External data and timeouts                                              *)

\* A new challenge: the procedure expects its answer.
LEMMA ExpectedFields ==
  ASSUME NEW p \in Procedure, NEW c \in Challenges
  PROVE  LET q == [p EXCEPT !.expected = c]
         IN  /\ q \in Procedure /\ q.type = p.type /\ q.state = p.state /\ q.timer = p.timer
             /\ q.expected = c /\ q.ti = p.ti
BY DEF Procedure

LEMMA LocationUpdateToldSound ==
  ASSUME NEW p, Sound(p), p.type = "LocationUpdate", NEW d \in ExternalData
  PROVE  StepSound(p, LocationUpdateTold(p, d))
<1>1. /\ "rand" \in Uses(p.type) /\ Needs(p.type, "AuthenticationRequest") \subseteq {"rand"}
      /\ "newTmsi" \in Uses(p.type) /\ Needs(p.type, "LocationUpdatingAccept") \subseteq {"newTmsi"}
      /\ Needs(p.type, "LocationUpdatingReject") \subseteq {"newTmsi"}
      /\ Uses(p.type) \cap {"cipherAlgo", "identity", "hoChannel"} = {} /\ "decision" \in Filled
  BY DEF Uses, Needs, Filled
<1>2. CASE d.kind = "AuthChallenge"
  <2> DEFINE q == [p EXCEPT !.expected = d.arg]
  <2>1. d.arg \in Challenges /\ d.arg # Nothing /\ p \in Procedure
    BY <1>2, NothingAssumption DEF ExternalData, Sound
  <2>2. /\ q \in Procedure /\ q.type = p.type /\ q.state = p.state /\ q.timer = p.timer
        /\ q.expected = d.arg /\ q.ti = p.ti
    BY <2>1, ExpectedFields
  <2> HIDE DEF q
  <2>3. Sound(q)
    BY <2>2 DEF Sound
  <2>4. StepSound(p, Writing(Silent(q), "rand", d.arg))
    BY <1>1, <2>1, <2>2, <2>3, SoundGoesOn, WritingSound
  <2>5. CASE p.state = "AUTH_CHECK"
    <3>1. May(q, "SEND_AUTH", TRUE)
      BY <2>2 DEF May, StatesOf
    <3>2. Moved(q, GoesTimed(q, "SEND_AUTH"))
      BY <2>3, <3>1, MayMove
    <3>3. StepSound(p, Writing(Sends(GoesTimed(q, "SEND_AUTH"), "AuthenticationRequest"), "rand", d.arg))
      BY <1>1, <2>1, <2>2, <2>3, <3>1, <3>2, MayGoOn, WritingSound DEF Moved
    <3> QED
      BY <1>2, <2>5, <3>3 DEF LocationUpdateTold, q
  <2>6. CASE p.state # "AUTH_CHECK"
    BY <1>2, <2>4, <2>6 DEF LocationUpdateTold, q
  <2> QED
    BY <2>5, <2>6
<1>3. CASE d.kind = "VLRDecision" /\ p.state = "WAITING_EXTERNAL"
  BY <1>1, <1>3, Ends, WritingMoved DEF LocationUpdateTold
<1> QED
  BY <1>2, <1>3, SilentStays DEF LocationUpdateTold

LEMMA AuthenticationToldSound ==
  ASSUME NEW p, Sound(p), p.type = "Authentication", NEW d \in ExternalData
  PROVE  StepSound(p, AuthenticationTold(p, d))
<1>1. /\ "rand" \in Uses(p.type) /\ Needs(p.type, "AuthenticationRequest") \subseteq {"rand"}
      /\ Uses(p.type) \cap {"cipherAlgo", "identity", "hoChannel"} = {}
  BY DEF Uses, Needs
<1>2. CASE d.kind = "AuthChallenge"
  <2> DEFINE q == [p EXCEPT !.expected = d.arg]
  <2>1. d.arg \in Challenges /\ d.arg # Nothing /\ p \in Procedure /\ "SEND_AUTH_REQ" \in States
    BY <1>2, NothingAssumption DEF ExternalData, Sound, States
  <2>2. /\ q \in Procedure /\ q.type = p.type /\ q.state = p.state /\ q.timer = p.timer
        /\ q.expected = d.arg /\ q.ti = p.ti
    BY <2>1, ExpectedFields
  <2> HIDE DEF q
  <2>3. CASE p.state = "INIT"
    <3> DEFINE g == Goes(q, "SEND_AUTH_REQ")
    <3>1. /\ g \in Procedure /\ g.type = p.type /\ g.state = "SEND_AUTH_REQ"
          /\ g.expected = d.arg /\ g.ti = p.ti
      BY <2>1, <2>2, GoesFields
    <3> HIDE DEF g
    <3>2. Sound(g)
      BY <2>1, <3>1 DEF Sound, StatesOf, TimedStates, Untimed
    <3>3. StepSound(p, Writing(Sends(g, "AuthenticationRequest"), "rand", d.arg))
      BY <1>1, <2>1, <3>1, <3>2, WritingSound DEF Terminal
    <3> QED
      BY <1>2, <2>3, <3>3 DEF AuthenticationTold, q, g
  <2>4. CASE p.state # "INIT"
    <3>1. Sound(q)
      BY <2>1, <2>2, <2>4 DEF Sound
    <3>2. StepSound(p, Writing(Silent(q), "rand", d.arg))
      BY <1>1, <2>1, <2>2, <3>1, SoundGoesOn, WritingSound
    <3> QED
      BY <1>2, <2>4, <3>2 DEF AuthenticationTold, q
  <2> QED
    BY <2>3, <2>4
<1> QED
  BY <1>2, SilentStays DEF AuthenticationTold

LEMMA CipheringModeToldSound ==
  ASSUME NEW p, Sound(p), p.type = "CipheringMode", NEW d \in ExternalData
  PROVE  StepSound(p, CipheringModeTold(p, d))
<1>1. CASE d.kind = "CipheringParameters" /\ p.state = "INIT"
  <2>1. May(p, "SEND_COMMAND", TRUE)
    BY DEF May, StatesOf
  <2>2. /\ "cipherAlgo" \in Uses(p.type) /\ Needs(p.type, "CipheringModeCommand") \subseteq {"cipherAlgo"}
        /\ "algorithm" \in Filled
        /\ Uses(p.type) \cap {"cipherAlgo", "identity", "hoChannel"} \subseteq {"cipherAlgo"}
    BY DEF Uses, Needs, Filled
  <2> QED
    BY <1>1, <2>1, <2>2, MayMove, WritingMoved DEF CipheringModeTold
<1> QED
  BY <1>1, SilentStays DEF CipheringModeTold

LEMMA CallSetupMTToldSound ==
  ASSUME NEW p, Sound(p), p.type = "CallSetup_MT", NEW d \in ExternalData
  PROVE  StepSound(p, CallSetupMTTold(p, d))
<1>1. CASE p.state = "INIT"
  <2>1. May(p, "PAGE", TRUE)
    BY DEF May, StatesOf
  <2>2. /\ "identity" \in Uses(p.type) /\ Needs(p.type, "PagingRequestType1") \subseteq {"identity"}
        /\ "paged" \in Filled
        /\ Uses(p.type) \cap {"cipherAlgo", "identity", "hoChannel"} \subseteq {"identity"}
    BY DEF Uses, Needs, Filled
  <2> QED
    BY <1>1, <2>1, <2>2, MayMove, PagesMoved, WritingMoved DEF CallSetupMTTold
<1> QED
  BY <1>1, SilentStays DEF CallSetupMTTold

LEMMA PagingToldSound ==
  ASSUME NEW p, Sound(p), p.type = "Paging", NEW d \in ExternalData
  PROVE  StepSound(p, PagingTold(p, d))
<1>1. CASE d.kind = "PagingTrigger" /\ p.state = "INIT"
  <2>1. May(p, "SEND_PAGE1", TRUE)
    BY DEF May, StatesOf
  <2>2. /\ "identity" \in Uses(p.type) /\ Needs(p.type, "PagingRequestType1") \subseteq {"identity"}
        /\ "paged" \in Filled
        /\ Uses(p.type) \cap {"cipherAlgo", "identity", "hoChannel"} \subseteq {"identity"}
    BY DEF Uses, Needs, Filled
  <2> QED
    BY <1>1, <2>1, <2>2, MayMove, PagesMoved, WritingMoved DEF PagingTold
<1> QED
  BY <1>1, SilentStays DEF PagingTold

LEMMA HandoverToldSound ==
  ASSUME NEW p, Sound(p), p.type = "Handover", NEW d \in ExternalData
  PROVE  StepSound(p, HandoverTold(p, d))
<1>1. CASE d.kind = "HandoverTarget" /\ p.state = "INIT"
  <2>1. May(p, "SEND_HO_CMD", TRUE)
    BY DEF May, StatesOf
  <2>2. /\ "hoChannel" \in Uses(p.type) /\ Needs(p.type, "HandoverCommand") \subseteq {"hoChannel"}
        /\ "target" \in Filled
        /\ Uses(p.type) \cap {"cipherAlgo", "identity", "hoChannel"} \subseteq {"hoChannel"}
    BY DEF Uses, Needs, Filled
  <2> QED
    BY <1>1, <2>1, <2>2, MayMove, WritingMoved DEF HandoverTold
<1> QED
  BY <1>1, SilentStays DEF HandoverTold

LEMMA ToldSound ==
  ASSUME NEW p, Sound(p), NEW d \in ExternalData
  PROVE  StepSound(p, Told(p, d))
BY LocationUpdateToldSound, AuthenticationToldSound, CipheringModeToldSound, CallSetupMTToldSound,
   PagingToldSound, HandoverToldSound, SilentStays DEF Told

LEMMA ExpiredSound ==
  ASSUME NEW p, Sound(p)
  PROVE  StepSound(p, Silent(Expired(p)))
<1>1. CASE p.type = "Paging"
  <2>1. CASE p.state = "WAIT_PAGE1"
    <3>1. May(p, "SEND_PAGE2", FALSE) /\ Started(p)
      BY <1>1, <2>1 DEF May, StatesOf, TimedStates, Untimed, Started
    <3> QED
      BY <1>1, <2>1, <3>1, SilentMoves DEF Expired, PagingExpired
  <2>2. CASE p.state = "WAIT_PAGE2"
    <3>1. May(p, "SEND_PAGE3", FALSE) /\ Started(p)
      BY <1>1, <2>2 DEF May, StatesOf, TimedStates, Untimed, Started
    <3> QED
      BY <1>1, <2>2, <3>1, SilentMoves DEF Expired, PagingExpired
  <2>3. CASE p.state = "WAIT_PAGE3"
    BY <1>1, <2>3, SilentEnds DEF Expired, PagingExpired
  <2>4. CASE p.state \notin {"WAIT_PAGE1", "WAIT_PAGE2", "WAIT_PAGE3"}
    <3> DEFINE q == [p EXCEPT !.timer = FALSE]
    <3>1. /\ q \in Procedure /\ q.type = p.type /\ q.state = p.state
          /\ q.expected = p.expected /\ q.ti = p.ti
      BY DEF Sound, Procedure
    <3> HIDE DEF q
    <3>2. p.state \notin TimedStates(p.type)
      BY <1>1, <2>4 DEF Sound, StatesOf, TimedStates, Untimed
    <3>3. Moved(p, q)
      BY <1>1, <3>1, <3>2 DEF Moved, Sound
    <3>4. StepSound(p, Silent(q))
      BY <3>1, <3>3, SilentSound DEF Started
    <3> QED
      BY <1>1, <2>4, <3>4 DEF Expired, PagingExpired, q
  <2> QED
    BY <2>1, <2>2, <2>3, <2>4
<1>2. CASE p.type = "CallSetup_MT"
  <2>1. CASE p.state = "WAIT_PAGE_RESPONSE" /\ p.pages < MAX_PAGE_ATTEMPTS
    <3> DEFINE q == [p EXCEPT !.pages = @ + 1, !.timer = TRUE]
    <3>0. p \in Procedure /\ p.pages + 1 \in Nat
      BY DEF Sound, Procedure
    <3>1. /\ q \in Procedure /\ q.type = p.type /\ q.state = p.state /\ q.timer = TRUE
          /\ q.expected = p.expected /\ q.ti = p.ti
      BY <3>0 DEF Procedure
    <3> HIDE DEF q
    <3>2. Moved(p, q)
      BY <1>2, <3>1 DEF Moved, Sound
    <3>3. StepSound(p, Silent(q))
      BY <2>1, <3>2, SilentSound DEF Started
    <3> QED
      BY <1>2, <2>1, <3>3 DEF Expired, CallSetupMTExpired, q
  <2> QED
    BY <1>2, <2>1, SilentEnds DEF Expired, CallSetupMTExpired
<1> QED
  BY <1>1, <1>2, SilentEnds DEF Expired

-----------------------------------------------------------------------------
(* The inductive invariant                                                 *)

RunnerTypes == {"ChannelAssignment", "LocationUpdate", "IMSIDetach", "CallSetup_MO", "CallRelease"}

RunnerInv ==
  /\ slots \in [Slots -> Procedure \cup {Free}]
  /\ \A i \in Active : /\ slots[i].type \in RunnerTypes
                       /\ Sound(slots[i])
                       /\ Agrees(slots[i], response, foreign)
  /\ \A i, j \in Active : slots[i].type = slots[j].type => i = j
  /\ OfType("LocationUpdate") = {} \/ OfType("IMSIDetach") = {}
  /\ registered = (Active # {})

\* The procedure object of each phase; None for the phases handled inline.
ChainProcedure ==
  CASE phase = "Authentication" -> {"Authentication"}
    [] phase = "CipheringMode" -> {"CipheringMode"}
    [] phase = "CallSetupMO" -> {"CallSetup_MO"}
    [] phase \in {"None", "IdentityVerification", "LocationUpdate"} -> {}

\* The phases with a procedure object, those with the phase timer, and when an
\* Identity Request may be queued.
PhaseInv ==
  /\ phase \in {"None", "IdentityVerification", "Authentication", "CipheringMode",
                "LocationUpdate", "CallSetupMO"}
  /\ current = Free <=> ChainProcedure = {}
  /\ phaseTimer # "off" <=> phase \in {"IdentityVerification", "LocationUpdate"}
  /\ retransmit # Nothing => phase = "IdentityVerification"

CurrentInv ==
  current # Free => /\ current.type \in ChainProcedure
                    /\ Sound(current)
                    /\ Agrees(current, response, {})

\* The last token finds its parameters, which are its procedure's own; the one
\* exception is the Release, built inline.
LastInv ==
  /\ Lacking(response, last, last.token) = {}
  /\ last.type # "CallRelease" => Needs(last.type, last.token) \subseteq Uses(last.type)
  /\ phase = "Authentication" /\ current.state # "INIT" => last.type = "Authentication"

\* What the mobile has shown by the time a phase is reached.
EvidenceInv ==
  /\ phase = "IdentityVerification" => response["rand"] = Nothing
  /\ phase \in {"CipheringMode", "LocationUpdate"} => response["rand"] \in shown
  /\ phase = "LocationUpdate" => "ciphered" \in shown

ChainInv == PhaseInv /\ CurrentInv /\ LastInv /\ EvidenceInv

OwnInv == own # Free => own.type \in OwnedTypes /\ Sound(own) /\ Agrees(own, response, {})

ContextInv == response = [q \in Params |-> response[q]]

\* One of the three drives the session; the other two stay as they began.
Inv ==
  /\ tmsi \in BOOLEAN /\ lacking = {} /\ ContextInv
  /\ RunnerInv /\ ChainInv /\ OwnInv
  /\ user # "runner" => Active = {}
  /\ user # "orchestrator" => phase = "None" /\ last = NoToken
  /\ user # "owner" => own = Free

-----------------------------------------------------------------------------
(* A step and the response context                                         *)

LEMMA SetsAt ==
  ASSUME NEW c, NEW f, NEW x \in Params
  PROVE  Sets(c, f)[x] = IF x \in DOMAIN f THEN f[x] ELSE c[x]
BY DEF Sets

LEMMA AgreesSame ==
  ASSUME NEW p, NEW c, NEW d, NEW F, Agrees(p, c, F), \A x \in Params : c[x] = d[x]
  PROVE  Agrees(p, d, F)
<1>1. {"rand", "ti", "cipherAlgo", "identity", "hoChannel"} \subseteq Params
  BY DEF Params
<1> QED
  BY <1>1 DEF Agrees

\* A procedure in agreement with the context stays so, and its token finds what
\* it needs there, but for what others wrote and it did not write since.
LEMMA StepAgrees ==
  ASSUME NEW p, Sound(p), NEW r, StepSound(p, r), NEW c, NEW F, Agrees(p, c, F), NEW G,
         \A x \in Uses(p.type) : x \in F /\ x \notin DOMAIN r.sets /\ ~Terminal(r.proc) => x \in G
  PROVE  /\ ~Terminal(r.proc) => Agrees(r.proc, Sets(c, r.sets), G)
         /\ Lacking(Sets(c, r.sets), r.proc, r.token) \subseteq G
<1> DEFINE d == Sets(c, r.sets)
<1>1. /\ d["rand"] = (IF "rand" \in DOMAIN r.sets THEN r.sets["rand"] ELSE c["rand"])
      /\ d["ti"] = (IF "ti" \in DOMAIN r.sets THEN r.sets["ti"] ELSE c["ti"])
      /\ d["cipherAlgo"] = (IF "cipherAlgo" \in DOMAIN r.sets THEN r.sets["cipherAlgo"] ELSE c["cipherAlgo"])
      /\ d["identity"] = (IF "identity" \in DOMAIN r.sets THEN r.sets["identity"] ELSE c["identity"])
      /\ d["hoChannel"] = (IF "hoChannel" \in DOMAIN r.sets THEN r.sets["hoChannel"] ELSE c["hoChannel"])
  BY SetsAt DEF Params
<1>2. \A x \in Params : x \in DOMAIN r.sets => d[x] = r.sets[x]
  BY SetsAt
<1> HIDE DEF d
<1>3. r.proc.type = p.type
  BY DEF StepSound
<1>4. p.type \in {"LocationUpdate", "Authentication"} => "rand" \in Uses(p.type)
  BY DEF Uses
<1>5. p.type = "CallSetup_MO" => "ti" \in Uses(p.type)
  BY DEF Uses
<1>6. ASSUME ~Terminal(r.proc) PROVE Agrees(r.proc, d, G)
  <2>1. ASSUME p.type \in {"LocationUpdate", "Authentication"}
        PROVE  "rand" \in G \/ d["rand"] = r.proc.expected
    BY <1>1, <1>4, <1>6, <2>1 DEF StepSound, Agrees
  <2>2. ASSUME p.type = "CallSetup_MO" PROVE "ti" \in G \/ d["ti"] = r.proc.ti
    BY <1>1, <1>5, <1>6, <2>2 DEF StepSound, Agrees
  <2>3. ASSUME p.type = "CipheringMode", r.proc.state # "INIT" PROVE d["cipherAlgo"] # Nothing
    <3>1. "cipherAlgo" \in Uses(p.type)
      BY <2>3 DEF Uses
    <3>2. p.state = "INIT" => "cipherAlgo" \in DOMAIN r.sets
      BY <1>6, <2>3, <3>1 DEF StepSound
    <3> QED
      BY <1>1, <2>3, <3>2 DEF StepSound, Agrees
  <2>4. ASSUME p.type \in {"CallSetup_MT", "Paging"}, r.proc.state # "INIT" PROVE d["identity"] # Nothing
    <3>1. "identity" \in Uses(p.type)
      BY <2>4 DEF Uses
    <3>2. p.state = "INIT" => "identity" \in DOMAIN r.sets
      BY <1>6, <2>4, <3>1 DEF StepSound
    <3> QED
      BY <1>1, <2>4, <3>2 DEF StepSound, Agrees
  <2>5. ASSUME p.type = "Handover", r.proc.state # "INIT" PROVE d["hoChannel"] # Nothing
    <3>1. "hoChannel" \in Uses(p.type)
      BY <2>5 DEF Uses
    <3>2. p.state = "INIT" => "hoChannel" \in DOMAIN r.sets
      BY <1>6, <2>5, <3>1 DEF StepSound
    <3> QED
      BY <1>1, <2>5, <3>2 DEF StepSound, Agrees
  <2> QED
    BY <1>3, <2>1, <2>2, <2>3, <2>4, <2>5 DEF Agrees
<1>7. ASSUME NEW x \in Needs(p.type, r.token), x \notin G
      PROVE  /\ d[x] # Nothing
             /\ x = "rand" => d[x] = r.proc.expected
             /\ x = "ti" => d[x] = r.proc.ti
  <2>1. x \in Uses(p.type) /\ x \in Params
    BY UsesParams DEF StepSound
  <2>0. p.type # "CallRelease"
    BY <2>1 DEF Uses
  <2>2. CASE x \in DOMAIN r.sets
    <3>1. d[x] = r.sets[x] /\ r.sets[x] # Nothing
      BY <1>2, <2>0, <2>1, <2>2 DEF StepSound
    <3> QED
      BY <2>0, <2>2, <3>1 DEF StepSound
  <2>3. CASE x = "rand" /\ x \notin DOMAIN r.sets
    <3>1. p.type \in {"LocationUpdate", "Authentication"}
      BY <2>1, <2>3 DEF Uses
    <3>2. r.proc.expected # Nothing /\ ~Terminal(r.proc)
      BY <2>3 DEF StepSound
    <3> QED
      BY <1>6, <1>7, <1>3, <2>3, <3>1, <3>2 DEF Agrees
  <2>4. CASE x = "ti" /\ x \notin DOMAIN r.sets
    <3>1. p.type = "CallSetup_MO"
      BY <2>1, <2>4 DEF Uses
    <3>2. r.proc.ti # Nothing /\ ~Terminal(r.proc)
      BY <2>4 DEF StepSound
    <3> QED
      BY <1>6, <1>7, <1>3, <2>4, <3>1, <3>2 DEF Agrees
  <2>5. CASE x \notin {"rand", "ti"} /\ x \notin DOMAIN r.sets
    <3>1. x \in {"cipherAlgo", "identity", "hoChannel"} /\ p.state # "INIT"
      BY <2>5 DEF StepSound
    <3>2. c[x] # Nothing
      <4>1. CASE x = "cipherAlgo"
        BY <2>1, <3>1, <4>1 DEF Uses, Agrees
      <4>2. CASE x = "identity"
        BY <2>1, <3>1, <4>2 DEF Uses, Agrees
      <4>3. CASE x = "hoChannel"
        BY <2>1, <3>1, <4>3 DEF Uses, Agrees
      <4> QED
        BY <3>1, <4>1, <4>2, <4>3
    <3> QED
      BY <1>1, <2>5, <3>1, <3>2
  <2> QED
    BY <2>2, <2>3, <2>4, <2>5
<1>8. Lacking(d, r.proc, r.token) \subseteq G
  BY <1>3, <1>7 DEF Lacking
<1> QED
  BY <1>6, <1>8 DEF d

-----------------------------------------------------------------------------
(* The runner                                                              *)

LEMMA FirstIsThere ==
  ASSUME NEW S, S \subseteq Slots, S # {}
  PROVE  First(S) \in S
<1>1. Slots \subseteq Nat
  BY SlotsAssumption DEF Slots
<1>2. \E s \in S : \A t \in S : s <= t
  <2>1. \E s \in S : \A t \in S : ~(<<t, s>> \in OpToRel(<, Nat))
    BY <1>1, NatLessThanWellFounded, WFMin, Zenon
  <2>2. \A s, t \in Nat : t < s => <<t, s>> \in OpToRel(<, Nat)
    BY DEF OpToRel
  <2>3. \E s \in S : \A t \in S : ~(t < s)
    BY <1>1, <2>1, <2>2, Zenon
  <2>4. \A s, t \in Nat : ~(t < s) => s <= t
    OBVIOUS
  <2> QED
    BY <1>1, <2>3, <2>4, Zenon
<1> QED
  BY <1>2 DEF First

\* The types the runner makes share no parameter.
LEMMA RunnerUses ==
  ASSUME NEW t \in RunnerTypes, NEW u \in RunnerTypes, t # u
  PROVE  Uses(t) \cap Uses(u) = {}
BY DEF RunnerTypes, Uses

\* What a runner's procedure shares with the context.
LEMMA RunnerAgrees ==
  ASSUME NEW p, p.type \in RunnerTypes, NEW c, NEW F
  PROVE  Agrees(p, c, F) <=>
           /\ p.type = "LocationUpdate" => "rand" \in F \/ c["rand"] = p.expected
           /\ p.type = "CallSetup_MO" => "ti" \in F \/ c["ti"] = p.ti
BY DEF Agrees, RunnerTypes

\* One step of the procedure p in slot i, whose other slots are j; `from' is the
\* context before it.
LEMMA SteppedInv ==
  ASSUME slots \in [Slots -> Procedure \cup {Free}],
         NEW i \in Slots, NEW p, Sound(p), p.type \in RunnerTypes,
         NEW r, StepSound(p, r), NEW from, NEW other, Agrees(p, from, other),
         \A j \in Active \ {i} : /\ slots[j].type \in RunnerTypes /\ Sound(slots[j])
                                 /\ Agrees(slots[j], from, other) /\ slots[j].type # p.type
                                 /\ {slots[j].type, p.type} # {"LocationUpdate", "IMSIDetach"},
         \A j, k \in Active \ {i} : /\ slots[j].type = slots[k].type => j = k
                                    /\ {slots[j].type, slots[k].type} # {"LocationUpdate", "IMSIDetach"},
         Stepped(i, r, TRUE, from, other)
  PROVE  RunnerInv' /\ lacking' = {}
<1> DEFINE A == ActiveIn(slots')
<1>1. slots' = [slots EXCEPT ![i] = Settled(r.proc)]
  BY DEF Stepped, Cleaned
<1>2. response' = Sets(from, r.sets)
  BY DEF Stepped
<1>3. foreign' = ((other \ DOMAIN r.sets) \cup (DOMAIN r.sets \ Uses(r.proc.type)))
                     \cap UNION {Uses(slots'[j].type) : j \in A}
  BY DEF Stepped
<1>4. r.proc \in Procedure /\ r.proc.type = p.type
  BY DEF StepSound
<1>5. slots' \in [Slots -> Procedure \cup {Free}] /\ slots'[i] = Settled(r.proc)
      /\ \A j \in Slots \ {i} : slots'[j] = slots[j]
  BY <1>1, <1>4 DEF Settled
<1>6. A \ {i} = Active \ {i} /\ A \subseteq Slots /\ (i \in A <=> ~Terminal(r.proc))
      /\ (i \in A => slots'[i] = r.proc)
  BY <1>4, <1>5, NothingAssumption DEF ActiveIn, Active, Settled, Free
<1> HIDE DEF A
<1>7. \A x \in Uses(p.type) : x \in other /\ x \notin DOMAIN r.sets /\ ~Terminal(r.proc) => x \in foreign'
  BY <1>3, <1>4, <1>6
<1>8. /\ ~Terminal(r.proc) => Agrees(r.proc, response', foreign')
      /\ Lacking(response', r.proc, r.token) \subseteq foreign'
  BY <1>2, <1>7, StepAgrees
<1>9. lacking' = {}
  <2>1. lacking' = Lacking(response', r.proc, r.token) \ foreign'
    BY DEF Stepped
  <2> QED
    BY <1>8, <2>1
<1>10. ASSUME NEW j \in A \ {i}
       PROVE  /\ slots'[j] = slots[j] /\ slots[j].type \in RunnerTypes /\ Sound(slots[j])
              /\ Agrees(slots[j], response', foreign') /\ slots[j].type # p.type
              /\ {slots[j].type, p.type} # {"LocationUpdate", "IMSIDetach"}
  <2>1. /\ slots'[j] = slots[j] /\ slots[j].type \in RunnerTypes /\ Sound(slots[j])
        /\ Agrees(slots[j], from, other) /\ slots[j].type # p.type
        /\ {slots[j].type, p.type} # {"LocationUpdate", "IMSIDetach"}
    BY <1>5, <1>6
  <2>2. ASSUME NEW x \in Uses(slots[j].type), x \in Params
        PROVE  x \in foreign' \/ (x \notin other /\ response'[x] = from[x])
    <3>1. x \notin Uses(p.type)
      BY <2>1, RunnerUses
    <3>2. x \in UNION {Uses(slots'[k].type) : k \in A}
      BY <2>1
    <3>3. x \notin foreign' => x \notin DOMAIN r.sets /\ x \notin other
      BY <1>3, <1>4, <3>1, <3>2
    <3> QED
      BY <1>2, <2>2, <3>3, SetsAt
  <2>3. slots[j].type = "LocationUpdate" => "rand" \in foreign' \/ response'["rand"] = slots[j].expected
    <3>1. slots[j].type = "LocationUpdate" => "rand" \in Uses(slots[j].type) /\ "rand" \in Params
      BY DEF Uses, Params
    <3> QED
      BY <2>1, <2>2, <3>1, RunnerAgrees
  <2>4. slots[j].type = "CallSetup_MO" => "ti" \in foreign' \/ response'["ti"] = slots[j].ti
    <3>1. slots[j].type = "CallSetup_MO" => "ti" \in Uses(slots[j].type) /\ "ti" \in Params
      BY DEF Uses, Params
    <3> QED
      BY <2>1, <2>2, <3>1, RunnerAgrees
  <2>5. Agrees(slots[j], response', foreign')
    BY <2>1, <2>3, <2>4, RunnerAgrees
  <2> QED
    BY <2>1, <2>5
<1>11. \A j \in A : /\ slots'[j].type \in RunnerTypes
                    /\ Sound(slots'[j])
                    /\ Agrees(slots'[j], response', foreign')
  BY <1>4, <1>6, <1>8, <1>10 DEF StepSound
<1>12. \A j, k \in A : slots'[j].type = slots'[k].type => j = k
  BY <1>4, <1>6, <1>10
<1>13. \A j, k \in A : {slots'[j].type, slots'[k].type} # {"LocationUpdate", "IMSIDetach"}
  <2> SUFFICES ASSUME NEW j \in A, NEW k \in A
               PROVE  {slots'[j].type, slots'[k].type} # {"LocationUpdate", "IMSIDetach"}
    OBVIOUS
  <2>1. CASE j = i /\ k = i
    <3>1. \A x : {x, x} # {"LocationUpdate", "IMSIDetach"}
      OBVIOUS
    <3> QED
      BY <2>1, <3>1
  <2>2. CASE j = i /\ k # i
    <3>1. {slots'[j].type, slots'[k].type} = {slots[k].type, p.type}
      BY <1>4, <1>6, <1>10, <2>2
    <3> QED
      BY <1>10, <2>2, <3>1
  <2>3. CASE j # i /\ k = i
    <3>1. {slots'[j].type, slots'[k].type} = {slots[j].type, p.type}
      BY <1>4, <1>6, <1>10, <2>3
    <3> QED
      BY <1>10, <2>3, <3>1
  <2>4. CASE j # i /\ k # i
    BY <1>6, <1>10, <2>4
  <2> QED
    BY <2>1, <2>2, <2>3, <2>4
<1>14. (OfType("LocationUpdate") = {} \/ OfType("IMSIDetach") = {})'
  BY <1>13 DEF OfType, Active, A
<1>15. registered' = (A # {})
  <2>1. registered' = IF Terminal(r.proc) /\ Active \ {i} = {} THEN FALSE ELSE TRUE
    BY DEF Stepped, Cleaned
  <2>2. CASE Terminal(r.proc)
    <3>1. A = Active \ {i}
      BY <1>6, <2>2
    <3> QED
      BY <2>1, <2>2, <3>1, Zenon
  <2>3. CASE ~Terminal(r.proc)
    BY <1>6, <2>1, <2>3, Zenon
  <2> QED
    BY <2>2, <2>3
<1> QED
  BY <1>5, <1>9, <1>11, <1>12, <1>14, <1>15 DEF RunnerInv, Active, A

\* The other slots, as SteppedInv wants them, when nothing but the slot changes.
LEMMA OthersAgree ==
  ASSUME RunnerInv, NEW i \in Active
  PROVE  /\ \A j \in Active \ {i} : /\ slots[j].type \in RunnerTypes /\ Sound(slots[j])
                                    /\ Agrees(slots[j], response, foreign)
                                    /\ slots[j].type # slots[i].type
         /\ \A j, k \in Active : {slots[j].type, slots[k].type} # {"LocationUpdate", "IMSIDetach"}
<1>1. ASSUME NEW j \in Active, NEW k \in Active,
             {slots[j].type, slots[k].type} = {"LocationUpdate", "IMSIDetach"}
      PROVE  FALSE
  <2>1. \/ slots[j].type = "LocationUpdate" /\ slots[k].type = "IMSIDetach"
        \/ slots[k].type = "LocationUpdate" /\ slots[j].type = "IMSIDetach"
    BY <1>1
  <2>2. OfType("LocationUpdate") # {} /\ OfType("IMSIDetach") # {}
    BY <2>1 DEF OfType
  <2> QED
    BY <2>2 DEF RunnerInv
<1> QED
  BY <1>1 DEF RunnerInv

LEMMA ActiveStepInv ==
  ASSUME RunnerInv, NEW i \in Active, NEW r, StepSound(slots[i], r),
         Stepped(i, r, registered, response, foreign)
  PROVE  RunnerInv' /\ lacking' = {}
<1>1. i \in Slots /\ slots \in [Slots -> Procedure \cup {Free}]
      /\ Sound(slots[i]) /\ slots[i].type \in RunnerTypes /\ Agrees(slots[i], response, foreign)
  BY DEF RunnerInv, Active, ActiveIn
<1>2. \A j, k \in Active \ {i} : slots[j].type = slots[k].type => j = k
  BY DEF RunnerInv
<1>3. registered = TRUE
  BY DEF RunnerInv
<1>4. Stepped(i, r, TRUE, response, foreign)
  BY <1>3
<1> QED
  BY <1>1, <1>2, <1>4, OthersAgree, SteppedInv

LEMMA FeedActiveInv ==
  ASSUME RunnerInv, tmsi \in BOOLEAN, NEW m \in Messages, FeedActive(m)
  PROVE  RunnerInv' /\ lacking' = {} /\ UNCHANGED tmsi
<1> DEFINE i == First(Routed(m))
<1>1. Routed(m) # {} /\ Stepped(i, Fed(slots[i], m, tmsi), registered, response, foreign) /\ UNCHANGED tmsi
  BY DEF FeedActive
<1>2. Routed(m) \subseteq Active /\ Active \subseteq Slots
  BY DEF Routed, Claiming, OfType, Active, ActiveIn
<1>3. i \in Active
  BY <1>1, <1>2, FirstIsThere
<1>4. StepSound(slots[i], Fed(slots[i], m, tmsi))
  BY <1>3, FedSound DEF RunnerInv
<1> QED
  BY <1>1, <1>3, <1>4, ActiveStepInv

LEMMA CreatedSound ==
  ASSUME NEW t \in ProcedureTypes
  PROVE  Sound(Created(t)) /\ Created(t).type = t
<1>1. /\ Created(t).type = t /\ Created(t).state = "INIT" /\ Created(t).timer = FALSE
      /\ Created(t).expected = Nothing /\ Created(t).ti = Nothing
  BY DEF Created
<1>2. "INIT" \in StatesOf(t) /\ "INIT" \notin TimedStates(t)
  BY DEF StatesOf, TimedStates, Untimed, ProcedureTypes
<1>3. Created(t) \in Procedure
  BY <1>2, StatesAreStates DEF Created, Procedure
<1> QED
  BY <1>1, <1>2, <1>3 DEF Sound

\* A procedure is made only for a message that no procedure of its type, and no
\* procedure that would take its answers, is there to claim.
LEMMA NewIsAlone ==
  ASSUME RunnerInv, NEW m \in Messages, Routed(m) = {}, NEW t \in autoCreateProcedure(m),
         NEW j \in Active
  PROVE  t \in RunnerTypes /\ slots[j].type # t /\ {slots[j].type, t} # {"LocationUpdate", "IMSIDetach"}
<1>1. ~matches(slots[j].type, m) /\ slots[j].type # pdToProcedureType(m.pd)
  BY DEF Routed, Claiming, OfType
<1>2. slots[j].type \in RunnerTypes
  BY DEF RunnerInv
<1>3. CASE m.mti \in {"ChannelRequest", "PagingResponse"}
  <2>1. t = "ChannelAssignment"
    BY <1>3 DEF autoCreateProcedure
  <2>2. slots[j].type # t
    BY <1>1, <1>3, <2>1 DEF matches
  <2> QED
    BY <2>1, <2>2 DEF RunnerTypes
<1>4. CASE m.mti = "CMServiceRequest" /\ m.arg = "LocationUpdateRequest"
  <2>1. t = "LocationUpdate" /\ m.pd = "MM"
    BY <1>4 DEF autoCreateProcedure, Messages, RRTypes, MMPlain, CCPlain
  <2>2. slots[j].type # t /\ slots[j].type # "IMSIDetach"
    BY <1>1, <1>4, <2>1 DEF matches
  <2> QED
    BY <2>1, <2>2 DEF RunnerTypes
<1>5. CASE m.mti = "IMSIDetachIndication"
  <2>1. t = "IMSIDetach" /\ m.pd = "MM"
    BY <1>5 DEF autoCreateProcedure, Messages, RRTypes, MMPlain, CCPlain
  <2>2. slots[j].type # t /\ slots[j].type # "LocationUpdate"
    BY <1>1, <1>5, <2>1 DEF matches, pdToProcedureType
  <2> QED
    BY <2>1, <2>2 DEF RunnerTypes
<1>6. CASE m.mti = "Setup"
  <2>1. t = "CallSetup_MO"
    BY <1>6 DEF autoCreateProcedure
  <2>2. slots[j].type # t
    BY <1>1, <1>6, <2>1 DEF matches
  <2> QED
    BY <2>1, <2>2 DEF RunnerTypes
<1>7. CASE m.mti = "Disconnect"
  <2>1. t = "CallRelease"
    BY <1>7 DEF autoCreateProcedure
  <2>2. slots[j].type # t
    BY <1>1, <1>7, <2>1 DEF matches
  <2> QED
    BY <2>1, <2>2 DEF RunnerTypes
<1> QED
  BY <1>3, <1>4, <1>5, <1>6, <1>7 DEF autoCreateProcedure

LEMMA FeedNewInv ==
  ASSUME RunnerInv, tmsi \in BOOLEAN, NEW m \in Messages, FeedNew(m)
  PROVE  RunnerInv' /\ lacking' = {} /\ UNCHANGED tmsi
<1>1. PICK t \in autoCreateProcedure(m) :
        Stepped(First(Slots \ Active), Fed(Created(t), m, tmsi), Inserted, NoResponse, Params \ Uses(t))
  BY DEF FeedNew
<1>2. Routed(m) = {} /\ Active # Slots /\ UNCHANGED tmsi
  BY DEF FeedNew
<1> DEFINE i == First(Slots \ Active)
<1>3. i \in Slots /\ i \notin Active
  <2>1. Slots \ Active # {}
    BY <1>2 DEF Active, ActiveIn
  <2>2. First(Slots \ Active) \in Slots \ Active
    BY <2>1, FirstIsThere
  <2> QED
    BY <2>2
<1> HIDE DEF i
<1>4. t \in RunnerTypes
  BY DEF autoCreateProcedure, RunnerTypes
<1>5. t \in ProcedureTypes
  BY <1>4 DEF RunnerTypes, ProcedureTypes
<1>6. Sound(Created(t)) /\ Created(t).type = t
  BY <1>5, CreatedSound
<1>7. Created(t).expected = Nothing /\ Created(t).ti = Nothing /\ Created(t).state = "INIT"
  BY DEF Created
<1>8. NoResponse["rand"] = Nothing /\ NoResponse["ti"] = Nothing
  BY DEF NoResponse, Params
<1>9. Agrees(Created(t), NoResponse, Params \ Uses(t))
  BY <1>6, <1>7, <1>8 DEF Agrees
<1>10. StepSound(Created(t), Fed(Created(t), m, tmsi))
  BY <1>6, FedSound
<1>11. ASSUME NEW j \in Active
       PROVE  /\ slots[j].type \in RunnerTypes /\ Sound(slots[j])
              /\ Agrees(slots[j], NoResponse, Params \ Uses(t)) /\ slots[j].type # t
              /\ {slots[j].type, t} # {"LocationUpdate", "IMSIDetach"}
  <2>1. slots[j].type \in RunnerTypes /\ Sound(slots[j])
    BY DEF RunnerInv
  <2>2. slots[j].type # t /\ {slots[j].type, t} # {"LocationUpdate", "IMSIDetach"}
    BY <1>2, NewIsAlone
  <2>3. Uses(slots[j].type) \cap Uses(t) = {}
    BY <1>4, <2>1, <2>2, RunnerUses
  <2>4. slots[j].type = "LocationUpdate" => "rand" \in Params \ Uses(t)
    BY <2>3 DEF Uses, Params
  <2>5. slots[j].type = "CallSetup_MO" => "ti" \in Params \ Uses(t)
    BY <2>3 DEF Uses, Params
  <2>6. Agrees(slots[j], NoResponse, Params \ Uses(t))
    BY <2>1, <2>4, <2>5, RunnerAgrees
  <2> QED
    BY <2>1, <2>2, <2>6
<1>12. \A j, k \in Active : /\ slots[j].type = slots[k].type => j = k
                            /\ {slots[j].type, slots[k].type} # {"LocationUpdate", "IMSIDetach"}
  BY OthersAgree DEF RunnerInv
<1>13. slots \in [Slots -> Procedure \cup {Free}]
  BY DEF RunnerInv
<1>14. Stepped(i, Fed(Created(t), m, tmsi), Inserted, NoResponse, Params \ Uses(t))
  BY <1>1 DEF i
<1>16. Inserted = TRUE
  BY DEF RunnerInv, Inserted
<1>15. RunnerInv' /\ lacking' = {}
  <2> DEFINE p == Created(t)
             other == Params \ Uses(t)
             r == Fed(Created(t), m, tmsi)
  <2>1. Sound(p) /\ p.type \in RunnerTypes /\ StepSound(p, r) /\ Agrees(p, NoResponse, other)
        /\ Stepped(i, r, TRUE, NoResponse, other)
    BY <1>4, <1>6, <1>9, <1>10, <1>14, <1>16
  <2>2. \A j \in Active \ {i} :
          /\ slots[j].type \in RunnerTypes /\ Sound(slots[j])
          /\ Agrees(slots[j], NoResponse, other) /\ slots[j].type # p.type
          /\ {slots[j].type, p.type} # {"LocationUpdate", "IMSIDetach"}
    BY <1>6, <1>11
  <2>3. \A j, k \in Active \ {i} : /\ slots[j].type = slots[k].type => j = k
                                   /\ {slots[j].type, slots[k].type} # {"LocationUpdate", "IMSIDetach"}
    BY <1>12
  <2> HIDE DEF p, other, r
  <2> QED
    BY <1>3, <1>13, <2>1, <2>2, <2>3, SteppedInv
<1> QED
  BY <1>2, <1>15

LEMMA ExternalInv ==
  ASSUME RunnerInv, NEW t, NEW d \in ExternalData, feedExternalTyped(t, d)
  PROVE  RunnerInv' /\ lacking' = {} /\ UNCHANGED tmsi
<1> DEFINE i == First(OfType(t))
<1>1. OfType(t) # {} /\ Stepped(i, Told(slots[i], d), registered, response, foreign) /\ UNCHANGED tmsi
  BY DEF feedExternalTyped
<1>2. OfType(t) \subseteq Active /\ Active \subseteq Slots
  BY DEF OfType, Active, ActiveIn
<1>3. i \in Active
  BY <1>1, <1>2, FirstIsThere
<1>4. StepSound(slots[i], Told(slots[i], d))
  BY <1>3, ToldSound DEF RunnerInv
<1> QED
  BY <1>1, <1>3, <1>4, ActiveStepInv

\* A timeout changes neither the context nor what a procedure wrote there.
LEMMA ExpiredAgrees ==
  ASSUME NEW p, Sound(p), NEW c, NEW F, Agrees(p, c, F), ~Terminal(Expired(p))
  PROVE  Sound(Expired(p)) /\ Agrees(Expired(p), c, F) /\ Expired(p).type = p.type
<1>1. StepSound(p, Silent(Expired(p)))
  BY ExpiredSound
<1>2. Silent(Expired(p)).proc = Expired(p) /\ DOMAIN Silent(Expired(p)).sets = {}
  BY DEF Silent
<1>3. Agrees(Expired(p), Sets(c, Silent(Expired(p)).sets), F)
  BY <1>1, <1>2, StepAgrees
<1>4. \A x \in Params : Sets(c, Silent(Expired(p)).sets)[x] = c[x]
  BY <1>2, SetsAt
<1> QED
  BY <1>1, <1>2, <1>3, <1>4, AgreesSame DEF StepSound

\* When the slots that finish are cleaned one by one, the last of them finds
\* the runner empty if they were all there was.
LEMMA LastIsThere ==
  ASSUME NEW S, S \subseteq Slots, S # {}
  PROVE  \E i \in S : \A j \in S : j <= i
<1> DEFINE R == {MAX_PROCEDURES - j : j \in S}
<1>1. R \subseteq Nat /\ R # {}
  <2>1. \A j \in S : j \in Nat /\ j <= MAX_PROCEDURES /\ MAX_PROCEDURES \in Nat
    BY SlotsAssumption DEF Slots
  <2>2. \A j \in S : MAX_PROCEDURES - j \in Nat
    BY <2>1
  <2> QED
    BY <2>2
<1>2. \E x \in R : \A y \in R : ~(<<y, x>> \in OpToRel(<, Nat))
  BY <1>1, NatLessThanWellFounded, WFMin, Zenon
<1>3. \A x, y \in Nat : y < x => <<y, x>> \in OpToRel(<, Nat)
  BY DEF OpToRel
<1>4. PICK x \in R : \A y \in R : ~(y < x)
  BY <1>1, <1>2, <1>3, Zenon
<1>5. PICK i \in S : x = MAX_PROCEDURES - i
  BY <1>4
<1>6. ASSUME NEW j \in S PROVE j <= i
  <2>1. MAX_PROCEDURES - j \in R
    OBVIOUS
  <2>2. ~(MAX_PROCEDURES - j < MAX_PROCEDURES - i)
    BY <1>4, <1>5, <2>1
  <2>3. i \in Nat /\ j \in Nat /\ MAX_PROCEDURES \in Nat
    BY SlotsAssumption DEF Slots
  <2> QED
    BY <2>2, <2>3
<1> QED
  BY <1>6

LEMMA TickAllInv ==
  ASSUME RunnerInv, NEW E \in SUBSET Timed, tickAll(E)
  PROVE  RunnerInv' /\ UNCHANGED <<lacking, tmsi>>
<1> DEFINE after == [i \in Slots |-> IF i \in E THEN Expired(slots[i]) ELSE slots[i]]
           gone == {i \in Active : Terminal(after[i])}
<1>0. /\ slots' = [i \in Slots |-> IF i \in gone THEN Free ELSE after[i]]
      /\ registered
      /\ registered' = IF \E i \in gone : Active \ {j \in gone : j <= i} = {} THEN FALSE ELSE registered
      /\ UNCHANGED <<foreign, tmsi, response, lacking>>
  BY DEF tickAll, sessionVars
<1>9. E \subseteq Active /\ Active \subseteq Slots
  BY DEF Timed, Active, ActiveIn
<1>10. \A i \in Slots : i \in gone <=> i \in E /\ Terminal(Expired(slots[i]))
  <2>1. \A i \in Active : ~Terminal(slots[i])
    BY SoundGoesOn DEF RunnerInv
  <2> QED
    BY <1>9, <2>1
<1>1. /\ slots' = [i \in Slots |-> IF i \in E THEN Settled(Expired(slots[i])) ELSE slots[i]]
      /\ UNCHANGED <<foreign, tmsi, response, lacking>>
  BY <1>0, <1>10 DEF Settled
<1>11. gone \subseteq Active
  OBVIOUS
<1>12. \A i \in Slots : slots'[i] # Free <=> i \in Active \ gone
  <2>1. ASSUME NEW i \in Active PROVE Expired(slots[i]) # Free
    <3>1. Expired(slots[i]) \in Procedure
      BY ExpiredSound DEF RunnerInv, StepSound, Silent
    <3> QED
      BY <3>1, NothingAssumption DEF Free
  <2>2. \A i \in Slots : i \in Active <=> slots[i] # Free
    BY DEF Active, ActiveIn
  <2> QED
    BY <1>0, <1>9, <2>1, <2>2
<1> HIDE DEF gone, after
<1>2. E \subseteq Active /\ Active \subseteq Slots
  BY DEF Timed, Active, ActiveIn
<1>3. ASSUME NEW i \in Active
      PROVE  /\ Sound(slots[i]) /\ slots[i].type \in RunnerTypes
             /\ Agrees(slots[i], response, foreign) /\ Expired(slots[i]) \in Procedure
  BY ExpiredSound DEF RunnerInv, StepSound, Silent
<1>4. slots' \in [Slots -> Procedure \cup {Free}]
  BY <1>1, <1>2, <1>3 DEF RunnerInv, Settled
<1>5. ASSUME NEW i \in ActiveIn(slots')
      PROVE  /\ i \in Active /\ slots'[i].type = slots[i].type
             /\ Sound(slots'[i]) /\ Agrees(slots'[i], response, foreign)
  <2>1. i \in Slots /\ slots'[i] # Free
    BY DEF ActiveIn
  <2>2. CASE i \in E
    <3>1. slots'[i] = Expired(slots[i]) /\ ~Terminal(Expired(slots[i])) /\ i \in Active
      BY <1>1, <1>2, <2>1, <2>2 DEF Settled
    <3> QED
      BY <1>3, <3>1, ExpiredAgrees
  <2>3. CASE i \notin E
    <3>1. slots'[i] = slots[i] /\ i \in Active
      BY <1>1, <2>1, <2>3 DEF Active, ActiveIn
    <3> QED
      BY <1>3, <3>1
  <2> QED
    BY <2>2, <2>3
<1>6. /\ \A i, j \in ActiveIn(slots') : slots'[i].type = slots'[j].type => i = j
      /\ OfType("LocationUpdate")' = {} \/ OfType("IMSIDetach")' = {}
  BY <1>5 DEF RunnerInv, OfType, Active
<1>7. registered' = (ActiveIn(slots') # {})
  <2>1. ActiveIn(slots') = Active \ gone
    BY <1>2, <1>12 DEF ActiveIn
  <2>2. (\E i \in gone : Active \ {j \in gone : j <= i} = {}) <=> Active \ gone = {}
    <3>1. ASSUME Active \ gone = {}
          PROVE  \E i \in gone : Active \ {j \in gone : j <= i} = {}
      <4>1. gone # {} /\ gone \subseteq Slots
        BY <1>0, <1>2, <1>11, <3>1 DEF RunnerInv
      <4>2. PICK i \in gone : \A j \in gone : j <= i
        BY <4>1, LastIsThere
      <4> QED
        BY <3>1, <4>2
    <3> QED
      BY <3>1
  <2> QED
    BY <1>0, <2>1, <2>2
<1> QED
  BY <1>1, <1>3, <1>4, <1>5, <1>6, <1>7 DEF RunnerInv, Active

LEMMA RunnerStepInv ==
  ASSUME RunnerInv, tmsi \in BOOLEAN, lacking = {}, RunnerNext
  PROVE  RunnerInv' /\ lacking' = {} /\ UNCHANGED tmsi
<1>1. ASSUME NEW m \in Messages, FeedIgnored(m) PROVE RunnerInv' /\ UNCHANGED <<lacking, tmsi>>
  BY <1>1 DEF FeedIgnored, runnerVars, sessionVars, RunnerInv, Active, ActiveIn, OfType
<1>2. ASSUME cancelAll PROVE RunnerInv' /\ UNCHANGED <<lacking, tmsi>>
  <2>1. slots' = [i \in Slots |-> Free] /\ registered' = FALSE
        /\ UNCHANGED <<foreign, tmsi, response, lacking>>
    BY <1>2 DEF cancelAll, sessionVars
  <2>2. ActiveIn(slots') = {}
    BY <2>1 DEF ActiveIn
  <2> QED
    BY <2>1, <2>2 DEF RunnerInv, Active, OfType
<1> QED
  BY <1>1, <1>2, FeedActiveInv, FeedNewInv, ExternalInv, TickAllInv DEF RunnerNext

-----------------------------------------------------------------------------
(* The orchestrator                                                        *)

ChainTypes == {"Authentication", "CipheringMode", "CallSetup_MO"}

\* A step of a procedure of a chain: without a token it writes nothing, but for
\* a new challenge of an authentication that was started, and an authentication
\* starts with a token.
ChainSound(p, r) ==
  /\ StepSound(p, r)
  /\ r.token = Nothing => \/ DOMAIN r.sets = {}
                          \/ p.type = "Authentication" /\ p.state # "INIT"
  /\ p.type = "Authentication" /\ p.state = "INIT" /\ r.token = Nothing =>
       r.proc.state \in {"INIT", "FAILED"}

LEMMA PlainResults ==
  ASSUME NEW p, NEW tok
  PROVE  /\ Silent(p).token = Nothing /\ Silent(p).proc = p /\ DOMAIN Silent(p).sets = {}
         /\ Sends(p, tok).token = tok /\ Sends(p, tok).proc = p /\ DOMAIN Sends(p, tok).sets = {}
BY DEF Silent, Sends

LEMMA WritingResults ==
  ASSUME NEW p, NEW tok, NEW x, NEW v
  PROVE  /\ Writing(Silent(p), x, v).token = Nothing /\ Writing(Silent(p), x, v).proc = p
         /\ Writing(Sends(p, tok), x, v).token = tok /\ Writing(Sends(p, tok), x, v).proc = p
BY DEF Silent, Sends, Writing

LEMMA FedChain ==
  ASSUME NEW p, Sound(p), p.type \in ChainTypes, NEW m \in Messages, NEW b \in BOOLEAN
  PROVE  /\ ChainSound(p, Fed(p, m, b))
         /\ p.type = "Authentication" /\ Fed(p, m, b).proc.state = "COMPLETED" =>
              m.mti = "AuthenticationResponse" /\ Fed(p, m, b).proc.expected = m.arg
         /\ p.type = "CipheringMode" /\ Fed(p, m, b).proc.state = "COMPLETED" =>
              m.mti = "CipheringModeComplete"
<1>1. StepSound(p, Fed(p, m, b)) /\ p.state # "COMPLETED"
  BY FedSound, SoundGoesOn DEF Terminal
<1>2. CASE p.type = "Authentication"
  <2> DEFINE r == AuthenticationFed(p, m)
  <2>1. Fed(p, m, b) = r
    BY <1>2 DEF Fed
  <2>2. DOMAIN r.sets = {} /\ (p.state = "INIT" => r.proc = p)
    BY PlainResults DEF AuthenticationFed
  <2>3. ASSUME r.proc.state = "COMPLETED"
        PROVE  p.state = "WAIT_RESPONSE" /\ m.mti = "AuthenticationResponse" /\ SresMatches(p, m)
    <3>1. "WAIT_RESPONSE" \in States /\ "FAILED" \in States /\ p \in Procedure
      BY DEF States, Sound
    <3>2. GoesTimed(p, "WAIT_RESPONSE").state = "WAIT_RESPONSE" /\ fail(p).state = "FAILED"
      BY <3>1, GoesTimedFields, GoesStoppedFields DEF fail
    <3> QED
      BY <1>1, <2>3, <3>2, PlainResults DEF AuthenticationFed
  <2>4. r.proc.state = "COMPLETED" => r.proc.expected = m.arg
    <3> SUFFICES ASSUME r.proc.state = "COMPLETED" PROVE r.proc.expected = m.arg
      OBVIOUS
    <3>1. p.expected = m.arg
      BY <1>2, <2>3 DEF SresMatches, Sound
    <3> QED
      BY <1>1, <2>1, <2>2, <3>1 DEF StepSound
  <2> HIDE DEF r
  <2> QED
    BY <1>1, <1>2, <2>1, <2>2, <2>3, <2>4 DEF ChainSound
<1>3. CASE p.type = "CipheringMode"
  <2> DEFINE r == CipheringModeFed(p, m)
  <2>1. Fed(p, m, b) = r
    BY <1>3 DEF Fed
  <2>2. DOMAIN r.sets = {}
    BY PlainResults DEF CipheringModeFed
  <2>3. r.proc.state = "COMPLETED" => m.mti = "CipheringModeComplete"
    <3>1. "WAIT_COMPLETE" \in States /\ p \in Procedure
      BY DEF States, Sound
    <3>2. GoesTimed(p, "WAIT_COMPLETE").state = "WAIT_COMPLETE"
      BY <3>1, GoesTimedFields
    <3> QED
      BY <1>1, <3>2, PlainResults DEF CipheringModeFed
  <2> HIDE DEF r
  <2> QED
    BY <1>1, <1>3, <2>1, <2>2, <2>3 DEF ChainSound
<1>4. CASE p.type = "CallSetup_MO"
  <2> DEFINE r == CallSetupMOFed(p, m)
  <2>1. Fed(p, m, b) = r
    BY <1>4 DEF Fed
  <2>2. TakesSetup(p, m).token # Nothing
    BY NothingAssumption, WritingResults DEF TakesSetup, Tokens
  <2>3. DOMAIN r.sets = {} \/ r.token # Nothing
    BY <2>2, PlainResults DEF CallSetupMOFed
  <2> HIDE DEF r
  <2> QED
    BY <1>1, <1>4, <2>1, <2>3 DEF ChainSound
<1> QED
  BY <1>2, <1>3, <1>4 DEF ChainTypes

LEMMA ToldChain ==
  ASSUME NEW p, Sound(p), p.type \in ChainTypes, NEW d \in ExternalData
  PROVE  ChainSound(p, Told(p, d)) /\ Told(p, d).proc.state # "COMPLETED"
<1>1. StepSound(p, Told(p, d)) /\ p.state # "COMPLETED" /\ p \in Procedure
  BY ToldSound, SoundGoesOn DEF Terminal, Sound
<1>2. CASE p.type = "Authentication"
  <2> DEFINE q == [p EXCEPT !.expected = d.arg]
             r == AuthenticationTold(p, d)
  <2>1. Told(p, d) = r
    BY <1>2 DEF Told
  <2>2. CASE d.kind # "AuthChallenge"
    <3>1. r = Silent(p)
      BY <2>2 DEF AuthenticationTold
    <3> QED
      BY <1>1, <2>1, <3>1, PlainResults DEF ChainSound
  <2>3. CASE d.kind = "AuthChallenge" /\ p.state = "INIT"
    <3>1. r = Writing(Sends(Goes(q, "SEND_AUTH_REQ"), "AuthenticationRequest"), "rand", d.arg)
      BY <2>3 DEF AuthenticationTold
    <3>2. r.token # Nothing /\ r.proc = Goes(q, "SEND_AUTH_REQ")
      BY <3>1, NothingAssumption, WritingResults DEF Tokens
    <3>3. d.arg \in Challenges /\ "SEND_AUTH_REQ" \in States
      BY <2>3 DEF ExternalData, States
    <3>4. q \in Procedure
      BY <1>1, <3>3, ExpectedFields
    <3>5. r.proc.state = "SEND_AUTH_REQ"
      BY <3>2, <3>3, <3>4, GoesFields
    <3> QED
      BY <1>1, <2>1, <3>2, <3>5 DEF ChainSound
  <2>4. CASE d.kind = "AuthChallenge" /\ p.state # "INIT"
    <3>1. r = Writing(Silent(q), "rand", d.arg)
      BY <2>4 DEF AuthenticationTold
    <3>2. d.arg \in Challenges
      BY <2>4 DEF ExternalData
    <3>3. r.proc = q /\ q.state = p.state
      BY <1>1, <3>1, <3>2, ExpectedFields, WritingResults
    <3> QED
      BY <1>1, <1>2, <2>1, <2>4, <3>3 DEF ChainSound
  <2> QED
    BY <2>2, <2>3, <2>4
<1>3. CASE p.type = "CipheringMode"
  <2> DEFINE r == CipheringModeTold(p, d)
  <2>1. Told(p, d) = r
    BY <1>3 DEF Told
  <2>0. "SEND_COMMAND" \in States
    BY DEF States
  <2>2. GoesTimed(p, "SEND_COMMAND").state = "SEND_COMMAND"
    BY <1>1, <2>0, GoesTimedFields
  <2>3. (r.token # Nothing \/ DOMAIN r.sets = {}) /\ r.proc.state # "COMPLETED"
    BY <1>1, <2>2, NothingAssumption, PlainResults, WritingResults DEF CipheringModeTold, Tokens
  <2> HIDE DEF r
  <2> QED
    BY <1>1, <1>3, <2>1, <2>3 DEF ChainSound
<1>4. CASE p.type = "CallSetup_MO"
  <2>1. Told(p, d) = Silent(p)
    BY <1>4 DEF Told
  <2> QED
    BY <1>1, <1>4, <2>1, PlainResults DEF ChainSound
<1> QED
  BY <1>2, <1>3, <1>4 DEF ChainTypes

LEMMA ExpiredChain ==
  ASSUME NEW p, Sound(p), p.type \in ChainTypes
  PROVE  ChainSound(p, Silent(Expired(p))) /\ Silent(Expired(p)).proc.state # "COMPLETED"
<1>1. StepSound(p, Silent(Expired(p))) /\ p \in Procedure
  BY ExpiredSound DEF Sound
<1>2. Expired(p) = fail(p)
  BY DEF Expired, ChainTypes
<1>0. "FAILED" \in States
  BY DEF States
<1>3. fail(p).state = "FAILED"
  BY <1>0, <1>1, GoesStoppedFields DEF fail
<1> QED
  BY <1>1, <1>2, <1>3, PlainResults DEF ChainSound

LEMMA NeedsParams == ASSUME NEW t, NEW tok PROVE Needs(t, tok) \subseteq Params
BY DEF Needs, Params

\* What the procedure holds is what the context holds after the step.
LEMMA HeldParameters ==
  ASSUME NEW p, p.type \in ChainTypes, NEW r, StepSound(p, r), NEW c, Agrees(p, c, {})
  PROVE  /\ p.type = "Authentication" => Sets(c, r.sets)["rand"] = r.proc.expected
         /\ p.type = "CallSetup_MO" => Sets(c, r.sets)["ti"] = r.proc.ti
         /\ p.type = "CipheringMode" => Sets(c, r.sets)["rand"] = c["rand"]
         /\ \A x \in Params : c[x] # Nothing => Sets(c, r.sets)[x] # Nothing
<1>1. p.type # "CallRelease"
  BY DEF ChainTypes
<1>2. /\ Sets(c, r.sets)["rand"] = IF "rand" \in DOMAIN r.sets THEN r.sets["rand"] ELSE c["rand"]
  BY SetsAt DEF Params
<1>3. /\ Sets(c, r.sets)["ti"] = IF "ti" \in DOMAIN r.sets THEN r.sets["ti"] ELSE c["ti"]
  BY SetsAt DEF Params
<1>4. p.type = "CipheringMode" => "rand" \notin DOMAIN r.sets
  BY <1>1 DEF StepSound, Uses
<1>5. p.type = "Authentication" => Sets(c, r.sets)["rand"] = r.proc.expected
  BY <1>2 DEF StepSound, Agrees
<1>6. p.type = "CallSetup_MO" => Sets(c, r.sets)["ti"] = r.proc.ti
  BY <1>1, <1>3 DEF StepSound, Agrees
<1>7. \A x \in Params : c[x] # Nothing => Sets(c, r.sets)[x] # Nothing
  BY <1>1, SetsAt DEF StepSound
<1> QED
  BY <1>2, <1>4, <1>5, <1>6, <1>7

\* The last token is served by the context after the step, whether the step
\* returned it or it is an earlier one.
LEMMA KeptServed ==
  ASSUME ChainInv, current # Free, NEW r, ChainSound(current, r)
  PROVE  /\ Lacking(Sets(response, r.sets), Kept(r), Kept(r).token) = {}
         /\ Kept(r).type # "CallRelease" => Needs(Kept(r).type, Kept(r).token) \subseteq Uses(Kept(r).type)
<1> DEFINE p == current
           c == response
           k == Kept(r)
<1>1. StepSound(p, r) /\ r.proc.type = p.type
  BY DEF ChainSound, StepSound
<1>2. p.type \in ChainTypes /\ p.type \in ChainProcedure /\ Sound(p) /\ Agrees(p, c, {})
  BY DEF ChainInv, CurrentInv, ChainProcedure, ChainTypes, PhaseInv
<1>3. \A x \in Params : c[x] # Nothing => Sets(c, r.sets)[x] # Nothing
  BY <1>1, <1>2, HeldParameters
<1>4. CASE r.token # Nothing
  <2>1. k = Token(r.proc.type, r.token, r.proc.expected, r.proc.ti)
    BY <1>4 DEF Kept
  <2>2. k.type = r.proc.type /\ k.token = r.token /\ k.expected = r.proc.expected /\ k.ti = r.proc.ti
    BY <2>1 DEF Token
  <2>3. Lacking(Sets(c, r.sets), r.proc, r.token) \subseteq {}
    BY <1>1, <1>2, StepAgrees
  <2>4. Lacking(Sets(c, r.sets), k, k.token) = {}
    BY <2>2, <2>3 DEF Lacking
  <2>5. Needs(k.type, k.token) \subseteq Uses(k.type)
    BY <1>1, <2>2 DEF StepSound
  <2> QED
    BY <2>4, <2>5
<1>5. CASE r.token = Nothing /\ last.type = r.proc.type
  <2>1. k = Token(last.type, last.token, r.proc.expected, r.proc.ti)
    BY <1>5 DEF Kept
  <2>2. k.type = p.type /\ k.token = last.token /\ k.expected = r.proc.expected /\ k.ti = r.proc.ti
    BY <1>1, <1>5, <2>1 DEF Token
  <2>3. last.type = p.type /\ p.type # "CallRelease"
    BY <1>1, <1>2, <1>5 DEF ChainTypes
  <2>4. Needs(p.type, last.token) \subseteq Uses(p.type)
    BY <2>3 DEF ChainInv, LastInv
  <2>5. ASSUME NEW x \in Needs(p.type, last.token)
        PROVE  /\ Sets(c, r.sets)[x] # Nothing
               /\ x = "rand" => Sets(c, r.sets)[x] = k.expected
               /\ x = "ti" => Sets(c, r.sets)[x] = k.ti
    <3>1. c[x] # Nothing /\ x \in Params
      BY <2>3, NeedsParams DEF ChainInv, LastInv, Lacking
    <3>2. x \in Uses(p.type)
      BY <2>4
    <3>3. x = "rand" => p.type = "Authentication"
      BY <1>2, <3>2 DEF ChainTypes, Uses
    <3>4. x = "ti" => p.type = "CallSetup_MO"
      BY <1>2, <3>2 DEF ChainTypes, Uses
    <3> QED
      BY <1>1, <1>2, <1>3, <2>2, <3>1, <3>3, <3>4, HeldParameters
  <2>6. Lacking(Sets(c, r.sets), k, k.token) = {}
    BY <2>2, <2>5 DEF Lacking
  <2> QED
    BY <2>2, <2>4, <2>6
<1>6. CASE r.token = Nothing /\ last.type # r.proc.type
  <2>1. k = last
    BY <1>6 DEF Kept
  <2>2. ~(p.type = "Authentication" /\ p.state # "INIT")
    <3>1. p.type = "Authentication" => phase = "Authentication"
      BY <1>2 DEF ChainProcedure, ChainInv, PhaseInv
    <3> QED
      BY <1>1, <1>6, <3>1 DEF ChainInv, LastInv
  <2>3. DOMAIN r.sets = {}
    BY <1>6, <2>2 DEF ChainSound
  <2>4. \A x \in Params : Sets(c, r.sets)[x] = c[x]
    BY <2>3, SetsAt
  <2>5. Lacking(c, last, last.token) = {} /\ Needs(last.type, last.token) \subseteq Params
    BY NeedsParams DEF ChainInv, LastInv
  <2>6. Lacking(Sets(c, r.sets), last, last.token) = {}
    BY <2>4, <2>5 DEF Lacking
  <2> QED
    BY <2>1, <2>6 DEF ChainInv, LastInv
<1> QED
  BY <1>4, <1>5, <1>6

LEMMA NoTokenServed ==
  ASSUME NEW c
  PROVE  Lacking(c, NoToken, NoToken.token) = {} /\ Needs(NoToken.type, NoToken.token) = {}
<1>1. NoToken.type = Nothing /\ NoToken.token = Nothing
  BY DEF NoToken, Token
<1>2. Needs(Nothing, Nothing) = {}
  BY NothingAssumption DEF Needs, Tokens
<1> QED
  BY <1>1, <1>2 DEF Lacking

LEMMA IdleInv == ASSUME ChainInv, Idle PROVE ChainInv'
<1>1. phase' = "None" /\ current' = Free /\ phaseTimer' = "off" /\ retransmit' = Nothing
      /\ last' = NoToken
  BY DEF Idle, endChain, PhaseTimer
<1>2. PhaseInv' /\ CurrentInv'
  BY <1>1 DEF PhaseInv, CurrentInv, ChainProcedure
<1>3. LastInv'
  BY <1>1, NoTokenServed DEF LastInv
<1> QED
  BY <1>1, <1>2, <1>3 DEF ChainInv, EvidenceInv

\* A step of the procedure object, with what its completion shows.
LEMMA ProcedureStepInv ==
  ASSUME ChainInv, current # Free, NEW r, ChainSound(current, r), ProcedureStep(r),
         shown \subseteq shown',
         current.type = "Authentication" /\ r.proc.state = "COMPLETED" => r.proc.expected \in shown',
         current.type = "CipheringMode" /\ r.proc.state = "COMPLETED" => "ciphered" \in shown'
  PROVE  ChainInv'
<1>1. StepSound(current, r) /\ r.proc.type = current.type /\ r.proc \in Procedure
  BY DEF ChainSound, StepSound
<1>2. current.type \in ChainTypes /\ current.type \in ChainProcedure /\ Sound(current)
      /\ Agrees(current, response, {})
  BY DEF ChainInv, CurrentInv, ChainProcedure, ChainTypes, PhaseInv
<1>3. phase \in {"Authentication", "CipheringMode", "CallSetupMO"}
  BY DEF ChainInv, PhaseInv, ChainProcedure
<1>4. /\ phase = "Authentication" <=> current.type = "Authentication"
      /\ phase = "CipheringMode" <=> current.type = "CipheringMode"
  BY <1>2, <1>3 DEF ChainProcedure
<1>5. phaseTimer = "off" /\ retransmit = Nothing
  BY <1>3 DEF ChainInv, PhaseInv
<1>6. /\ Lacking(Sets(response, r.sets), Kept(r), Kept(r).token) = {}
      /\ Kept(r).type # "CallRelease" => Needs(Kept(r).type, Kept(r).token) \subseteq Uses(Kept(r).type)
  BY KeptServed
<1>7. /\ phase = "Authentication" => Sets(response, r.sets)["rand"] = r.proc.expected
      /\ phase = "CipheringMode" => Sets(response, r.sets)["rand"] = response["rand"]
  BY <1>1, <1>2, <1>4, HeldParameters
<1>8. CASE r.proc.state = "COMPLETED"
  <2>1. onProcedureCompleted /\ last' = Kept(r) /\ response' = Sets(response, r.sets)
    BY <1>8 DEF ProcedureStep
  <2>2. CASE phase = "Authentication"
    <3>1. phase' = "CipheringMode" /\ current' = Created("CipheringMode")
          /\ phaseTimer' = "off" /\ retransmit' = Nothing
      BY <2>1, <2>2 DEF onProcedureCompleted, transitionToPhase, procedureFor, PhaseTimer
    <3>2. Sound(Created("CipheringMode")) /\ Created("CipheringMode").type = "CipheringMode"
      BY CreatedSound DEF ProcedureTypes
    <3>3. Created("CipheringMode").state = "INIT" /\ Created("CipheringMode") # Free
      BY <3>2, SoundGoesOn DEF Created
    <3>4. PhaseInv'
      BY <3>1, <3>3 DEF PhaseInv, ChainProcedure
    <3>5. Agrees(Created("CipheringMode"), response', {})
      BY <3>2, <3>3 DEF Agrees
    <3>6. CurrentInv'
      BY <3>1, <3>2, <3>5 DEF CurrentInv, ChainProcedure
    <3>7. LastInv'
      BY <1>6, <2>1, <3>1 DEF LastInv
    <3>8. EvidenceInv'
      BY <1>4, <1>7, <1>8, <2>1, <2>2, <3>1 DEF EvidenceInv
    <3> QED
      BY <3>4, <3>6, <3>7, <3>8 DEF ChainInv
  <2>3. CASE phase = "CipheringMode"
    <3>1. phase' = "LocationUpdate" /\ current' = Free
          /\ phaseTimer' = "running" /\ retransmit' = Nothing
      BY <1>5, <2>1, <2>3 DEF onProcedureCompleted, transitionToPhase, procedureFor, PhaseTimer
    <3>2. PhaseInv' /\ CurrentInv'
      BY <3>1 DEF PhaseInv, CurrentInv, ChainProcedure
    <3>3. LastInv'
      BY <1>6, <2>1, <3>1 DEF LastInv
    <3>4. EvidenceInv'
      BY <1>4, <1>7, <1>8, <2>1, <2>3, <3>1 DEF ChainInv, EvidenceInv
    <3> QED
      BY <3>2, <3>3, <3>4 DEF ChainInv
  <2>4. CASE phase = "CallSetupMO"
    <3>1. phase' = "None" /\ current' = Free /\ phaseTimer' = "off" /\ retransmit' = Nothing
      BY <2>1, <2>4 DEF onProcedureCompleted, endChain, PhaseTimer
    <3>2. PhaseInv' /\ CurrentInv'
      BY <3>1 DEF PhaseInv, CurrentInv, ChainProcedure
    <3>3. LastInv' /\ EvidenceInv'
      BY <1>6, <2>1, <3>1 DEF LastInv, EvidenceInv
    <3> QED
      BY <3>2, <3>3 DEF ChainInv
  <2> QED
    BY <1>3, <2>2, <2>3, <2>4
<1>9. CASE r.proc.state = "FAILED"
  BY <1>9, IdleInv DEF ProcedureStep
<1>10. CASE r.proc.state \notin {"COMPLETED", "FAILED"}
  <2>1. /\ current' = r.proc /\ last' = Kept(r) /\ response' = Sets(response, r.sets)
        /\ UNCHANGED <<phase, phaseTimer, retransmit>>
    BY <1>10 DEF ProcedureStep
  <2>2. ~Terminal(r.proc)
    BY <1>10 DEF Terminal
  <2>3. Sound(r.proc) /\ r.proc # Free
    BY <1>1, <2>2, SoundGoesOn DEF StepSound
  <2>4. Agrees(r.proc, response', {})
    BY <1>1, <1>2, <2>1, <2>2, StepAgrees
  <2>5. PhaseInv'
    BY <2>1, <2>3 DEF ChainInv, PhaseInv, ChainProcedure
  <2>6. CurrentInv'
    BY <1>1, <1>2, <2>1, <2>3, <2>4 DEF CurrentInv, ChainProcedure
  <2>7. phase = "Authentication" /\ r.proc.state # "INIT" => Kept(r).type = "Authentication"
    <3> SUFFICES ASSUME phase = "Authentication", r.proc.state # "INIT"
                 PROVE  Kept(r).type = "Authentication"
      OBVIOUS
    <3>1. r.token = Nothing => current.state # "INIT"
      BY <1>4, <1>10 DEF ChainSound
    <3>2. r.token = Nothing => last.type = "Authentication"
      BY <3>1 DEF ChainInv, LastInv
    <3> QED
      BY <1>1, <1>4, <3>2 DEF Kept, Token
  <2>8. LastInv'
    BY <1>6, <2>1, <2>7 DEF LastInv
  <2>9. EvidenceInv'
    BY <1>3, <1>7, <2>1 DEF ChainInv, EvidenceInv
  <2> QED
    BY <2>5, <2>6, <2>8, <2>9 DEF ChainInv
<1> QED
  BY <1>8, <1>9, <1>10

\* The tokens of the phases handled inline.
LEMMA InlineNeeds ==
  ASSUME NEW t \in {"LocationUpdate", "CallSetup_MO", "IMSIDetach"}, NEW x, NEW y, NEW c,
         NEW tok \in {"CMServiceAccept", "IdentityRequest", "LocationUpdatingReject"}
  PROVE  /\ Lacking(c, Token(t, tok, x, y), Token(t, tok, x, y).token) = {}
         /\ Needs(Token(t, tok, x, y).type, Token(t, tok, x, y).token) = {}
BY DEF Lacking, Needs, Token

LEMMA StartInv ==
  ASSUME ChainInv, NEW m \in Messages, FeedServiceRequest(m)
  PROVE  ChainInv' /\ ContextInv'
<1>1. NoResponse["rand"] = Nothing /\ NoResponse["ti"] = Nothing
  BY DEF NoResponse, Params
<1>2. response' = NoResponse /\ ContextInv'
  BY DEF FeedServiceRequest, StartsClean, ContextInv, NoResponse
<1>3. PICK t \in {"LocationUpdate", "CallSetup_MO"} : last' = Token(t, "CMServiceAccept", Nothing, Nothing)
  BY DEF FeedServiceRequest, StartsClean
<1>4. ASSUME NEW t2 \in {"Authentication", "CallSetup_MO"}
      PROVE  /\ Sound(Created(t2)) /\ Created(t2) # Free
             /\ Created(t2).type = t2 /\ Created(t2).state = "INIT"
             /\ Agrees(Created(t2), NoResponse, {})
  <2>1. Sound(Created(t2)) /\ Created(t2).type = t2
    BY CreatedSound DEF ProcedureTypes
  <2>2. Created(t2).state = "INIT" /\ Created(t2).expected = Nothing /\ Created(t2).ti = Nothing
    BY DEF Created
  <2> QED
    BY <1>1, <2>1, <2>2, SoundGoesOn DEF Agrees
<1>5. \/ phase' = "Authentication" /\ current' = Created("Authentication") /\ phaseTimer' = "off" /\ retransmit' = Nothing
      \/ phase' = "CallSetupMO" /\ current' = Created("CallSetup_MO") /\ phaseTimer' = "off" /\ retransmit' = Nothing
      \/ phase' = "IdentityVerification" /\ current' = Free /\ phaseTimer' = "due"
  BY DEF FeedServiceRequest, transitionToPhase, procedureFor, PhaseTimer
<1>6. PhaseInv' /\ CurrentInv'
  BY <1>2, <1>4, <1>5 DEF PhaseInv, CurrentInv, ChainProcedure
<1>7. LastInv'
  BY <1>3, <1>4, <1>5, InlineNeeds DEF LastInv
<1>8. EvidenceInv'
  BY <1>1, <1>2, <1>5 DEF EvidenceInv
<1> QED
  BY <1>2, <1>6, <1>7, <1>8 DEF ChainInv

\* The chains that start and end in one call.
LEMMA InlineInv ==
  ASSUME ChainInv, NEW m \in Messages, FeedDetach(m) \/ FeedDisconnect(m)
  PROVE  ChainInv' /\ ContextInv'
<1>1. phase' = "None" /\ current' = Free /\ phaseTimer' = "off" /\ retransmit' = Nothing
  BY DEF FeedDetach, FeedDisconnect, endChain, PhaseTimer
<1>2. PhaseInv' /\ CurrentInv'
  BY <1>1 DEF PhaseInv, CurrentInv, ChainProcedure
<1>3. EvidenceInv'
  BY <1>1 DEF EvidenceInv
<1>4. CASE FeedDetach(m)
  <2>1. last' = Token("IMSIDetach", "CMServiceAccept", Nothing, Nothing) /\ response' = NoResponse
    BY <1>4 DEF FeedDetach, StartsClean
  <2>2. LastInv' /\ ContextInv'
    BY <1>1, <2>1, InlineNeeds DEF LastInv, ContextInv, NoResponse
  <2> QED
    BY <1>2, <1>3, <2>2 DEF ChainInv
<1>5. CASE FeedDisconnect(m)
  <2>1. /\ response' = [NoResponse EXCEPT !["ti"] = m.arg]
        /\ last' = Token("CallRelease", "Release", Nothing, m.arg)
        /\ m.mti = "Disconnect"
    BY <1>5 DEF FeedDisconnect
  <2>2. m.arg \in TIs /\ m.arg # Nothing
    BY <2>1, NothingAssumption DEF Messages, RRTypes, MMPlain, CCPlain
  <2>3. ContextInv' /\ response'["ti"] = m.arg
    BY <2>1 DEF ContextInv, NoResponse, Params
  <2>4. last'.type = "CallRelease" /\ last'.token = "Release" /\ last'.ti = m.arg
    BY <2>1 DEF Token
  <2>5. Needs("CallRelease", "Release") = {"ti"}
    BY DEF Needs
  <2>6. Lacking(response', last', last'.token) = {}
    BY <2>2, <2>3, <2>4, <2>5 DEF Lacking
  <2>7. LastInv'
    BY <1>1, <2>4, <2>6 DEF LastInv
  <2> QED
    BY <1>2, <1>3, <2>3, <2>7 DEF ChainInv
<1> QED
  BY <1>4, <1>5

LEMMA IdentityInv ==
  ASSUME ChainInv, ContextInv, NEW m \in Messages, FeedIdentity(m)
  PROVE  ChainInv' /\ ContextInv'
<1>1. phase = "IdentityVerification" /\ UNCHANGED <<response, shown>> /\ response["rand"] = Nothing
  BY DEF FeedIdentity, ChainInv, EvidenceInv
<1>2. CASE m.mti = "IdentityResponse"
  <2>1. phase' = "Authentication" /\ current' = Created("Authentication")
        /\ phaseTimer' = "off" /\ retransmit' = Nothing /\ last' = last
    BY <1>2 DEF FeedIdentity, transitionToPhase, procedureFor, PhaseTimer
  <2>2. Sound(Created("Authentication")) /\ Created("Authentication").type = "Authentication"
    BY CreatedSound DEF ProcedureTypes
  <2>3. Created("Authentication").state = "INIT" /\ Created("Authentication").expected = Nothing
    BY DEF Created
  <2>4. Agrees(Created("Authentication"), response', {}) /\ Created("Authentication") # Free
    BY <1>1, <2>2, <2>3, SoundGoesOn DEF Agrees
  <2>5. PhaseInv' /\ CurrentInv'
    BY <2>1, <2>2, <2>4 DEF PhaseInv, CurrentInv, ChainProcedure
  <2>6. LastInv' /\ EvidenceInv'
    BY <1>1, <2>1, <2>3 DEF ChainInv, LastInv, EvidenceInv
  <2> QED
    BY <1>1, <2>5, <2>6 DEF ChainInv, ContextInv
<1>3. CASE m.mti # "IdentityResponse"
  <2>1. phaseTimer' = "running" /\ last' = Token("LocationUpdate", "IdentityRequest", Nothing, Nothing)
        /\ UNCHANGED <<phase, current, retransmit>>
    BY <1>3 DEF FeedIdentity
  <2>2. PhaseInv' /\ CurrentInv'
    BY <1>1, <2>1 DEF ChainInv, PhaseInv, CurrentInv, ChainProcedure
  <2>3. LastInv'
    BY <1>1, <2>1, InlineNeeds DEF LastInv
  <2>4. EvidenceInv'
    BY <1>1, <2>1 DEF EvidenceInv
  <2> QED
    BY <1>1, <2>2, <2>3, <2>4 DEF ChainInv, ContextInv
<1> QED
  BY <1>2, <1>3

LEMMA DecisionInv ==
  ASSUME ChainInv, ContextInv, NEW d \in ExternalData, ExternalDecision(d)
  PROVE  ChainInv' /\ ContextInv'
<1>1. phase' = "None" /\ current' = Free /\ phaseTimer' = "off" /\ retransmit' = Nothing
  BY DEF ExternalDecision, endChain, PhaseTimer
<1>2. PhaseInv' /\ CurrentInv' /\ EvidenceInv'
  BY <1>1 DEF PhaseInv, CurrentInv, ChainProcedure, EvidenceInv
<1>3. response' = [response EXCEPT !["newTmsi"] = "decision"]
  BY DEF ExternalDecision
<1>4. ContextInv' /\ response'["newTmsi"] # Nothing
  BY <1>3, NothingAssumption DEF ContextInv, Params, Filled
<1>5. \/ last' = Token("LocationUpdate", "LocationUpdatingAccept", Nothing, Nothing)
      \/ last' = Token("LocationUpdate", "LocationUpdatingReject", Nothing, Nothing)
  BY DEF ExternalDecision
<1>6. CASE last' = Token("LocationUpdate", "LocationUpdatingAccept", Nothing, Nothing)
  <2>1. last'.type = "LocationUpdate" /\ last'.token = "LocationUpdatingAccept"
    BY <1>6 DEF Token
  <2>2. Needs("LocationUpdate", "LocationUpdatingAccept") = {"newTmsi"}
        /\ "newTmsi" \in Uses("LocationUpdate")
    BY DEF Needs, Uses
  <2>3. Lacking(response', last', last'.token) = {}
    BY <1>4, <2>1, <2>2 DEF Lacking
  <2>4. LastInv'
    BY <1>1, <2>1, <2>2, <2>3 DEF LastInv
  <2> QED
    BY <1>2, <1>4, <2>4 DEF ChainInv
<1>7. CASE last' = Token("LocationUpdate", "LocationUpdatingReject", Nothing, Nothing)
  <2>1. LastInv'
    BY <1>1, <1>7, InlineNeeds DEF LastInv
  <2> QED
    BY <1>2, <1>4, <2>1 DEF ChainInv
<1> QED
  BY <1>5, <1>6, <1>7

\* The context stays a function of the parameters.
LEMMA SetsContext ==
  ASSUME NEW c, NEW f
  PROVE  Sets(c, f) = [q \in Params |-> Sets(c, f)[q]]
BY DEF Sets

LEMMA IdleContext == ASSUME ContextInv, Idle PROVE ContextInv'
BY DEF Idle, ContextInv, NoResponse

LEMMA StepContext == ASSUME ContextInv, NEW r, ProcedureStep(r) PROVE ContextInv'
<1>1. CASE r.proc.state = "FAILED"
  BY <1>1, IdleContext DEF ProcedureStep
<1>2. CASE r.proc.state # "FAILED"
  <2>1. response' = Sets(response, r.sets)
    BY <1>2 DEF ProcedureStep
  <2> QED
    BY <2>1, SetsContext DEF ContextInv
<1> QED
  BY <1>1, <1>2

\* The three steps of the procedure object.
LEMMA ObjectInv ==
  ASSUME ChainInv, ContextInv, tmsi \in BOOLEAN,
         \/ \E m \in Messages : FeedProcedure(m)
         \/ \E d \in ExternalData : ExternalProcedure(d)
         \/ ProcedureTimeout
  PROVE  ChainInv' /\ ContextInv'
<1>1. current # Free
  BY DEF FeedProcedure, ExternalProcedure, ProcedureTimeout
<1>2. Sound(current) /\ current.type \in ChainTypes
  BY <1>1 DEF ChainInv, CurrentInv, ChainProcedure, ChainTypes, PhaseInv
<1>3. ASSUME NEW m \in Messages, FeedProcedure(m) PROVE ChainInv' /\ ContextInv'
  <2> DEFINE r == Fed(current, m, tmsi)
  <2>1. ProcedureStep(r) /\ shown' = shown \cup Evidence(m)
    BY <1>3 DEF FeedProcedure
  <2>2. /\ ChainSound(current, r)
        /\ current.type = "Authentication" /\ r.proc.state = "COMPLETED" =>
             m.mti = "AuthenticationResponse" /\ r.proc.expected = m.arg
        /\ current.type = "CipheringMode" /\ r.proc.state = "COMPLETED" =>
             m.mti = "CipheringModeComplete"
    BY <1>2, FedChain
  <2>3. /\ m.mti = "AuthenticationResponse" => m.arg \in shown'
        /\ m.mti = "CipheringModeComplete" => "ciphered" \in shown'
    BY <2>1 DEF Evidence
  <2> HIDE DEF r
  <2>4. ChainInv'
    BY <1>1, <2>1, <2>2, <2>3, ProcedureStepInv
  <2> QED
    BY <2>1, <2>4, StepContext
<1>4. ASSUME NEW d \in ExternalData, ExternalProcedure(d) PROVE ChainInv' /\ ContextInv'
  <2> DEFINE r == Told(current, d)
  <2>1. ProcedureStep(r) /\ shown' = shown
    BY <1>4 DEF ExternalProcedure
  <2>2. ChainSound(current, r) /\ r.proc.state # "COMPLETED"
    BY <1>2, ToldChain
  <2> HIDE DEF r
  <2> QED
    BY <1>1, <2>1, <2>2, ProcedureStepInv, StepContext
<1>5. ASSUME ProcedureTimeout PROVE ChainInv' /\ ContextInv'
  <2> DEFINE r == Silent(Expired(current))
  <2>1. ProcedureStep(r) /\ shown' = shown
    BY <1>5 DEF ProcedureTimeout
  <2>2. ChainSound(current, r) /\ r.proc.state # "COMPLETED"
    BY <1>2, ExpiredChain
  <2> HIDE DEF r
  <2> QED
    BY <1>1, <2>1, <2>2, ProcedureStepInv, StepContext
<1> QED
  BY <1>3, <1>4, <1>5

LEMMA PhaseTimeoutInv ==
  ASSUME ChainInv, ContextInv, PhaseTimeout
  PROVE  ChainInv' /\ ContextInv'
<1>1. CASE phase = "IdentityVerification" /\ resends < kMaxIdentityRetransmissions
  <2>1. phaseTimer' = "running" /\ UNCHANGED <<phase, current, response, last, shown>>
    BY <1>1 DEF PhaseTimeout
  <2>2. PhaseInv' /\ CurrentInv'
    BY <1>1, <2>1 DEF ChainInv, PhaseInv, CurrentInv, ChainProcedure
  <2>3. LastInv' /\ EvidenceInv' /\ ContextInv'
    BY <2>1 DEF ChainInv, LastInv, EvidenceInv, ContextInv
  <2> QED
    BY <2>2, <2>3 DEF ChainInv
<1>2. CASE ~(phase = "IdentityVerification" /\ resends < kMaxIdentityRetransmissions)
  BY <1>2, IdleInv, IdleContext DEF PhaseTimeout
<1> QED
  BY <1>1, <1>2

LEMMA TakeInv ==
  ASSUME ChainInv, ContextInv,
         takeRetransmissionToken \/ \E m \in Messages : FeedUnknown(m)
  PROVE  ChainInv' /\ ContextInv'
<1>1. UNCHANGED <<phase, current, phaseTimer, last, shown, response>>
      /\ retransmit' \in {Nothing, retransmit}
  BY DEF takeRetransmissionToken, FeedUnknown
<1>2. PhaseInv' /\ CurrentInv'
  BY <1>1 DEF ChainInv, PhaseInv, CurrentInv, ChainProcedure
<1>3. LastInv' /\ EvidenceInv' /\ ContextInv'
  BY <1>1 DEF ChainInv, LastInv, EvidenceInv, ContextInv
<1> QED
  BY <1>2, <1>3 DEF ChainInv

LEMMA ChainStepInv ==
  ASSUME ChainInv, ContextInv, tmsi \in BOOLEAN, ChainInput \/ ChainTick \/ takeRetransmissionToken
  PROVE  ChainInv' /\ ContextInv'
<1>1. ChainCancel => ChainInv' /\ ContextInv'
  BY IdleInv, IdleContext DEF ChainCancel
<1> QED
  BY <1>1, StartInv, InlineInv, IdentityInv, DecisionInv, ObjectInv, PhaseTimeoutInv, TakeInv
  DEF ChainInput, ChainTick

-----------------------------------------------------------------------------
(* The application's own procedure                                         *)

LEMMA OwnsInv ==
  ASSUME OwnInv, own # Free, NEW r, StepSound(own, r), Owns(r)
  PROVE  OwnInv' /\ lacking' = {} /\ ContextInv'
<1>1. own' = Settled(r.proc) /\ response' = Sets(response, r.sets)
      /\ lacking' = Lacking(response', r.proc, r.token)
  BY DEF Owns
<1>2. own.type \in OwnedTypes /\ Sound(own) /\ Agrees(own, response, {})
  BY DEF OwnInv
<1>3. /\ ~Terminal(r.proc) => Agrees(r.proc, response', {})
      /\ Lacking(response', r.proc, r.token) \subseteq {}
  BY <1>1, <1>2, StepAgrees
<1>4. OwnInv'
  BY <1>1, <1>2, <1>3 DEF OwnInv, Settled, StepSound
<1> QED
  BY <1>1, <1>3, <1>4, SetsContext DEF ContextInv

LEMMA OwnStepInv ==
  ASSUME OwnInv, ContextInv, tmsi \in BOOLEAN, lacking = {}, OwnInput \/ OwnTimeout
  PROVE  OwnInv' /\ lacking' = {} /\ ContextInv' /\ UNCHANGED tmsi
<1>1. ASSUME OwnCreate PROVE OwnInv' /\ lacking' = {} /\ ContextInv' /\ UNCHANGED tmsi
  <2>1. UNCHANGED <<tmsi, response, lacking>>
    BY <1>1 DEF OwnCreate, sessionVars
  <2>2. PICK t \in OwnedTypes : own' = Created(t)
    BY <1>1 DEF OwnCreate
  <2>3. Sound(Created(t)) /\ Created(t).type = t
    BY CreatedSound DEF OwnedTypes, ProcedureTypes
  <2>4. Created(t).state = "INIT"
    BY DEF Created
  <2>5. Agrees(Created(t), response', {})
    BY <2>3, <2>4 DEF Agrees, OwnedTypes
  <2> QED
    BY <2>1, <2>2, <2>3, <2>5 DEF OwnInv, ContextInv
<1>2. ASSUME NEW m \in Messages, OwnFeed(m) PROVE OwnInv' /\ lacking' = {} /\ ContextInv' /\ UNCHANGED tmsi
  <2>1. own # Free /\ Owns(Fed(own, m, tmsi)) /\ Sound(own)
    BY <1>2 DEF OwnFeed, OwnInv
  <2>2. StepSound(own, Fed(own, m, tmsi))
    BY <2>1, FedSound
  <2> QED
    BY <2>1, <2>2, OwnsInv DEF Owns
<1>3. ASSUME NEW d \in ExternalData, OwnExternal(d) PROVE OwnInv' /\ lacking' = {} /\ ContextInv' /\ UNCHANGED tmsi
  <2>1. own # Free /\ Owns(Told(own, d)) /\ Sound(own)
    BY <1>3 DEF OwnExternal, OwnInv
  <2>2. StepSound(own, Told(own, d))
    BY <2>1, ToldSound
  <2> QED
    BY <2>1, <2>2, OwnsInv DEF Owns
<1>4. ASSUME OwnTimeout PROVE OwnInv' /\ lacking' = {} /\ ContextInv' /\ UNCHANGED tmsi
  <2>1. own # Free /\ Owns(Silent(Expired(own))) /\ Sound(own)
    BY <1>4 DEF OwnTimeout, OwnInv
  <2>2. StepSound(own, Silent(Expired(own)))
    BY <2>1, ExpiredSound
  <2> QED
    BY <2>1, <2>2, OwnsInv DEF Owns
<1>5. ASSUME OwnCancel PROVE OwnInv' /\ lacking' = {} /\ ContextInv' /\ UNCHANGED tmsi
  <2>1. own # Free /\ Owns(Silent(fail(own))) /\ Sound(own)
    BY <1>5 DEF OwnCancel, OwnInv
  <2>2. StepSound(own, Silent(fail(own)))
    BY <2>1, SilentEnds
  <2> QED
    BY <2>1, <2>2, OwnsInv DEF Owns
<1> QED
  BY <1>1, <1>2, <1>3, <1>4, <1>5 DEF OwnInput

-----------------------------------------------------------------------------
(* The session                                                             *)

LEMMA InitInv == Init => Inv
<1> SUFFICES ASSUME Init PROVE Inv
  OBVIOUS
<1>1. /\ slots = [i \in Slots |-> Free] /\ registered = FALSE /\ tmsi \in BOOLEAN
      /\ response = NoResponse /\ lacking = {} /\ own = Free
  BY DEF Init, RunnerInit, SessionInit
<1>2. phase = "None" /\ current = Free /\ phaseTimer = "off" /\ retransmit = Nothing /\ last = NoToken
  BY DEF Init, ChainInit
<1>3. Active = {}
  BY <1>1 DEF Active, ActiveIn
<1>4. RunnerInv
  BY <1>1, <1>3 DEF RunnerInv, OfType
<1>5. PhaseInv /\ CurrentInv /\ EvidenceInv
  BY <1>2 DEF PhaseInv, CurrentInv, EvidenceInv, ChainProcedure
<1>6. LastInv
  BY <1>2, NoTokenServed DEF LastInv
<1> QED
  BY <1>1, <1>2, <1>3, <1>4, <1>5, <1>6 DEF Inv, ContextInv, NoResponse, ChainInv, OwnInv

\* A driver that is not in use stays sound whatever happens to the context.
LEMMA UnusedRunner ==
  ASSUME RunnerInv, Active = {}, UNCHANGED runnerVars
  PROVE  RunnerInv' /\ Active' = {}
<1>1. UNCHANGED <<slots, registered, foreign>> /\ Active' = {}
  BY DEF runnerVars, Active, ActiveIn
<1> QED
  BY <1>1 DEF RunnerInv, OfType

LEMMA UnusedChain ==
  ASSUME ChainInv, phase = "None", last = NoToken, UNCHANGED orchestratorVars
  PROVE  ChainInv' /\ phase' = "None" /\ last' = NoToken
<1>1. UNCHANGED <<phase, current, phaseTimer, retransmit, last, shown>>
  BY DEF orchestratorVars, chainVars
<1>2. PhaseInv' /\ CurrentInv' /\ EvidenceInv'
  BY <1>1 DEF ChainInv, PhaseInv, CurrentInv, EvidenceInv, ChainProcedure
<1>3. LastInv'
  BY <1>1, NoTokenServed DEF LastInv
<1> QED
  BY <1>1, <1>2, <1>3 DEF ChainInv

LEMMA RunnerContext == ASSUME ContextInv, RunnerNext PROVE ContextInv'
<1>1. ASSUME NEW i, NEW r, NEW b, NEW c, NEW F, Stepped(i, r, b, c, F) PROVE ContextInv'
  BY <1>1, SetsContext DEF Stepped, ContextInv
<1>2. ASSUME UNCHANGED response PROVE ContextInv'
  BY <1>2 DEF ContextInv
<1> QED
  BY <1>1, <1>2 DEF RunnerNext, FeedActive, FeedNew, FeedIgnored, feedExternalTyped, tickAll,
     cancelAll, sessionVars

LEMMA NextInv == Inv /\ [Next]_vars => Inv'
<1> SUFFICES ASSUME Inv, [Next]_vars PROVE Inv'
  OBVIOUS
<1>1. CASE RunnerStep
  <2>1. user = "runner" /\ RunnerNext /\ UNCHANGED <<user, own, orchestratorVars>>
    BY <1>1 DEF RunnerStep
  <2>2. RunnerInv' /\ lacking' = {} /\ UNCHANGED tmsi
    BY <2>1, RunnerStepInv DEF Inv
  <2>3. ChainInv' /\ phase' = "None" /\ last' = NoToken
    BY <2>1, UnusedChain DEF Inv
  <2>4. own' = Free /\ ContextInv'
    BY <2>1, RunnerContext DEF Inv
  <2> QED
    BY <2>1, <2>2, <2>3, <2>4 DEF Inv, OwnInv
<1>2. CASE ChainStep \/ ChainTimeout \/ ChainTake
  <2>1. user = "orchestrator" /\ UNCHANGED <<user, own, tmsi, lacking, runnerVars>>
        /\ (ChainInput \/ ChainTick \/ takeRetransmissionToken)
    BY <1>2 DEF ChainStep, ChainTimeout, ChainTake
  <2>2. ChainInv' /\ ContextInv'
    BY <2>1, ChainStepInv DEF Inv
  <2>3. RunnerInv' /\ Active' = {}
    BY <2>1, UnusedRunner DEF Inv
  <2> QED
    BY <2>1, <2>2, <2>3 DEF Inv, OwnInv
<1>3. CASE OwnStep \/ OwnTick
  <2>1. user = "owner" /\ UNCHANGED <<user, runnerVars, orchestratorVars>> /\ (OwnInput \/ OwnTimeout)
    BY <1>3 DEF OwnStep, OwnTick
  <2>2. OwnInv' /\ lacking' = {} /\ ContextInv' /\ UNCHANGED tmsi
    BY <2>1, OwnStepInv DEF Inv
  <2>3. RunnerInv' /\ Active' = {}
    BY <2>1, UnusedRunner DEF Inv
  <2>4. ChainInv' /\ phase' = "None" /\ last' = NoToken
    BY <2>1, UnusedChain DEF Inv
  <2> QED
    BY <2>1, <2>2, <2>3, <2>4 DEF Inv
<1>4. CASE FallSilent \/ UNCHANGED vars
  <2>1. /\ UNCHANGED <<user, own, slots, registered, foreign, tmsi, response, lacking>>
        /\ UNCHANGED <<phase, current, phaseTimer, retransmit, last, shown>>
    BY <1>4 DEF FallSilent, vars, runnerVars, sessionVars, orchestratorVars, chainVars
  <2>2. RunnerInv' /\ Active' = Active
    BY <2>1 DEF Inv, RunnerInv, Active, ActiveIn, OfType
  <2>3. ChainInv'
    BY <2>1 DEF Inv, ChainInv, PhaseInv, CurrentInv, LastInv, EvidenceInv, ChainProcedure
  <2>4. OwnInv' /\ ContextInv'
    BY <2>1 DEF Inv, OwnInv, ContextInv
  <2> QED
    BY <2>1, <2>2, <2>3, <2>4 DEF Inv
<1> QED
  BY <1>1, <1>2, <1>3, <1>4 DEF Next

\* The inductive invariant holds throughout: every procedure of the session, in
\* a slot of the runner, in the orchestrator or with the application, is in a
\* state of its type and in agreement with the shared response context.
THEOREM InvAlways == Spec => []Inv
BY InitInv, NextInv, PTL DEF Spec

-----------------------------------------------------------------------------
(* What the runs check, for all constants                                  *)

\* At most four of the five types can be running at once.
LEMMA SlotIsFree == RunnerInv => Active # Slots
<1> SUFFICES ASSUME RunnerInv, Active = Slots PROVE FALSE
  OBVIOUS
<1>1. 1 \in Active /\ 2 \in Active /\ 3 \in Active /\ 4 \in Active /\ 5 \in Active
  BY SlotsAssumption DEF Slots
<1>2. \A i, j \in Active : slots[i].type = slots[j].type => i = j
  BY DEF RunnerInv
<1> DEFINE t(i) == slots[i].type
<1>3. /\ t(1) # t(2) /\ t(1) # t(3) /\ t(1) # t(4) /\ t(1) # t(5) /\ t(2) # t(3)
      /\ t(2) # t(4) /\ t(2) # t(5) /\ t(3) # t(4) /\ t(3) # t(5) /\ t(4) # t(5)
  BY <1>1, <1>2
<1>4. t(1) \in RunnerTypes /\ t(2) \in RunnerTypes /\ t(3) \in RunnerTypes
      /\ t(4) \in RunnerTypes /\ t(5) \in RunnerTypes
  BY <1>1 DEF RunnerInv
<1>5. /\ t(1) = "LocationUpdate" \/ t(2) = "LocationUpdate" \/ t(3) = "LocationUpdate"
           \/ t(4) = "LocationUpdate" \/ t(5) = "LocationUpdate"
      /\ t(1) = "IMSIDetach" \/ t(2) = "IMSIDetach" \/ t(3) = "IMSIDetach"
           \/ t(4) = "IMSIDetach" \/ t(5) = "IMSIDetach"
  BY <1>3, <1>4 DEF RunnerTypes
<1>6. OfType("LocationUpdate") # {} /\ OfType("IMSIDetach") # {}
  BY <1>1, <1>5 DEF OfType
<1> QED
  BY <1>6 DEF RunnerInv

\* A type names at most one running procedure, a location update never runs next
\* to an IMSI detach, and a new procedure always finds a slot (feed() and
\* feedExternalTyped() of procedure_runner.cpp).
THEOREM RoutingIsUnambiguous == Spec => []RoutingUnambiguous
<1>1. Inv => RoutingUnambiguous
  BY SlotIsFree DEF Inv, RunnerInv, RoutingUnambiguous
<1> QED
  BY <1>1, InvAlways, PTL

\* The registry ticks a session exactly while it has a running procedure, and
\* no finished procedure keeps its slot (cleanupSlotIfTerminal(), the observer).
THEOREM RunningIsTicked == Spec => []TickedWhileRunning
<1>1. Inv => TickedWhileRunning
  BY SoundGoesOn DEF Inv, RunnerInv, TickedWhileRunning
<1> QED
  BY <1>1, InvAlways, PTL

\* A token finds the parameters its message is built from, and they are its
\* procedure's own (buildResponseFromToken(), buildPendingResponse()).
THEOREM TokensFindParameters == Spec => []AnswerHasItsParameters
<1>1. Inv => AnswerHasItsParameters
  BY DEF Inv, ChainInv, LastInv, AnswerHasItsParameters
<1> QED
  BY <1>1, InvAlways, PTL

\* Nothing of a finished chain survives it (endChain(), stopPhaseTimer()).
THEOREM ChainsEndClean == Spec => []IdleIsClean
<1>1. ASSUME Inv PROVE IdleIsClean
  <2>1. phase = "None" => current = Free
    BY <1>1 DEF Inv, ChainInv, PhaseInv, ChainProcedure
  <2>2. current = Free \/ ~Terminal(current)
    BY <1>1, SoundGoesOn DEF Inv, ChainInv, CurrentInv
  <2> QED
    BY <1>1, <2>1, <2>2 DEF Inv, ChainInv, PhaseInv, IdleIsClean
<1> QED
  BY <1>1, InvAlways, PTL

\* Whoever drives it, a procedure that waits for an answer has its timer running
\* (startTimer() of the procedures).
THEOREM WaitingIsTimed == Spec => []WaitsAreTimed
<1>1. ASSUME Inv PROVE WaitsAreTimed
  <2>1. ASSUME NEW p \in Live PROVE Sound(p)
    BY <1>1, <2>1 DEF Inv, RunnerInv, ChainInv, CurrentInv, OwnInv, Live, Active, ActiveIn
  <2>2. ASSUME NEW p \in Live PROVE p.timer \/ p.state \in Untimed(p.type)
    BY <2>1 DEF Sound, TimedStates
  <2> QED
    BY <2>2 DEF WaitsAreTimed
<1> QED
  BY <1>1, InvAlways, PTL

\* Only the decision of the VLR registers a subscriber.
LEMMA OnlyDecisionRegisters ==
  ASSUME Inv, [Next]_vars, mm' = "REGISTERED", mm # "REGISTERED"
  PROVE  phase = "LocationUpdate"
<1>1. ASSUME NEW r, ProcedureStep(r) PROVE mm' # "REGISTERED" \/ mm' = mm
  BY <1>1 DEF ProcedureStep, onProcedureCompleted, fsmVars
<1>2. ASSUME NEW m \in Messages,
             \/ FeedServiceRequest(m) \/ FeedDetach(m) \/ FeedDisconnect(m) \/ FeedUnknown(m)
             \/ FeedIdentity(m)
      PROVE  mm' # "REGISTERED" \/ mm' = mm
  BY <1>2 DEF FeedServiceRequest, FeedDetach, FeedDisconnect, FeedUnknown, FeedIdentity, fsmVars
<1>3. ASSUME PhaseTimeout \/ ChainCancel \/ takeRetransmissionToken PROVE mm' = mm
  BY <1>3 DEF PhaseTimeout, ChainCancel, takeRetransmissionToken, fsmVars
<1>4. ASSUME UNCHANGED orchestratorVars PROVE mm' = mm
  BY <1>4 DEF orchestratorVars, fsmVars
<1>5. ASSUME NEW d \in ExternalData, ExternalDecision(d) PROVE phase = "LocationUpdate"
  BY <1>5 DEF ExternalDecision
<1>6. CASE ChainStep \/ ChainTimeout \/ ChainTake
  <2>1. ChainInput \/ ChainTick \/ takeRetransmissionToken
    BY <1>6 DEF ChainStep, ChainTimeout, ChainTake
  <2> QED
    BY <1>1, <1>2, <1>3, <1>5, <2>1 DEF ChainInput, ChainTick, FeedProcedure, ExternalProcedure,
       ProcedureTimeout
<1>7. CASE ~(ChainStep \/ ChainTimeout \/ ChainTake)
  <2>1. UNCHANGED orchestratorVars
    BY <1>7 DEF Next, vars, RunnerStep, OwnStep, OwnTick, FallSilent
  <2> QED
    BY <1>4, <2>1
<1> QED
  BY <1>6, <1>7

\* A subscriber is registered only at the end of a chain in which the mobile
\* answered this chain's challenge and completed ciphering
\* (onProcedureCompleted(), handleExternalDataLocationUpdate()).
THEOREM RegistrationIsChecked == Spec => RegisteredAfterChecks
<1> DEFINE A == mm' = "REGISTERED" /\ mm # "REGISTERED" =>
                  /\ phase = "LocationUpdate"
                  /\ response["rand"] \in shown
                  /\ "ciphered" \in shown
<1>1. Inv /\ [Next]_vars => [A]_<<mm, shown, phase, response>>
  BY OnlyDecisionRegisters DEF Inv, ChainInv, EvidenceInv
<1> HIDE DEF A
<1>2. Spec => [][A]_<<mm, shown, phase, response>>
  BY <1>1, InvAlways, PTL DEF Spec
<1> QED
  BY <1>2 DEF A, RegisteredAfterChecks
=============================================================================
