------------------------- MODULE AgentGrantsProofs -------------------------
(***************************************************************************)
(* The authorization server, for any persons, clients, requests and        *)
(* sessions: its tables are of their kinds, a withdrawn client holds no    *)
(* session Auth honours, refreshes that race leave with one pair, an       *)
(* authorization is approved once and on a click, no session is left       *)
(* behind, and the handlers implement the promise of GrantLedger.          *)
(***************************************************************************)
EXTENDS AgentGrants, TLAPS

Live(s) == sessions[s].state = "live"

\* The session is alive and has not got away from its record.
Ours(s) == Live(s) /\ s \notin astray

\* What is meant for the state after the step, of this state's session.
OursAfter(s) == sessions'[s].state = "live" /\ s \notin astray'

\* The session was opened for this person and this client.
Held(s, p, c) ==
    /\ s \in Sessions
    /\ sessions[s].state # "none"
    /\ sessions[s].person = p
    /\ sessions[s].client = c

\* ... and a withdrawal would find it.
Covered(s, p, c) == Held(s, p, c) /\ (Ours(s) => s \in kept)

AuthInv ==
    \A a \in Auths :
        /\ authz[a].expired => authz[a].status # "absent"
        /\ authz[a].status # "absent" =>
              authz[a].client \in Clients /\ authz[a].uri \in Addresses

GrantOK(g) ==
    /\ grants[g].phase = "absent" => grants[g] = NoGrant /\ g \notin sent
    /\ grants[g].phase # "absent" =>
          /\ grants[g].person \in Persons
          /\ grants[g].client \in Clients
          /\ Covered(grants[g].session, grants[g].person, grants[g].client)
          /\ Covered(grants[g].first, grants[g].person, grants[g].client)
          /\ grants[g].generation = 0 => grants[g].session = grants[g].first
    /\ g \in sent /\ (grants[g].phase = "live" \/ Ours(grants[g].first)) =>
          consent[grants[g].person][grants[g].client] # None

GrantsInv == \A g \in Grants : GrantOK(g)

CodesInv ==
    \A k \in codes : /\ grants[k.grant].phase # "absent"
                     /\ k.session = grants[k.grant].first

AnswerOK(t) ==
    LET g == t.grant IN
    /\ grants[g].phase # "absent"
    /\ g \in sent
    /\ t.generation <= grants[g].generation
    /\ t.generation = grants[g].generation => t.session = grants[g].session
    /\ t.generation = 0 => t.session = grants[g].first
    /\ Covered(t.session, grants[g].person, grants[g].client)
    /\ Ours(t.session) => consent[grants[g].person][grants[g].client] # None

AnswersInv == \A t \in answers : AnswerOK(t)

Approving == {"consent", "decide", "deny", "mint", "record", "print", "end",
              "insert", "code", "upsert"}
Opened == {"record", "print", "end", "insert", "code", "upsert"}
Refreshing == {"consented", "renew", "compare", "remint", "rerecord", "forget",
               "advance", "lose", "reread"}

ApprovalOK(r) ==
    LET q == req[r] IN
    /\ q.pc \in Approving =>
          /\ q.person \in Persons
          /\ q.auth \in Auths
          /\ authz[q.auth].status # "absent"
    /\ q.pc \in Opened => Held(q.session, q.person, authz[q.auth].client)
    /\ q.pc \in Opened \ {"record"} =>
          Covered(q.session, q.person, authz[q.auth].client)
    /\ q.pc \in {"code", "upsert"} =>
          /\ q.grant \in Grants
          /\ grants[q.grant].phase # "absent"
          /\ grants[q.grant].first = q.session
          /\ grants[q.grant].person = q.person
          /\ grants[q.grant].client = authz[q.auth].client

RefreshOK(r) ==
    LET q == req[r]
        G == grants[q.grant]
    IN
    /\ q.pc = "revoke" => q.grant \in Grants
    /\ q.pc \in Refreshing =>
          /\ q.grant \in Grants
          /\ q.grant \in sent
          /\ G.phase # "absent"
          /\ q.person = G.person
          /\ q.generation <= G.generation
          /\ Covered(q.old, G.person, G.client)
    /\ q.pc \in {"compare", "remint", "rerecord", "forget"} => ~Ours(q.old)
    /\ q.pc \in {"rerecord", "forget", "advance", "lose"} =>
          Held(q.session, G.person, G.client)
    /\ q.pc \in {"forget", "advance"} => Covered(q.session, G.person, G.client)
    /\ q.pc = "undo" => q.session \in Sessions

RequestsInv == \A r \in Requests : ApprovalOK(r) /\ RefreshOK(r)

GrantInv == /\ TypeOK
            /\ AuthInv
            /\ GrantsInv
            /\ CodesInv
            /\ AnswersInv
            /\ RequestsInv

Withdrawing == {"wgrants", "wsessions", "wrecords", "wcodes"}

\* The grant is one of those this withdrawal is about.
About(w, g) == grants[g].person = req[w].person /\ grants[g].client = req[w].client

\* No session this grant is known by is both alive and out of the withdrawal's
\* reach.
Reached(w, g) ==
    LET W == req[w].writes IN
    /\ Ours(grants[g].first) => grants[g].first \in W.sessions
    /\ grants[g].phase = "live" /\ Ours(grants[g].session) =>
          grants[g].session \in W.sessions

\* Between its statements a withdrawal that takes a consent back holds every
\* grant the client could use, then the sessions too; and what was recorded
\* since it ended the sessions has got away.
WithdrawalOK(w) ==
    LET W == req[w].writes IN
    /\ req[w].pc \in Withdrawing =>
          req[w].person \in Persons /\ req[w].client \in Clients
    /\ req[w].pc \in Withdrawing \ {"wgrants"} =>
          /\ \A g \in W.grants : grants[g].phase # "absent"
          /\ W.consent => \A g \in sent :
                About(w, g) /\ grants[g].phase = "live" => g \in W.grants
    /\ req[w].pc \in {"wrecords", "wcodes"} /\ W.consent =>
          /\ \A g \in sent : About(w, g) => Reached(w, g)
          /\ \A t \in answers : About(w, t.grant) /\ Ours(t.session) =>
                t.session \in W.sessions
    /\ req[w].pc = "wrecords" =>
          \A s \in kept : /\ sessions[s].person = req[w].person
                          /\ sessions[s].client = req[w].client
                          => s \in W.sessions \cup astray
    /\ req[w].pc = "wcodes" => W.records \subseteq W.sessions \cup astray

WithdrawalInv == \A w \in Requests : WithdrawalOK(w)

\* Only sessions that were opened are recorded.
KeptInv == \A s \in kept : sessions[s].state # "none"

-----------------------------------------------------------------------------
(* Types. *)

\* A request that is no withdrawal has written nothing.
LEMMA NoWritesType == NoWrites \in Writes
<1>1. FALSE \in BOOLEAN
  OBVIOUS
<1> QED BY <1>1 DEF NoWrites, Writes

\* A withdrawal after one more statement, and after the first.
Going(q, pc, W) == [q EXCEPT !.pc = pc, !.writes = W]
Begun(p, c, b) == [Idle EXCEPT !.pc = "wgrants", !.person = p, !.client = c,
                     !.writes.consent = b]

\* A withdrawal goes on with what it has written.
LEMMA WroteType ==
    ASSUME NEW q \in Request, NEW pc \in Withdrawing, NEW W \in Writes
    PROVE  /\ Going(q, pc, W) \in Request
           /\ Going(q, pc, W).pc = pc /\ Going(q, pc, W).writes = W
           /\ Going(q, pc, W).person = q.person
           /\ Going(q, pc, W).client = q.client
<1> DEFINE x == Going(q, pc, W)
<1> DEFINE y == [q EXCEPT !.pc = pc]
<1>1. y \in Request /\ y.pc = pc /\ y.person = q.person /\ y.client = q.client
  BY DEF Request, Withdrawing
<1>2. x = [y EXCEPT !.writes = W]
  BY DEF Going
<1> HIDE DEF x, y
<1>3. x \in Request /\ x.pc = pc /\ x.writes = W /\ x.person = q.person
      /\ x.client = q.client
  BY <1>1, <1>2 DEF Request
<1> QED BY <1>3 DEF x

\* It begins with a request that holds nothing else.
LEMMA FirstWroteType ==
    ASSUME NEW p \in Persons, NEW c \in Clients, NEW b \in BOOLEAN
    PROVE  Begun(p, c, b) \in Request /\ Begun(p, c, b).pc = "wgrants"
<1> DEFINE x == Begun(p, c, b)
           W == [NoWrites EXCEPT !.consent = b]
           y == [Idle EXCEPT !.pc = "wgrants", !.person = p, !.client = c]
<1>1. W \in Writes
  <2>1. NoWrites \in Writes
    BY NoWritesType
  <2> QED BY <2>1 DEF Writes
<1>2. Idle \in Request /\ Idle.writes = NoWrites
  BY NoWritesType DEF Idle, Request
<1>3. /\ y \in Request /\ y.writes = NoWrites
      /\ y.pc = "wgrants" /\ y.person = p /\ y.client = c
  BY <1>2 DEF Request
<1>4. x = [y EXCEPT !.writes = [@ EXCEPT !.consent = b]]
  BY DEF Begun
<1> HIDE DEF x, y
<1>5. x = [y EXCEPT !.writes = W]
  BY <1>3, <1>4
<1> HIDE DEF W
<1>6. x \in Request /\ x.pc = "wgrants"
  BY <1>1, <1>3, <1>5 DEF Request
<1> QED BY <1>6 DEF x

\* Init gives every table and every request its kind.
LEMMA InitType == Init => TypeOK
<1> SUFFICES ASSUME Init PROVE TypeOK
  OBVIOUS
<1>1. NoAuth \in AuthRow
  BY DEF NoAuth, AuthRow
<1>2. NoGrant \in GrantRow
  BY DEF NoGrant, GrantRow
<1>3. NoSession \in SessionRow
  BY DEF NoSession, SessionRow
<1>4. Idle \in Request
  BY NoWritesType DEF Idle, Request
<1>5. faulty \in BOOLEAN
  BY Zenon DEF Init
<1> QED BY <1>1, <1>2, <1>3, <1>4, <1>5 DEF Init, TypeOK

\* A request that answers holds nothing.
LEMMA AnsweredType ==
    ASSUME TypeOK, NEW r \in Requests, Answered(r)
    PROVE  req' \in [Requests -> Request]
BY NoWritesType DEF TypeOK, Answered, Idle, Request

\* A request goes on with what it holds.
LEMMA GoesType ==
    ASSUME TypeOK, NEW r \in Requests, NEW pc, Goes(r, pc),
           pc \in {"idle", "consent", "decide", "deny", "mint", "record",
                   "print", "end", "insert", "code", "upsert", "consented",
                   "revoke", "renew", "compare", "remint", "rerecord", "forget",
                   "advance", "lose", "reread", "undo"}
    PROVE  req' \in [Requests -> Request]
<1>1. ASSUME NEW q \in Request PROVE [q EXCEPT !.pc = pc] \in Request
  BY DEF Request
<1>2. req \in [Requests -> Request]
  BY DEF TypeOK
<1> QED BY <1>1, <1>2 DEF Goes

\* Ending grants or sessions keeps their rows.
LEMMA EndGrantsType ==
    ASSUME TypeOK, NEW G, EndGrants(G)
    PROVE  grants' \in [Grants -> GrantRow]
<1>1. ASSUME NEW row \in GrantRow
      PROVE  [row EXCEPT !.phase = "revoked"] \in GrantRow
  BY DEF GrantRow
<1> QED BY <1>1 DEF TypeOK, EndGrants

\* Ended sessions are still sessions.
LEMMA EndSessionsType ==
    ASSUME TypeOK, NEW S, EndSessions(S)
    PROVE  sessions' \in [Sessions -> SessionRow]
BY DEF TypeOK, EndSessions, SessionRow

\* What a fault or an event does to the two counters.
LEMMA EventType ==
    ASSUME TypeOK, Event \/ Fault \/ UNCHANGED eventVars,
           faulty' = faulty \/ faulty' = TRUE
    PROVE  faulty' \in BOOLEAN /\ events' \in Nat
<1>1. events' \in Nat
  BY DEF TypeOK, Event, Fault, eventVars
<1>2. faulty' \in BOOLEAN
  BY Zenon DEF TypeOK
<1> QED BY <1>1, <1>2

\* Binding an authorization starts a request on it.
LEMMA BindType ==
    ASSUME TypeOK, NEW r \in Requests, NEW p \in Persons, NEW a \in Auths,
           NEW then \in {"consent", "decide", "deny"}, Bind(r, p, a, then)
    PROVE  /\ authz' \in [Auths -> AuthRow]
           /\ req' \in [Requests -> Request]
<1>1. ASSUME NEW row \in AuthRow
      PROVE  [row EXCEPT !.user = p] \in AuthRow
  BY DEF AuthRow
<1>2. [Idle EXCEPT !.pc = then, !.person = p, !.auth = a] \in Request
  BY NoWritesType DEF Idle, Request
<1> QED BY <1>1, <1>2 DEF TypeOK, Bind

\* A minted session is one.
LEMMA MintType ==
    ASSUME TypeOK, NEW r \in Requests, NEW p \in Persons, NEW c \in Clients,
           NEW then \in {"record", "rerecord"}, MintSession(r, p, c, then)
    PROVE  /\ sessions' \in [Sessions -> SessionRow]
           /\ req' \in [Requests -> Request]
<1>1. CASE Answered(r) /\ UNCHANGED sessions
  BY <1>1, AnsweredType DEF TypeOK
<1>2. ASSUME NEW s \in Sessions,
             sessions' = [sessions EXCEPT ![s] =
                [state |-> "live", person |-> p, client |-> c]],
             req' = [req EXCEPT ![r].pc = then, ![r].session = s,
                                ![r].minted = TRUE]
      PROVE  /\ sessions' \in [Sessions -> SessionRow]
             /\ req' \in [Requests -> Request]
  <2>1. [state |-> "live", person |-> p, client |-> c]
            \in SessionRow
    BY DEF TypeOK, SessionRow
  <2>2. ASSUME NEW q \in Request
        PROVE  [q EXCEPT !.pc = then, !.session = s, !.minted = TRUE]
                   \in Request
    <3>1. TRUE \in BOOLEAN
      OBVIOUS
    <3> QED BY <3>1 DEF Request
  <2> QED BY <1>2, <2>1, <2>2 DEF TypeOK
<1> QED BY <1>1, <1>2 DEF MintSession
-----------------------------------------------------------------------------
(* What no step takes back. *)

\* Sessions keep their owner, are not opened again and, while alive and with
\* their record, not forgotten; grants keep theirs and never lose a generation; codes stay
\* sent and authorizations parked.
Stable ==
    /\ \A s \in Sessions : sessions[s].state # "none" =>
          /\ sessions'[s].state # "none"
          /\ sessions'[s].person = sessions[s].person
          /\ sessions'[s].client = sessions[s].client
          /\ OursAfter(s) => Ours(s)
          /\ OursAfter(s) /\ s \in kept => s \in kept'
    /\ \A g \in Grants : grants[g].phase # "absent" =>
          /\ grants'[g].phase # "absent"
          /\ grants'[g].person = grants[g].person
          /\ grants'[g].client = grants[g].client
          /\ grants'[g].first = grants[g].first
          /\ grants[g].generation <= grants'[g].generation
    /\ sent \subseteq sent' /\ astray \subseteq astray'
    /\ \A a \in Auths : authz[a].status # "absent" =>
          /\ authz'[a].status # "absent"
          /\ authz'[a].client = authz[a].client
          /\ authz'[a].uri = authz[a].uri

\* A session that was covered stays covered.
LEMMA CoveredStable ==
    ASSUME Stable, NEW s, NEW p, NEW c, Covered(s, p, c)
    PROVE  /\ s \in Sessions
           /\ sessions'[s].state # "none"
           /\ sessions'[s].person = p
           /\ sessions'[s].client = c
           /\ OursAfter(s) => s \in kept'
           /\ OursAfter(s) => Ours(s)
BY DEF Stable, Covered, Held, Ours, OursAfter, Live

\* A request that does not move keeps what it relies on.
LEMMA ApprovalStable ==
    ASSUME Stable, NEW r \in Requests, ApprovalOK(r), req'[r] = req[r]
    PROVE  ApprovalOK(r)'
<1>1. CASE req[r].pc \in Opened
  <2>1. Held(req[r].session, req[r].person, authz[req[r].auth].client)
    BY <1>1 DEF ApprovalOK
  <2> QED BY <1>1, <2>1 DEF ApprovalOK, Stable, Covered, Held, Ours, OursAfter, Live, Opened,
                            Approving
<1>2. CASE req[r].pc \notin Opened
  BY <1>2 DEF ApprovalOK, Stable, Ours, OursAfter, Live, Opened, Approving
<1> QED BY <1>1, <1>2

\* What a refresh holds stays right as tables move forward.
LEMMA RefreshStable ==
    ASSUME TypeOK, Stable, NEW r \in Requests, RefreshOK(r), req'[r] = req[r],
           grants' \in [Grants -> GrantRow]
    PROVE  RefreshOK(r)'
<1>1. CASE req[r].pc \in Refreshing
  <2> DEFINE q == req[r]
             G == grants[q.grant]
  <2>1. /\ q.grant \in Grants /\ q.grant \in sent /\ G.phase # "absent"
        /\ q.person = G.person /\ q.generation <= G.generation
        /\ Covered(q.old, G.person, G.client)
    BY <1>1 DEF RefreshOK
  <2>2. /\ grants'[q.grant].phase # "absent"
        /\ grants'[q.grant].person = G.person
        /\ grants'[q.grant].client = G.client
        /\ q.grant \in sent'
        /\ q.generation <= grants'[q.grant].generation
    <3>1. q.generation \in Nat /\ G.generation \in Nat
          /\ grants'[q.grant].generation \in Nat
      BY <2>1 DEF TypeOK, Request, GrantRow
    <3> QED BY <2>1, <3>1 DEF Stable, Ours, OursAfter, Live
  <2>3. Covered(q.old, G.person, G.client)'
    BY <2>1, <2>2, CoveredStable DEF Covered, Held, Ours, OursAfter, Live
  <2>4. /\ q.pc \in {"rerecord", "forget", "advance", "lose"} =>
              Held(q.session, G.person, G.client)'
        /\ q.pc \in {"forget", "advance"} =>
              Covered(q.session, G.person, G.client)'
    BY <2>1, <2>2 DEF RefreshOK, Stable, Covered, Held, Ours, OursAfter, Live
  <2>5. q.pc \in {"compare", "remint", "rerecord", "forget"} => ~Ours(q.old)'
    BY <2>1 DEF RefreshOK, Stable, Covered, Held, Ours, OursAfter, Live
  <2> QED BY <1>1, <2>1, <2>2, <2>3, <2>4, <2>5 DEF RefreshOK, Refreshing
<1>2. CASE req[r].pc \notin Refreshing
  BY <1>2 DEF RefreshOK, Refreshing
<1> QED BY <1>1, <1>2

\* While grants, codes, answers and consents stay, what holds of them stays.
LEMMA TablesStable ==
    ASSUME GrantInv, Stable, UNCHANGED grantVars, UNCHANGED consent
    PROVE  GrantsInv' /\ CodesInv' /\ AnswersInv'
<1> USE DEF grantVars
<1>1. GrantsInv'
  <2> SUFFICES ASSUME NEW g \in Grants PROVE GrantOK(g)'
    BY DEF GrantsInv
  <2>1. GrantOK(g)
    BY DEF GrantInv, GrantsInv
  <2>2. CASE grants[g].phase = "absent"
    BY <2>1, <2>2 DEF GrantOK
  <2>3. CASE grants[g].phase # "absent"
    BY <2>1, <2>3 DEF GrantOK, Stable, Covered, Held, Ours, OursAfter, Live
  <2> QED BY <2>2, <2>3
<1>2. CodesInv'
  BY DEF GrantInv, CodesInv
<1>3. AnswersInv'
  <2> SUFFICES ASSUME NEW t \in answers PROVE AnswerOK(t)'
    BY DEF AnswersInv
  <2>1. AnswerOK(t)
    BY DEF GrantInv, AnswersInv
  <2> QED BY <2>1 DEF AnswerOK, Stable, Covered, Held, Ours, OursAfter, Live
<1> QED BY <1>1, <1>2, <1>3

\* A step of one request: the others keep what they rely on.
LEMMA OneMoves ==
    ASSUME GrantInv, Stable, TypeOK', NEW r \in Requests,
           \A x \in Requests : x # r => req'[x] = req[x],
           ApprovalOK(r)', RefreshOK(r)'
    PROVE  RequestsInv'
<1> SUFFICES ASSUME NEW x \in Requests, x # r
             PROVE  ApprovalOK(x)' /\ RefreshOK(x)'
  BY DEF RequestsInv
<1>1. ApprovalOK(x) /\ RefreshOK(x) /\ TypeOK
  BY DEF GrantInv, RequestsInv
<1>2. grants' \in [Grants -> GrantRow]
  BY DEF TypeOK
<1> QED BY <1>1, <1>2, ApprovalStable, RefreshStable

\* Requests that do not move stay right as the tables move forward.
LEMMA NoneMoves ==
    ASSUME GrantInv, Stable, TypeOK', UNCHANGED req
    PROVE  RequestsInv'
<1> SUFFICES ASSUME NEW x \in Requests
             PROVE  ApprovalOK(x)' /\ RefreshOK(x)'
  BY DEF RequestsInv
<1>1. ApprovalOK(x) /\ RefreshOK(x) /\ TypeOK
  BY DEF GrantInv, RequestsInv
<1>2. grants' \in [Grants -> GrantRow]
  BY DEF TypeOK
<1> QED BY <1>1, <1>2, ApprovalStable, RefreshStable

\* Answered requests rely on nothing.
LEMMA AnsweredOK ==
    ASSUME TypeOK, NEW r \in Requests, Answered(r)
    PROVE  /\ ApprovalOK(r)' /\ RefreshOK(r)'
           /\ \A x \in Requests : x # r => req'[x] = req[x]
BY DEF TypeOK, Answered, Idle, ApprovalOK, RefreshOK, Approving, Opened,
       Refreshing

\* A step that touches no table is stable.
LEMMA StutterStable ==
    ASSUME TypeOK, UNCHANGED <<consentVars, grantVars, sessionVars>>
    PROVE  Stable
BY DEF TypeOK, GrantRow, Stable, Ours, OursAfter, Live, consentVars, grantVars, sessionVars, recordVars
-----------------------------------------------------------------------------
(* Steps that only move their request. *)

\* What such a step has to show: the request's kind, and what it relies on.
LEMMA ReadStep ==
    ASSUME GrantInv, NEW r \in Requests,
           UNCHANGED <<consentVars, grantVars, sessionVars>>,
           faulty' \in BOOLEAN, events' \in Nat,
           req' \in [Requests -> Request],
           \A x \in Requests : x # r => req'[x] = req[x],
           ApprovalOK(r)', RefreshOK(r)'
    PROVE  GrantInv' /\ Stable
<1>1. TypeOK /\ AuthInv
  BY DEF GrantInv
<1>2. TypeOK'
  BY <1>1 DEF TypeOK, consentVars, grantVars, sessionVars, recordVars
<1>3. Stable
  BY <1>1, StutterStable
<1>4. RequestsInv'
  BY <1>2, <1>3, OneMoves
<1>5. AuthInv'
  BY <1>1 DEF AuthInv, consentVars
<1> QED BY <1>2, <1>3, <1>4, <1>5, TablesStable DEF GrantInv, consentVars

\* A step that leaves grants and consents alone.
LEMMA StoreStep ==
    ASSUME GrantInv, TypeOK', Stable, AuthInv', RequestsInv',
           UNCHANGED grantVars, UNCHANGED consent
    PROVE  GrantInv' /\ Stable
BY TablesStable DEF GrantInv

\* The details are shown, or a consent that covers them goes on to approve.
LEMMA FindConsentStep ==
    ASSUME GrantInv, NEW r \in Requests, FindConsent(r)
    PROVE  GrantInv' /\ Stable
<1>1. TypeOK /\ ApprovalOK(r) /\ RefreshOK(r)
  BY DEF GrantInv, RequestsInv
<1>2. faulty' \in BOOLEAN /\ events' \in Nat
  BY <1>1, EventType DEF FindConsent, eventVars
<1>3. CASE Answered(r)
  BY <1>1, <1>2, <1>3, AnsweredType, AnsweredOK, ReadStep DEF FindConsent
<1>4. CASE Goes(r, "decide")
  <2>1. /\ ApprovalOK(r)' /\ RefreshOK(r)'
        /\ \A x \in Requests : x # r => req'[x] = req[x]
    BY <1>1, <1>4 DEF FindConsent, Goes, TypeOK, ApprovalOK, RefreshOK,
       Approving, Opened, Refreshing, consentVars
  <2> QED BY <1>1, <1>2, <1>4, <2>1, GoesType, ReadStep DEF FindConsent
<1> QED BY <1>3, <1>4 DEF FindConsent

\* The fingerprint is read and held.
LEMMA CredentialsFingerprintStep ==
    ASSUME GrantInv, NEW r \in Requests, CredentialsFingerprint(r)
    PROVE  GrantInv' /\ Stable
<1>1. TypeOK /\ ApprovalOK(r) /\ RefreshOK(r)
  BY DEF GrantInv, RequestsInv
<1>2. faulty' \in BOOLEAN /\ events' \in Nat
  BY <1>1, EventType DEF CredentialsFingerprint, eventVars
<1>3. prints[req[r].person] \in Nat
  BY <1>1 DEF CredentialsFingerprint, ApprovalOK, Approving, TypeOK
<1>4. req' \in [Requests -> Request]
  <2>1. ASSUME NEW q \in Request, NEW n \in Nat
        PROVE  [q EXCEPT !.pc = "end", !.print = n] \in Request
    BY DEF Request
  <2> QED BY <1>1, <1>3, <2>1 DEF CredentialsFingerprint, TypeOK
<1>5. /\ ApprovalOK(r)' /\ RefreshOK(r)'
      /\ \A x \in Requests : x # r => req'[x] = req[x]
  BY <1>1 DEF CredentialsFingerprint, TypeOK, ApprovalOK, RefreshOK, Approving,
     Opened, Refreshing, Covered, Held, Ours, OursAfter, Live, consentVars, grantVars,
     sessionVars, recordVars, Request
<1> QED BY <1>2, <1>4, <1>5, ReadStep DEF CredentialsFingerprint

\* A token reused outside the window is going to end its grant.
LEMMA RefreshReusedStep ==
    ASSUME GrantInv, NEW r \in Requests, NEW g \in Grants, NEW n \in Nat,
           RefreshReused(r, g, n)
    PROVE  GrantInv' /\ Stable
<1>1. TypeOK
  BY DEF GrantInv
<1>2. faulty' \in BOOLEAN /\ events' \in Nat
  BY <1>1, EventType DEF RefreshReused, eventVars
<1>3. [Idle EXCEPT !.pc = "revoke", !.grant = g] \in Request
  BY NoWritesType DEF Idle, Request
<1>4. req' \in [Requests -> Request]
  BY <1>1, <1>3 DEF RefreshReused, TypeOK
<1>5. /\ ApprovalOK(r)' /\ RefreshOK(r)'
      /\ \A x \in Requests : x # r => req'[x] = req[x]
  BY <1>1 DEF RefreshReused, TypeOK, ApprovalOK, RefreshOK, Approving, Opened,
     Refreshing, Idle
<1> QED BY <1>2, <1>4, <1>5, ReadStep DEF RefreshReused

\* The refresh starts from a token the client was given, so the grant's code
\* was sent.
LEMMA RefreshCurrentStep ==
    ASSUME GrantInv, NEW r \in Requests, NEW g \in Grants, NEW n \in Nat,
           RefreshCurrent(r, g, n), g \in sent
    PROVE  GrantInv' /\ Stable
<1>1. TypeOK /\ GrantOK(g)
  BY DEF GrantInv, GrantsInv
<1>2. faulty' \in BOOLEAN /\ events' \in Nat
  BY <1>1, EventType DEF RefreshCurrent, eventVars
<1>3. /\ grants[g].person \in Persons
      /\ grants[g].print \in Nat
      /\ Covered(grants[g].session, grants[g].person, grants[g].client)
  BY <1>1 DEF RefreshCurrent, GrantOK, TypeOK, GrantRow
<1> DEFINE q == [Idle EXCEPT !.pc = "consented", !.person = grants[g].person,
                   !.grant = g, !.generation = n, !.old = grants[g].session,
                   !.print = grants[g].print]
<1>4. q \in Request
  BY <1>3, NoWritesType DEF Idle, Request, Covered, Held
<1>5. req' = [req EXCEPT ![r] = q]
  BY DEF RefreshCurrent
<1>6. req' \in [Requests -> Request]
  BY <1>1, <1>4, <1>5 DEF TypeOK
<1>7. q.pc = "consented" /\ q.person = grants[g].person /\ q.grant = g
      /\ q.generation = n /\ q.old = grants[g].session
  BY DEF Idle
<1>8. req'[r] = q /\ \A x \in Requests : x # r => req'[x] = req[x]
  BY <1>1, <1>5 DEF TypeOK
<1>9. ApprovalOK(r)'
  BY <1>7, <1>8 DEF ApprovalOK, Approving, Opened
<1>10. RefreshOK(r)'
  <2> HIDE DEF q
  <2>1. n = grants[g].generation /\ grants[g].phase = "live"
    BY DEF RefreshCurrent
  <2> QED BY <1>3, <1>7, <1>8, <2>1 DEF RefreshCurrent, RefreshOK, Refreshing,
             Covered, Held, Ours, OursAfter, Live, grantVars, sessionVars, recordVars
<1> QED BY <1>2, <1>6, <1>8, <1>9, <1>10, ReadStep DEF RefreshCurrent

\* The consent is read again before the session is renewed.
LEMMA StillConsentedStep ==
    ASSUME GrantInv, NEW r \in Requests, StillConsented(r)
    PROVE  GrantInv' /\ Stable
<1>1. TypeOK /\ ApprovalOK(r) /\ RefreshOK(r)
  BY DEF GrantInv, RequestsInv
<1>2. faulty' \in BOOLEAN /\ events' \in Nat
  BY <1>1, EventType DEF StillConsented, eventVars
<1>3. PICK pc \in {"renew", "revoke"} : Goes(r, pc)
  BY DEF StillConsented
<1>4. /\ ApprovalOK(r)' /\ RefreshOK(r)'
      /\ \A x \in Requests : x # r => req'[x] = req[x]
  <2> DEFINE q == req[r]
  <2>1. /\ req'[r].person = q.person /\ req'[r].pc = pc
        /\ req'[r].grant = q.grant /\ req'[r].old = q.old
        /\ req'[r].generation = q.generation /\ req'[r].session = q.session
        /\ \A x \in Requests : x # r => req'[x] = req[x]
    BY <1>1, <1>3 DEF Goes, TypeOK, Request
  <2>2. UNCHANGED <<grants, sent, sessions, kept, astray, authz>>
    BY DEF StillConsented, grantVars, sessionVars, recordVars, consentVars
  <2>3. q.pc = "consented"
    BY DEF StillConsented
  <2> QED BY <1>1, <1>3, <2>1, <2>2, <2>3 DEF ApprovalOK, RefreshOK,
             Approving, Opened, Refreshing, Covered, Held, Ours, OursAfter, Live
<1> QED BY <1>1, <1>2, <1>3, <1>4, GoesType, ReadStep DEF StillConsented

\* The session is renewed, or Auth says that it is gone, be it true or not.
LEMMA RefreshSessionStep ==
    ASSUME GrantInv, NEW r \in Requests, RefreshSession(r)
    PROVE  GrantInv' /\ Stable
<1>1. TypeOK /\ AuthInv /\ ApprovalOK(r) /\ RefreshOK(r)
  BY DEF GrantInv, RequestsInv
<1>2. CASE UNCHANGED <<astray, eventVars>> /\ Answered(r)
  <2>1. faulty' \in BOOLEAN /\ events' \in Nat
    BY <1>1, <1>2, EventType DEF eventVars
  <2> QED BY <1>1, <1>2, <2>1, AnsweredType, AnsweredOK, ReadStep
          DEF RefreshSession, sessionVars, recordVars
<1>3. CASE /\ UNCHANGED <<astray, eventVars>>
           /\ sessions[req[r].old].state # "live" /\ Goes(r, "compare")
  <2>1. /\ ApprovalOK(r)' /\ RefreshOK(r)'
        /\ \A x \in Requests : x # r => req'[x] = req[x]
    BY <1>1, <1>3 DEF RefreshSession, Goes, TypeOK, Request, ApprovalOK,
       RefreshOK, Approving, Opened, Refreshing, Covered, Held, Ours, Live,
       grantVars
  <2>2. faulty' \in BOOLEAN /\ events' \in Nat
    BY <1>1, <1>3, EventType DEF eventVars
  <2> QED BY <1>1, <1>3, <2>1, <2>2, GoesType, ReadStep
          DEF RefreshSession, sessionVars, recordVars
<1>4. CASE /\ UNCHANGED <<astray, eventVars>>
           /\ req' = [req EXCEPT ![r].pc = "advance", ![r].session = req[r].old]
  <2>1. Covered(req[r].old, grants[req[r].grant].person,
                grants[req[r].grant].client)
    BY <1>1 DEF RefreshSession, RefreshOK, Refreshing
  <2>2. req' \in [Requests -> Request]
    <3>1. ASSUME NEW q \in Request, NEW s \in Sessions
          PROVE  [q EXCEPT !.pc = "advance", !.session = s] \in Request
      BY DEF Request
    <3> QED BY <1>1, <1>4, <2>1, <3>1 DEF TypeOK, Covered, Held
  <2>3. /\ ApprovalOK(r)' /\ RefreshOK(r)'
        /\ \A x \in Requests : x # r => req'[x] = req[x]
    BY <1>1, <1>4, <2>1 DEF RefreshSession, TypeOK, Request, ApprovalOK,
       RefreshOK, Approving, Opened, Refreshing, Covered, Held, Ours, Live,
       grantVars
  <2>4. faulty' \in BOOLEAN /\ events' \in Nat
    BY <1>1, <1>4, EventType DEF eventVars
  <2> QED BY <1>4, <2>2, <2>3, <2>4, ReadStep
          DEF RefreshSession, sessionVars, recordVars
<1>5. CASE /\ Fault /\ astray' = astray \cup {req[r].old}
           /\ Goes(r, "compare")
  <2>1. faulty' \in BOOLEAN /\ events' \in Nat
    BY <1>1, <1>5, EventType DEF Fault
  <2>2. Covered(req[r].old, grants[req[r].grant].person,
                grants[req[r].grant].client)
    BY <1>1 DEF RefreshSession, RefreshOK, Refreshing
  <2>3. UNCHANGED <<consentVars, grantVars, kept, sessions, prints>>
    BY DEF RefreshSession
  <2>4. Stable
    BY <1>1, <1>5, <2>3 DEF Stable, TypeOK, GrantRow, OursAfter, Ours, Live,
       consentVars, grantVars
  <2>5. TypeOK'
    BY <1>1, <1>5, <2>1, <2>2, <2>3, GoesType DEF TypeOK, Covered, Held,
       consentVars, grantVars
  <2>6. AuthInv'
    BY <1>1, <2>3 DEF AuthInv, consentVars
  <2>7. /\ ApprovalOK(r)' /\ RefreshOK(r)'
        /\ \A x \in Requests : x # r => req'[x] = req[x]
    BY <1>1, <1>5, <2>3 DEF RefreshSession, Goes, TypeOK, Request, ApprovalOK,
       RefreshOK, Approving, Opened, Refreshing, Covered, Held, Ours, Live,
       grantVars
  <2>8. RequestsInv'
    BY <2>4, <2>5, <2>7, OneMoves
  <2> QED BY <2>3, <2>4, <2>5, <2>6, <2>8, StoreStep DEF consentVars
<1> QED BY <1>2, <1>3, <1>4, <1>5 DEF RefreshSession

\* A session that is gone is minted again only for the same credentials.
LEMMA CompareFingerprintStep ==
    ASSUME GrantInv, NEW r \in Requests, CompareFingerprint(r)
    PROVE  GrantInv' /\ Stable
<1>1. TypeOK /\ ApprovalOK(r) /\ RefreshOK(r)
  BY DEF GrantInv, RequestsInv
<1>2. faulty' \in BOOLEAN /\ events' \in Nat
  BY <1>1, EventType DEF CompareFingerprint, eventVars
<1>3. PICK pc \in {"remint", "revoke"} : Goes(r, pc)
  BY DEF CompareFingerprint
<1>4. /\ ApprovalOK(r)' /\ RefreshOK(r)'
      /\ \A x \in Requests : x # r => req'[x] = req[x]
  BY <1>1, <1>3 DEF CompareFingerprint, Goes, TypeOK, Request, ApprovalOK,
     RefreshOK, Approving, Opened, Refreshing, Covered, Held, Ours, OursAfter, Live, grantVars,
     sessionVars, recordVars
<1> QED BY <1>1, <1>2, <1>3, <1>4, GoesType, ReadStep DEF CompareFingerprint

\* A failed call inside a try block leads to its cleanup.
LEMMA ThrowStep ==
    ASSUME GrantInv, NEW r \in Requests, Throw(r)
    PROVE  GrantInv' /\ Stable
<1>1. TypeOK /\ ApprovalOK(r) /\ RefreshOK(r)
  BY DEF GrantInv, RequestsInv
<1>2. faulty' \in BOOLEAN /\ events' \in Nat
  BY <1>1, EventType DEF Throw, Fault
<1>3. req[r].session \in Sessions
  BY <1>1 DEF Throw, Guarded, ApprovalOK, RefreshOK, Opened, Held, Covered
<1>4. /\ ApprovalOK(r)' /\ RefreshOK(r)'
      /\ \A x \in Requests : x # r => req'[x] = req[x]
  BY <1>1, <1>3 DEF Throw, Goes, TypeOK, Request, ApprovalOK, RefreshOK,
     Approving, Opened, Refreshing
<1> QED BY <1>1, <1>2, <1>4, GoesType, ReadStep DEF Throw

\* A process that ends leaves the tables as they are.
LEMMA CrashStep ==
    ASSUME GrantInv, NEW r \in Requests, Crash(r)
    PROVE  GrantInv' /\ Stable
<1>1. TypeOK
  BY DEF GrantInv
<1>2. faulty' \in BOOLEAN /\ events' \in Nat
  BY <1>1, EventType DEF Crash, Fault
<1> QED BY <1>1, <1>2, AnsweredType, AnsweredOK, ReadStep DEF Crash
-----------------------------------------------------------------------------
(* Steps on authorizations, on sessions and on their records. *)

\* A new authorization is stored.
LEMMA HandleAuthorizeStartStep ==
    ASSUME GrantInv, NEW a \in Auths, NEW c \in Clients, NEW u \in Addresses,
           HandleAuthorizeStart(a, c, u)
    PROVE  GrantInv' /\ Stable
<1>1. TypeOK /\ AuthInv
  BY DEF GrantInv
<1> DEFINE row == [NoAuth EXCEPT !.status = "pending", !.client = c, !.uri = u]
<1>2. /\ row \in AuthRow /\ row.client = c /\ row.uri = u
      /\ row.status = "pending"
  BY DEF NoAuth, AuthRow
<1>3. authz' = [authz EXCEPT ![a] = row] /\ authz[a].status = "absent"
  BY DEF HandleAuthorizeStart
<1> HIDE DEF row
<1>4. TypeOK'
  BY <1>1, <1>2, <1>3 DEF HandleAuthorizeStart, TypeOK, grantVars, sessionVars, recordVars,
     eventVars
<1>5. Stable
  BY <1>1, <1>3 DEF HandleAuthorizeStart, Stable, Ours, OursAfter, Live, TypeOK, GrantRow, grantVars,
     sessionVars, recordVars
<1>6. AuthInv'
  BY <1>1, <1>2, <1>3 DEF AuthInv, TypeOK
<1>7. RequestsInv'
  BY <1>4, <1>5, NoneMoves DEF HandleAuthorizeStart
<1> QED BY <1>4, <1>5, <1>6, <1>7, StoreStep DEF HandleAuthorizeStart

\* An authorization gets too old.
LEMMA AuthorizationExpiresStep ==
    ASSUME GrantInv, NEW a \in Auths, AuthorizationExpires(a)
    PROVE  GrantInv' /\ Stable
<1>1. TypeOK /\ AuthInv
  BY DEF GrantInv
<1>2. faulty' \in BOOLEAN /\ events' \in Nat
  BY <1>1, EventType DEF AuthorizationExpires
<1>3. ASSUME NEW row \in AuthRow
      PROVE  [row EXCEPT !.expired = TRUE] \in AuthRow
  <2>1. TRUE \in BOOLEAN
    OBVIOUS
  <2> QED BY <2>1 DEF AuthRow
<1>4. authz' \in [Auths -> AuthRow]
  BY <1>1, <1>3 DEF AuthorizationExpires, TypeOK
<1>5. TypeOK'
  BY <1>1, <1>2, <1>4 DEF AuthorizationExpires, TypeOK, grantVars, sessionVars, recordVars
<1>6. Stable
  BY <1>1 DEF AuthorizationExpires, Stable, Ours, OursAfter, Live, TypeOK, AuthRow, GrantRow, grantVars,
     sessionVars, recordVars
<1>7. AuthInv'
  BY <1>1 DEF AuthorizationExpires, AuthInv, TypeOK, AuthRow
<1>8. RequestsInv'
  BY <1>5, <1>6, NoneMoves DEF AuthorizationExpires
<1> QED BY <1>5, <1>6, <1>7, <1>8, StoreStep DEF AuthorizationExpires

\* Authorizations that got too old are deleted.
LEMMA DeleteExpiredStep ==
    ASSUME GrantInv, DeleteExpiredAuthorizations
    PROVE  GrantInv' /\ Stable
<1>1. TypeOK /\ AuthInv
  BY DEF GrantInv
<1>2. ASSUME NEW row \in AuthRow
      PROVE  [row EXCEPT !.status = "gone"] \in AuthRow
  BY DEF AuthRow
<1>3. TypeOK'
  BY <1>1, <1>2 DEF DeleteExpiredAuthorizations, TypeOK, grantVars, sessionVars, recordVars,
     eventVars
<1>4. Stable
  BY <1>1 DEF DeleteExpiredAuthorizations, Stable, Ours, OursAfter, Live, TypeOK, AuthRow, GrantRow,
     grantVars, sessionVars, recordVars
<1>5. AuthInv'
  BY <1>1 DEF DeleteExpiredAuthorizations, AuthInv, TypeOK, AuthRow
<1>6. RequestsInv'
  BY <1>3, <1>4, NoneMoves DEF DeleteExpiredAuthorizations
<1> QED BY <1>3, <1>4, <1>5, <1>6, StoreStep DEF DeleteExpiredAuthorizations

\* Reading or deciding binds the request; nothing else of it changes.
LEMMA BindStep ==
    ASSUME GrantInv, NEW r \in Requests, NEW p \in Persons, NEW a \in Auths,
           NEW then \in {"consent", "decide", "deny"}, Bind(r, p, a, then),
           clicked' \subseteq Persons \X Clients \X Addresses,
           UNCHANGED <<consent, grantVars, sessionVars, eventVars>>
    PROVE  GrantInv' /\ Stable
<1>1. TypeOK /\ AuthInv
  BY DEF GrantInv
<1>2. TypeOK'
  BY <1>1, BindType DEF TypeOK, grantVars, sessionVars, recordVars, eventVars
<1>3. authz' = [authz EXCEPT ![a].user = p] /\ authz[a].status = "pending"
  BY DEF Bind, BindAuthorization
<1>4. Stable
  BY <1>1, <1>3 DEF Stable, Ours, OursAfter, Live, TypeOK, AuthRow, GrantRow, grantVars, sessionVars, recordVars
<1>5. AuthInv'
  BY <1>1, <1>3 DEF AuthInv, TypeOK, AuthRow
<1>6. /\ ApprovalOK(r)' /\ RefreshOK(r)'
      /\ \A x \in Requests : x # r => req'[x] = req[x]
  <2> DEFINE q == [Idle EXCEPT !.pc = then, !.person = p, !.auth = a]
  <2>1. q.pc = then /\ q.person = p /\ q.auth = a
    BY DEF Idle
  <2>2. req'[r] = q /\ \A x \in Requests : x # r => req'[x] = req[x]
    BY <1>1 DEF Bind, TypeOK
  <2>3. authz'[a].status # "absent"
    BY <1>1, <1>3 DEF TypeOK, AuthRow
  <2> HIDE DEF q
  <2> QED BY <2>1, <2>2, <2>3 DEF ApprovalOK, RefreshOK, Approving, Opened,
             Refreshing
<1>7. RequestsInv'
  BY <1>2, <1>4, <1>6, OneMoves
<1> QED BY <1>2, <1>4, <1>5, <1>7, StoreStep

\* Reading an authorization binds it to its reader.
LEMMA HandleAuthorizationReadStep ==
    ASSUME GrantInv, NEW r \in Requests, NEW p \in Persons, NEW a \in Auths,
           HandleAuthorizationRead(r, p, a)
    PROVE  GrantInv' /\ Stable
<1>1. clicked' \subseteq Persons \X Clients \X Addresses
  BY DEF GrantInv, TypeOK, HandleAuthorizationRead
<1> QED BY <1>1, BindStep DEF HandleAuthorizationRead

\* The person answers the prompt.
LEMMA HandleConsentDecisionStep ==
    ASSUME GrantInv, NEW r \in Requests, NEW p \in Persons, NEW a \in Auths,
           HandleConsentDecision(r, p, a)
    PROVE  GrantInv' /\ Stable
<1>1. clicked \subseteq Persons \X Clients \X Addresses
  BY DEF GrantInv, TypeOK
<1>2. CASE Bind(r, p, a, "deny") /\ UNCHANGED clicked
  BY <1>1, <1>2, BindStep DEF HandleConsentDecision
<1>3. CASE /\ Bind(r, p, a, "decide")
           /\ clicked' = clicked \cup {<<p, authz[a].client, authz[a].uri>>}
  <2>1. authz[a].client \in Clients /\ authz[a].uri \in Addresses
    BY <1>3 DEF GrantInv, AuthInv, Bind, BindAuthorization
  <2>2. clicked' \subseteq Persons \X Clients \X Addresses
    BY <1>1, <1>3, <2>1
  <2> QED BY <1>3, <2>2, BindStep DEF HandleConsentDecision
<1> QED BY <1>2, <1>3 DEF HandleConsentDecision

\* A pending authorization is decided once.
LEMMA DecideAuthorizationStep ==
    ASSUME GrantInv, NEW r \in Requests, DecideAuthorization(r)
    PROVE  GrantInv' /\ Stable
<1>1. TypeOK /\ AuthInv /\ ApprovalOK(r) /\ RefreshOK(r)
  BY DEF GrantInv, RequestsInv
<1>2. req[r].auth \in Auths /\ req[r].person \in Persons
      /\ authz[req[r].auth].status # "absent"
  BY <1>1 DEF DecideAuthorization, ApprovalOK, Approving
<1>3. PICK st \in {"pending", "approved", "denied", "gone"} :
          authz' = [authz EXCEPT ![req[r].auth].status = st]
  <2>1. authz[req[r].auth].status \in {"pending", "approved", "denied", "gone"}
    BY <1>1, <1>2 DEF TypeOK, AuthRow
  <2>2. CASE CanDecide(r)
    BY <2>2 DEF DecideAuthorization
  <2>3. CASE ~CanDecide(r)
    <3>1. UNCHANGED authz
      BY <2>3 DEF DecideAuthorization
    <3>2. authz = [authz EXCEPT ![req[r].auth].status =
                                   authz[req[r].auth].status]
      BY <1>1, <1>2 DEF TypeOK, AuthRow
    <3> QED BY <2>1, <3>1, <3>2
  <2> QED BY <2>2, <2>3
<1>4. ASSUME NEW row \in AuthRow
      PROVE  [row EXCEPT !.status = st] \in AuthRow
  BY DEF AuthRow
<1>5. authz' \in [Auths -> AuthRow]
  BY <1>1, <1>3, <1>4 DEF TypeOK
<1>7. Stable
  BY <1>1, <1>3 DEF DecideAuthorization, Stable, Ours, OursAfter, Live, TypeOK, AuthRow, GrantRow,
     grantVars, sessionVars, recordVars
<1>8. AuthInv'
  BY <1>1, <1>2, <1>3 DEF AuthInv, TypeOK, AuthRow
<1>9. /\ req' \in [Requests -> Request]
      /\ ApprovalOK(r)' /\ RefreshOK(r)'
      /\ \A x \in Requests : x # r => req'[x] = req[x]
  <2>1. CASE Answered(r)
    BY <1>1, <2>1, AnsweredOK, AnsweredType
  <2>2. CASE Goes(r, "mint")
    <3>1. req' \in [Requests -> Request]
      BY <1>1, <2>2, GoesType
    <3>2. authz'[req[r].auth].status # "absent"
      BY <1>2, <1>7 DEF Stable, Ours, OursAfter, Live
    <3> QED BY <1>1, <1>2, <2>2, <3>1, <3>2 DEF Goes, TypeOK, Request,
               ApprovalOK, RefreshOK, Approving, Opened, Refreshing
  <2> QED BY <2>1, <2>2 DEF DecideAuthorization
<1>10. TypeOK'
  BY <1>1, <1>5, <1>9 DEF DecideAuthorization, TypeOK, grantVars, sessionVars, recordVars,
     eventVars
<1>11. RequestsInv'
  BY <1>7, <1>9, <1>10, OneMoves
<1> QED BY <1>7, <1>8, <1>10, <1>11, StoreStep DEF DecideAuthorization
\* Ending sessions opens none and keeps their owners.
LEMMA EndSessionsStable ==
    ASSUME TypeOK, NEW S, EndSessions(S),
           UNCHANGED <<authz, grants, sent, kept, astray>>
    PROVE  Stable
BY DEF EndSessions, Stable, Ours, OursAfter, Live, TypeOK, SessionRow, GrantRow

\* Opening a session takes an id nobody holds.
LEMMA MintStable ==
    ASSUME TypeOK, NEW r, NEW p, NEW c, NEW then, MintSession(r, p, c, then),
           UNCHANGED <<authz, grants, sent, kept, astray>>
    PROVE  Stable
<1>1. CASE UNCHANGED sessions
  BY <1>1 DEF Stable, Ours, OursAfter, Live, TypeOK, GrantRow
<1>2. ASSUME NEW s \in Sessions, sessions[s].state = "none",
             sessions' = [sessions EXCEPT ![s] =
                [state |-> "live", person |-> p, client |-> c]]
      PROVE  Stable
  BY <1>2 DEF Stable, Ours, OursAfter, Live, TypeOK, GrantRow
<1> QED BY <1>1, <1>2 DEF MintSession

\* A second factor ends the agents' sessions.
LEMMA GiveSecondFactorStep ==
    ASSUME GrantInv, NEW p \in Persons, GiveSecondFactor(p)
    PROVE  GrantInv' /\ Stable
<1>1. TypeOK /\ AuthInv
  BY DEF GrantInv
<1>2. faulty' \in BOOLEAN /\ events' \in Nat
  BY <1>1, EventType DEF GiveSecondFactor
<1>3. Stable
  BY <1>1, EndSessionsStable DEF GiveSecondFactor, consentVars, grantVars, recordVars
<1>4. TypeOK'
  BY <1>1, <1>2, EndSessionsType DEF GiveSecondFactor, TypeOK, consentVars,
     grantVars, recordVars
<1>5. AuthInv'
  BY <1>1 DEF GiveSecondFactor, AuthInv, consentVars
<1>6. RequestsInv'
  BY <1>3, <1>4, NoneMoves DEF GiveSecondFactor
<1> QED BY <1>3, <1>4, <1>5, <1>6, StoreStep DEF GiveSecondFactor, consentVars

\* Changed credentials end the agents' sessions.
LEMMA ChangeCredentialsStep ==
    ASSUME GrantInv, NEW p \in Persons, ChangeCredentials(p)
    PROVE  GrantInv' /\ Stable
<1>1. TypeOK /\ AuthInv
  BY DEF GrantInv
<1>2. faulty' \in BOOLEAN /\ events' \in Nat
  BY <1>1, EventType DEF ChangeCredentials
<1>3. Stable
  BY <1>1, EndSessionsStable DEF ChangeCredentials, consentVars, grantVars, recordVars
<1>4. prints' \in [Persons -> Nat]
  BY <1>1 DEF ChangeCredentials, TypeOK
<1>5. TypeOK'
  BY <1>1, <1>2, <1>4, EndSessionsType DEF ChangeCredentials, TypeOK,
     consentVars, grantVars, recordVars
<1>6. AuthInv'
  BY <1>1 DEF ChangeCredentials, AuthInv, consentVars
<1>7. RequestsInv'
  BY <1>3, <1>5, NoneMoves DEF ChangeCredentials
<1> QED BY <1>3, <1>5, <1>6, <1>7, StoreStep DEF ChangeCredentials, consentVars

\* An approval mints a session.
LEMMA MintStep ==
    ASSUME GrantInv, NEW r \in Requests, Mint(r)
    PROVE  GrantInv' /\ Stable
<1>1. TypeOK /\ AuthInv /\ ApprovalOK(r) /\ RefreshOK(r)
  BY DEF GrantInv, RequestsInv
<1> DEFINE p == req[r].person
           c == authz[req[r].auth].client
<1>2. /\ p \in Persons /\ req[r].auth \in Auths /\ c \in Clients
      /\ authz[req[r].auth].status # "absent"
  BY <1>1 DEF Mint, ApprovalOK, Approving, AuthInv
<1>3. MintSession(r, p, c, "record")
  BY DEF Mint
<1>4. Stable
  BY <1>1, <1>3, MintStable DEF Mint, consentVars, grantVars, recordVars
<1>5. /\ sessions' \in [Sessions -> SessionRow]
      /\ req' \in [Requests -> Request]
  BY <1>1, <1>2, <1>3, MintType
<1>6. TypeOK'
  BY <1>1, <1>5 DEF Mint, TypeOK, consentVars, grantVars, recordVars, eventVars
<1>7. AuthInv'
  BY <1>1 DEF Mint, AuthInv, consentVars
<1>8. /\ ApprovalOK(r)' /\ RefreshOK(r)'
      /\ \A x \in Requests : x # r => req'[x] = req[x]
  <2>1. CASE Answered(r)
    BY <1>1, <2>1, AnsweredOK
  <2>2. ASSUME NEW s \in Sessions,
               sessions' = [sessions EXCEPT ![s] =
                  [state |-> "live", person |-> p, client |-> c]],
               req' = [req EXCEPT ![r].pc = "record", ![r].session = s,
                                  ![r].minted = TRUE]
        PROVE  /\ ApprovalOK(r)' /\ RefreshOK(r)'
               /\ \A x \in Requests : x # r => req'[x] = req[x]
    <3>1. /\ req'[r].pc = "record" /\ req'[r].session = s
          /\ req'[r].person = p /\ req'[r].auth = req[r].auth
          /\ \A x \in Requests : x # r => req'[x] = req[x]
      BY <1>1, <2>2 DEF TypeOK, Request
    <3>2. /\ sessions'[s].state = "live" /\ sessions'[s].person = p
          /\ sessions'[s].client = c
      BY <1>1, <2>2 DEF TypeOK
    <3> QED BY <1>2, <3>1, <3>2 DEF Mint, ApprovalOK, RefreshOK, Approving,
               Opened, Refreshing, Held, consentVars
  <2> QED BY <1>3, <2>1, <2>2 DEF MintSession
<1>9. RequestsInv'
  BY <1>4, <1>6, <1>8, OneMoves
<1> QED BY <1>4, <1>6, <1>7, <1>9, StoreStep DEF Mint, consentVars

\* A refresh mints a session in place of one that is gone.
LEMMA RemintStep ==
    ASSUME GrantInv, NEW r \in Requests, Remint(r)
    PROVE  GrantInv' /\ Stable
<1>1. TypeOK /\ AuthInv /\ ApprovalOK(r) /\ RefreshOK(r)
  BY DEF GrantInv, RequestsInv
<1> DEFINE q == req[r]
           G == grants[q.grant]
<1>2. /\ q.grant \in Grants /\ q.grant \in sent /\ G.phase # "absent"
      /\ q.person = G.person /\ q.generation <= G.generation
      /\ Covered(q.old, G.person, G.client) /\ ~Ours(q.old)
  BY <1>1 DEF Remint, RefreshOK, Refreshing
<1>3. G.person \in Persons /\ G.client \in Clients
  BY <1>2 DEF GrantInv, GrantsInv, GrantOK
<1>4. MintSession(r, G.person, G.client, "rerecord")
  BY <1>2 DEF Remint
<1>5. Stable
  BY <1>1, <1>4, MintStable DEF Remint, consentVars, grantVars, recordVars
<1>6. /\ sessions' \in [Sessions -> SessionRow]
      /\ req' \in [Requests -> Request]
  BY <1>1, <1>3, <1>4, MintType
<1>7. TypeOK'
  BY <1>1, <1>6 DEF Remint, TypeOK, consentVars, grantVars, recordVars, eventVars
<1>8. AuthInv'
  BY <1>1 DEF Remint, AuthInv, consentVars
<1>9. /\ ApprovalOK(r)' /\ RefreshOK(r)'
      /\ \A x \in Requests : x # r => req'[x] = req[x]
  <2>1. CASE Answered(r)
    BY <1>1, <2>1, AnsweredOK
  <2>2. ASSUME NEW s \in Sessions,
               sessions' = [sessions EXCEPT ![s] =
                  [state |-> "live", person |-> G.person, client |-> G.client] ],
               req' = [req EXCEPT ![r].pc = "rerecord", ![r].session = s,
                                  ![r].minted = TRUE]
        PROVE  /\ ApprovalOK(r)' /\ RefreshOK(r)'
               /\ \A x \in Requests : x # r => req'[x] = req[x]
    <3>1. /\ req'[r].pc = "rerecord" /\ req'[r].session = s
          /\ req'[r].person = q.person /\ req'[r].grant = q.grant
          /\ req'[r].old = q.old /\ req'[r].generation = q.generation
          /\ \A x \in Requests : x # r => req'[x] = req[x]
      BY <1>1, <2>2 DEF TypeOK, Request
    <3>2. /\ sessions'[s].state = "live" /\ sessions'[s].person = G.person
          /\ sessions'[s].client = G.client
      BY <1>1, <2>2 DEF TypeOK
    <3>3. /\ q.old \in Sessions /\ sessions'[q.old].state # "none"
          /\ sessions'[q.old].person = G.person
          /\ sessions'[q.old].client = G.client
          /\ OursAfter(q.old) => q.old \in kept'
          /\ ~OursAfter(q.old)
      BY <1>2, <1>5, CoveredStable DEF Ours, OursAfter, Live
    <3>4. UNCHANGED <<grants, sent>>
      BY DEF Remint, grantVars, recordVars
    <3> QED BY <1>2, <3>1, <3>2, <3>3, <3>4 DEF ApprovalOK, RefreshOK,
               Approving, Opened, Refreshing, Held, Covered, Ours, OursAfter, Live
  <2> QED BY <1>4, <2>1, <2>2 DEF MintSession
<1>10. RequestsInv'
  BY <1>5, <1>7, <1>9, OneMoves
<1> QED BY <1>5, <1>7, <1>8, <1>10, StoreStep DEF Remint, consentVars

\* Best effort or not, ending a session of the loser is stable.
LEMMA RevokeSessionStable ==
    ASSUME TypeOK, NEW s, RevokeSession(s),
           UNCHANGED <<authz, grants, sent, kept, astray>>
    PROVE  /\ Stable
           /\ sessions' \in [Sessions -> SessionRow]
           /\ faulty' \in BOOLEAN /\ events' \in Nat
<1>1. CASE EndSessions({s}) /\ UNCHANGED <<faulty, events>>
  BY <1>1, EndSessionsStable, EndSessionsType, EventType DEF eventVars
<1>2. CASE Fault /\ UNCHANGED sessions
  <2>1. faulty' \in BOOLEAN /\ events' \in Nat
    BY <1>2, EventType DEF Fault
  <2>2. Stable
    BY <1>2 DEF Stable, Ours, OursAfter, Live, TypeOK, GrantRow
  <2>3. sessions' \in [Sessions -> SessionRow]
    BY <1>2 DEF TypeOK
  <2> QED BY <2>1, <2>2, <2>3
<1> QED BY <1>1, <1>2 DEF RevokeSession, eventVars

\* The loser of a race ends what it renewed.
LEMMA EndLosersSessionStep ==
    ASSUME GrantInv, NEW r \in Requests, EndLosersSession(r)
    PROVE  GrantInv' /\ Stable
<1>1. TypeOK /\ AuthInv /\ ApprovalOK(r) /\ RefreshOK(r)
  BY DEF GrantInv, RequestsInv
<1>2. /\ Stable /\ sessions' \in [Sessions -> SessionRow]
      /\ faulty' \in BOOLEAN /\ events' \in Nat
  BY <1>1, RevokeSessionStable DEF EndLosersSession, consentVars, grantVars, recordVars
<1>3. Goes(r, "reread")
  BY DEF EndLosersSession
<1>4. TypeOK'
  BY <1>1, <1>2, <1>3, GoesType DEF EndLosersSession, TypeOK, consentVars,
     grantVars, recordVars
<1>5. AuthInv'
  BY <1>1 DEF EndLosersSession, AuthInv, consentVars
<1> DEFINE q == req[r]
           G == grants[q.grant]
<1>6. /\ q.grant \in Grants /\ q.grant \in sent /\ G.phase # "absent"
      /\ q.person = G.person /\ q.generation <= G.generation
      /\ Covered(q.old, G.person, G.client)
  BY <1>1 DEF EndLosersSession, RefreshOK, Refreshing
<1>7. /\ q.old \in Sessions /\ sessions'[q.old].state # "none"
      /\ sessions'[q.old].person = G.person
      /\ sessions'[q.old].client = G.client
      /\ OursAfter(q.old) => q.old \in kept'
  BY <1>2, <1>6, CoveredStable
<1>8. /\ ApprovalOK(r)' /\ RefreshOK(r)'
      /\ \A x \in Requests : x # r => req'[x] = req[x]
  <2>1. /\ req'[r].pc = "reread" /\ req'[r].person = q.person
        /\ req'[r].grant = q.grant /\ req'[r].old = q.old
        /\ req'[r].generation = q.generation
        /\ \A x \in Requests : x # r => req'[x] = req[x]
    BY <1>1, <1>3 DEF Goes, TypeOK, Request
  <2>2. UNCHANGED <<grants, sent>>
    BY DEF EndLosersSession, grantVars, recordVars
  <2> QED BY <1>6, <1>7, <2>1, <2>2 DEF ApprovalOK, RefreshOK, Approving,
             Opened, Refreshing, Covered, Held, Ours, OursAfter, Live
<1>9. RequestsInv'
  BY <1>2, <1>4, <1>8, OneMoves
<1> QED BY <1>2, <1>4, <1>5, <1>9, StoreStep DEF EndLosersSession, consentVars

\* A failed approval ends the session it minted.
LEMMA UndoStep ==
    ASSUME GrantInv, NEW r \in Requests, Undo(r)
    PROVE  GrantInv' /\ Stable
<1>1. TypeOK /\ AuthInv
  BY DEF GrantInv
<1>2. /\ Stable /\ sessions' \in [Sessions -> SessionRow]
      /\ faulty' \in BOOLEAN /\ events' \in Nat
  BY <1>1, RevokeSessionStable DEF Undo, consentVars, grantVars, recordVars
<1>3. TypeOK'
  BY <1>1, <1>2, AnsweredType DEF Undo, TypeOK, consentVars, grantVars, recordVars
<1>4. AuthInv'
  BY <1>1 DEF Undo, AuthInv, consentVars
<1>5. RequestsInv'
  BY <1>1, <1>2, <1>3, AnsweredOK, OneMoves DEF Undo
<1> QED BY <1>2, <1>3, <1>4, <1>5, StoreStep DEF Undo, consentVars
\* The session is recorded with its client.
LEMMA RecordAgentSessionStep ==
    ASSUME GrantInv, NEW r \in Requests, RecordAgentSession(r)
    PROVE  GrantInv' /\ Stable
<1>1. TypeOK /\ AuthInv /\ ApprovalOK(r) /\ RefreshOK(r)
  BY DEF GrantInv, RequestsInv
<1>2. req[r].session \in Sessions
  BY <1>1 DEF RecordAgentSession, ApprovalOK, RefreshOK, Opened, Held
<1>3. PICK pc \in {"print", "forget"} : Goes(r, pc)
  BY DEF RecordAgentSession
<1>4. TypeOK'
  BY <1>1, <1>2, <1>3, GoesType DEF RecordAgentSession, TypeOK, consentVars,
     grantVars, eventVars
<1>5. Stable
  BY <1>1 DEF RecordAgentSession, Stable, Ours, OursAfter, Live, TypeOK, GrantRow, consentVars,
     grantVars
<1>6. AuthInv'
  BY <1>1 DEF RecordAgentSession, AuthInv, consentVars
<1>7. /\ ApprovalOK(r)' /\ RefreshOK(r)'
      /\ \A x \in Requests : x # r => req'[x] = req[x]
  <2> DEFINE q == req[r]
  <2>1. /\ req'[r].person = q.person /\ req'[r].auth = q.auth
        /\ req'[r].grant = q.grant /\ req'[r].old = q.old
        /\ req'[r].generation = q.generation /\ req'[r].session = q.session
        /\ \A x \in Requests : x # r => req'[x] = req[x]
    BY <1>1, <1>3 DEF Goes, TypeOK, Request
  <2>2. CASE q.pc = "record"
    <3>1. req'[r].pc = "print"
      BY <1>1, <2>2 DEF RecordAgentSession, Goes, TypeOK, Request
    <3> QED BY <1>1, <2>1, <2>2, <3>1 DEF RecordAgentSession, ApprovalOK,
               RefreshOK, Approving, Opened, Refreshing, Covered, Held, Ours, OursAfter, Live,
               consentVars
  <2>3. CASE q.pc = "rerecord"
    <3>1. req'[r].pc = "forget"
      BY <1>1, <2>3 DEF RecordAgentSession, Goes, TypeOK, Request
    <3> QED BY <1>1, <2>1, <2>3, <3>1 DEF RecordAgentSession, ApprovalOK,
               RefreshOK, Approving, Opened, Refreshing, Covered, Held, Ours, OursAfter, Live,
               consentVars, grantVars
  <2> QED BY <2>2, <2>3, <2>1 DEF RecordAgentSession
<1>8. RequestsInv'
  BY <1>4, <1>5, <1>7, OneMoves
<1> QED BY <1>4, <1>5, <1>6, <1>8, StoreStep DEF RecordAgentSession, consentVars

\* What is forgotten has ended: Auth said so before the new session was opened.
LEMMA ForgetAgentSessionStep ==
    ASSUME GrantInv, NEW r \in Requests, ForgetAgentSession(r)
    PROVE  GrantInv' /\ Stable
<1>1. TypeOK /\ AuthInv /\ ApprovalOK(r) /\ RefreshOK(r)
  BY DEF GrantInv, RequestsInv
<1>2. Goes(r, "advance") /\ ~Ours(req[r].old)
  BY <1>1 DEF ForgetAgentSession, RefreshOK
<1>3. TypeOK'
  BY <1>1, <1>2, GoesType DEF ForgetAgentSession, TypeOK, consentVars,
     grantVars, eventVars
<1>4. Stable
  BY <1>1, <1>2 DEF ForgetAgentSession, Stable, TypeOK, GrantRow, consentVars,
     grantVars, Ours, OursAfter, Live
<1>5. AuthInv'
  BY <1>1 DEF ForgetAgentSession, AuthInv, consentVars
<1>6. /\ ApprovalOK(r)' /\ RefreshOK(r)'
      /\ \A x \in Requests : x # r => req'[x] = req[x]
  <2> DEFINE q == req[r]
  <2>1. /\ req'[r].person = q.person /\ req'[r].pc = "advance"
        /\ req'[r].grant = q.grant /\ req'[r].old = q.old
        /\ req'[r].generation = q.generation /\ req'[r].session = q.session
        /\ \A x \in Requests : x # r => req'[x] = req[x]
    BY <1>1, <1>2 DEF Goes, TypeOK, Request
  <2>2. UNCHANGED <<grants, sent, sessions>>
    BY DEF ForgetAgentSession, grantVars
  <2> QED BY <1>1, <1>2, <2>1, <2>2 DEF ForgetAgentSession, ApprovalOK,
             RefreshOK, Approving, Opened, Refreshing, Covered, Held, Ours, OursAfter, Live
<1>7. RequestsInv'
  BY <1>3, <1>4, <1>6, OneMoves
<1> QED BY <1>3, <1>4, <1>5, <1>7, StoreStep DEF ForgetAgentSession, consentVars

-----------------------------------------------------------------------------
(* Steps on grants. *)

\* Ending a grant changes its phase and nothing else of it.
LEMMA EndGrantsRows ==
    ASSUME TypeOK, NEW G, EndGrants(G), NEW g \in Grants
    PROVE  /\ grants'[g].phase = IF g \in G THEN "revoked" ELSE grants[g].phase
           /\ grants'[g].person = grants[g].person
           /\ grants'[g].client = grants[g].client
           /\ grants'[g].generation = grants[g].generation
           /\ grants'[g].session = grants[g].session
           /\ grants'[g].first = grants[g].first
           /\ g \notin G => grants'[g] = grants[g]
BY DEF TypeOK, EndGrants, GrantRow

\* Grants that end disturb no request.
LEMMA EndGrantsStable ==
    ASSUME TypeOK, NEW G, EndGrants(G), UNCHANGED <<authz, sent, kept, astray, sessions>>
    PROVE  Stable
<1>1. \A g \in Grants : grants[g].generation \in Nat
  BY DEF TypeOK, GrantRow
<1> QED BY <1>1, EndGrantsRows DEF Stable, Ours, OursAfter, Live

\* Grants, codes and answers stay right when grants end.
LEMMA EndGrantsKeeps ==
    ASSUME GrantInv, NEW G, EndGrants(G),
           \A g \in G : grants[g].phase = "live",
           UNCHANGED <<consent, codes, sent, answers, kept, astray, sessions>>
    PROVE  GrantsInv' /\ CodesInv' /\ AnswersInv'
<1>1. TypeOK
  BY DEF GrantInv
<1>2. GrantsInv'
  <2> SUFFICES ASSUME NEW g \in Grants PROVE GrantOK(g)'
    BY DEF GrantsInv
  <2>1. GrantOK(g)
    BY DEF GrantInv, GrantsInv
  <2>2. CASE g \notin G
    <3>1. grants'[g] = grants[g]
      BY <1>1, <2>2, EndGrantsRows
    <3> QED BY <2>1, <3>1 DEF GrantOK, Covered, Held, Ours, OursAfter, Live
  <2>3. CASE g \in G
    BY <1>1, <2>1, <2>3, EndGrantsRows DEF GrantOK, Covered, Held, Ours, OursAfter, Live
  <2> QED BY <2>2, <2>3
<1>3. CodesInv'
  BY <1>1, EndGrantsRows DEF GrantInv, CodesInv, TypeOK
<1>4. AnswersInv'
  <2> SUFFICES ASSUME NEW t \in answers PROVE AnswerOK(t)'
    BY DEF AnswersInv
  <2>1. AnswerOK(t) /\ t.grant \in Grants
    BY <1>1 DEF GrantInv, AnswersInv, TypeOK
  <2> QED BY <1>1, <2>1, EndGrantsRows DEF AnswerOK, Covered, Held, Ours, OursAfter, Live
<1> QED BY <1>2, <1>3, <1>4

\* An approval ends the client's earlier grants.
LEMMA RevokeClientGrantsStep ==
    ASSUME GrantInv, NEW r \in Requests, RevokeClientGrants(r)
    PROVE  GrantInv' /\ Stable
<1>1. TypeOK /\ AuthInv /\ ApprovalOK(r) /\ RefreshOK(r)
  BY DEF GrantInv, RequestsInv
<1> DEFINE G == GrantsOf(req[r].person, authz[req[r].auth].client)
<1>2. EndGrants(G) /\ \A g \in G : grants[g].phase = "live"
  BY DEF RevokeClientGrants, GrantsOf
<1>3. Goes(r, "insert") /\ UNCHANGED <<consent, authz, codes, sent, answers,
                                       kept, astray, sessions, prints, clicked>>
  BY DEF RevokeClientGrants, consentVars, sessionVars, recordVars
<1> HIDE DEF G
<1>4. Stable
  BY <1>1, <1>2, <1>3, EndGrantsStable
<1>5. TypeOK'
  BY <1>1, <1>2, <1>3, EndGrantsType, GoesType DEF RevokeClientGrants, TypeOK,
     eventVars
<1>6. AuthInv'
  BY <1>1, <1>3 DEF AuthInv
<1>7. GrantsInv' /\ CodesInv' /\ AnswersInv'
  BY <1>2, <1>3, EndGrantsKeeps
<1>8. /\ ApprovalOK(r)' /\ RefreshOK(r)'
      /\ \A x \in Requests : x # r => req'[x] = req[x]
  BY <1>1, <1>3 DEF RevokeClientGrants, Goes, TypeOK, Request, ApprovalOK,
     RefreshOK, Approving, Opened, Refreshing, Covered, Held, Ours, OursAfter, Live
<1>9. RequestsInv'
  BY <1>4, <1>5, <1>8, OneMoves
<1> QED BY <1>4, <1>5, <1>6, <1>7, <1>9 DEF GrantInv

\* A refresh ends its grant.
LEMMA RevokeGrantStep ==
    ASSUME GrantInv, NEW r \in Requests, RevokeGrant(r)
    PROVE  GrantInv' /\ Stable
<1>1. TypeOK /\ AuthInv
  BY DEF GrantInv
<1> DEFINE G == {req[r].grant} \cap {g \in Grants : grants[g].phase = "live"}
<1>2. EndGrants(G) /\ \A g \in G : grants[g].phase = "live"
  BY DEF RevokeGrant
<1>3. Answered(r) /\ UNCHANGED <<consent, authz, codes, sent, answers,
                                 kept, astray, sessions, prints, clicked>>
  BY DEF RevokeGrant, consentVars, sessionVars, recordVars
<1> HIDE DEF G
<1>4. Stable
  BY <1>1, <1>2, <1>3, EndGrantsStable
<1>5. TypeOK'
  BY <1>1, <1>2, <1>3, EndGrantsType, AnsweredType DEF RevokeGrant, TypeOK,
     eventVars
<1>6. AuthInv'
  BY <1>1, <1>3 DEF AuthInv
<1>7. GrantsInv' /\ CodesInv' /\ AnswersInv'
  BY <1>2, <1>3, EndGrantsKeeps
<1>8. RequestsInv'
  BY <1>1, <1>3, <1>4, <1>5, AnsweredOK, OneMoves
<1> QED BY <1>4, <1>5, <1>6, <1>7, <1>8 DEF GrantInv

\* The race window of a generation closes.
LEMMA WindowClosesStep ==
    ASSUME GrantInv, NEW g \in Grants, WindowCloses(g)
    PROVE  GrantInv' /\ Stable
<1>1. TypeOK /\ AuthInv /\ GrantOK(g)
  BY DEF GrantInv, GrantsInv
<1>2. faulty' \in BOOLEAN /\ events' \in Nat
  BY <1>1, EventType DEF WindowCloses
<1>3. ASSUME NEW row \in GrantRow
      PROVE  [row EXCEPT !.recent = FALSE] \in GrantRow
  <2>1. FALSE \in BOOLEAN
    OBVIOUS
  <2> QED BY <2>1 DEF GrantRow
<1>4. grants' \in [Grants -> GrantRow]
  BY <1>1, <1>3 DEF WindowCloses, TypeOK
<1>5. TypeOK'
  BY <1>1, <1>2, <1>4 DEF WindowCloses, TypeOK, consentVars, sessionVars, recordVars
<1>6. \A h \in Grants : /\ grants'[h].phase = grants[h].phase
                        /\ grants'[h].person = grants[h].person
                        /\ grants'[h].client = grants[h].client
                        /\ grants'[h].generation = grants[h].generation
                        /\ grants'[h].session = grants[h].session
                        /\ grants'[h].first = grants[h].first
                        /\ h # g => grants'[h] = grants[h]
  BY <1>1 DEF WindowCloses, TypeOK, GrantRow
<1>7. grants[g].phase # "absent"
  BY <1>1 DEF WindowCloses, GrantOK, NoGrant
<1>8. UNCHANGED <<authz, consent, codes, sent, answers, kept, astray, sessions>>
  BY DEF WindowCloses, consentVars, sessionVars, recordVars
<1>9. Stable
  <2>1. \A h \in Grants : grants[h].generation \in Nat
    BY <1>1 DEF TypeOK, GrantRow
  <2> QED BY <1>6, <1>8, <2>1 DEF Stable, Ours, OursAfter, Live
<1>10. AuthInv'
  BY <1>1, <1>8 DEF AuthInv
<1>11. GrantsInv'
  <2> SUFFICES ASSUME NEW h \in Grants PROVE GrantOK(h)'
    BY DEF GrantsInv
  <2>1. GrantOK(h)
    BY DEF GrantInv, GrantsInv
  <2> QED BY <1>6, <1>7, <1>8, <2>1 DEF GrantOK, Covered, Held, Ours, OursAfter, Live
<1>12. CodesInv'
  BY <1>1, <1>6, <1>8 DEF GrantInv, CodesInv, TypeOK
<1>13. AnswersInv'
  <2> SUFFICES ASSUME NEW t \in answers PROVE AnswerOK(t)'
    BY <1>8 DEF AnswersInv
  <2>1. AnswerOK(t) /\ t.grant \in Grants
    BY <1>1 DEF GrantInv, AnswersInv, TypeOK
  <2> QED BY <1>6, <1>8, <2>1 DEF AnswerOK, Covered, Held, Ours, OursAfter, Live
<1>14. RequestsInv'
  BY <1>5, <1>9, NoneMoves DEF WindowCloses
<1> QED BY <1>5, <1>9, <1>10, <1>11, <1>12, <1>13, <1>14 DEF GrantInv
\* An approval opens its grant.
LEMMA InsertGrantStep ==
    ASSUME GrantInv, NEW r \in Requests, InsertGrant(r)
    PROVE  GrantInv' /\ Stable
<1>1. TypeOK /\ AuthInv /\ ApprovalOK(r) /\ RefreshOK(r)
  BY DEF GrantInv, RequestsInv
<1> DEFINE q == req[r]
           c == authz[q.auth].client
<1>2. /\ q.person \in Persons /\ q.auth \in Auths
      /\ authz[q.auth].status # "absent" /\ c \in Clients
      /\ Covered(q.session, q.person, c) /\ q.session \in Sessions
      /\ q.print \in Nat
  BY <1>1 DEF InsertGrant, ApprovalOK, Approving, Opened, AuthInv, Covered, Held,
     TypeOK, Request
<1> DEFINE row == [phase |-> "live", person |-> q.person, client |-> c,
                   generation |-> 0, session |-> q.session, print |-> q.print,
                   recent |-> TRUE, of |-> q.auth, first |-> q.session]
<1>3. PICK g \in Grants : /\ grants[g].phase = "absent"
                          /\ grants' = [grants EXCEPT ![g] = row]
                          /\ req' = [req EXCEPT ![r].pc = "code",
                                                ![r].grant = g]
  BY DEF InsertGrant
<1>4. row \in GrantRow
  <2>1. TRUE \in BOOLEAN
    OBVIOUS
  <2> QED BY <1>2, <2>1 DEF GrantRow
<1>5. /\ row.phase = "live" /\ row.person = q.person /\ row.client = c
      /\ row.generation = 0 /\ row.session = q.session
      /\ row.first = q.session
  OBVIOUS
<1> HIDE DEF row
<1>6. UNCHANGED <<authz, consent, clicked, codes, sent, answers, kept, astray, sessions,
                  prints, faulty, events>>
  BY DEF InsertGrant, consentVars, sessionVars, recordVars, eventVars
<1>7. grants' \in [Grants -> GrantRow] /\ grants'[g] = row
      /\ \A h \in Grants : h # g => grants'[h] = grants[h]
  BY <1>1, <1>3, <1>4 DEF TypeOK
<1>8. req' \in [Requests -> Request]
  <2>1. ASSUME NEW x \in Request
        PROVE  [x EXCEPT !.pc = "code", !.grant = g] \in Request
    BY DEF Request
  <2> QED BY <1>1, <1>3, <2>1 DEF TypeOK
<1>9. TypeOK'
  BY <1>1, <1>6, <1>7, <1>8 DEF TypeOK
<1>10. Stable
  <2>1. \A h \in Grants : grants[h].generation \in Nat
    BY <1>1 DEF TypeOK, GrantRow
  <2> QED BY <1>3, <1>6, <1>7, <2>1 DEF Stable, Ours, OursAfter, Live
<1>11. AuthInv'
  BY <1>1, <1>6 DEF AuthInv
<1>12. g \notin sent
  BY <1>3 DEF GrantInv, GrantsInv, GrantOK
<1>13. GrantsInv'
  <2> SUFFICES ASSUME NEW h \in Grants PROVE GrantOK(h)'
    BY DEF GrantsInv
  <2>1. CASE h # g
    <3>1. GrantOK(h) /\ grants'[h] = grants[h]
      BY <1>7, <2>1 DEF GrantInv, GrantsInv
    <3> QED BY <1>6, <3>1 DEF GrantOK, Covered, Held, Ours, OursAfter, Live
  <2>2. CASE h = g
    BY <1>2, <1>5, <1>6, <1>7, <1>12, <2>2 DEF GrantOK, Covered, Held, Ours, OursAfter, Live
  <2> QED BY <2>1, <2>2
<1>14. CodesInv'
  BY <1>1, <1>3, <1>6, <1>7 DEF GrantInv, CodesInv, TypeOK
<1>15. AnswersInv'
  <2> SUFFICES ASSUME NEW u \in answers PROVE AnswerOK(u)'
    BY <1>6 DEF AnswersInv
  <2>1. AnswerOK(u) /\ u.grant \in Grants
    BY <1>1 DEF GrantInv, AnswersInv, TypeOK
  <2>2. grants'[u.grant] = grants[u.grant]
    BY <1>3, <1>7, <2>1 DEF AnswerOK
  <2> QED BY <1>6, <2>1, <2>2 DEF AnswerOK, Covered, Held, Ours, OursAfter, Live
<1>16. /\ ApprovalOK(r)' /\ RefreshOK(r)'
       /\ \A x \in Requests : x # r => req'[x] = req[x]
  <2>1. /\ req'[r].pc = "code" /\ req'[r].grant = g
        /\ req'[r].person = q.person /\ req'[r].auth = q.auth
        /\ req'[r].session = q.session
        /\ \A x \in Requests : x # r => req'[x] = req[x]
    BY <1>1, <1>3 DEF TypeOK, Request
  <2> QED BY <1>2, <1>5, <1>6, <1>7, <2>1 DEF ApprovalOK, RefreshOK, Approving,
             Opened, Refreshing, Covered, Held, Ours, OursAfter, Live
<1>17. RequestsInv'
  BY <1>9, <1>10, <1>16, OneMoves
<1> QED BY <1>9, <1>10, <1>11, <1>13, <1>14, <1>15, <1>17 DEF GrantInv

\* The compare-and-set: what the winner got is the grant's, and only the
\* winner's answer has the new generation.
LEMMA AdvanceGrantStep ==
    ASSUME GrantInv, NEW r \in Requests, AdvanceGrant(r)
    PROVE  GrantInv' /\ Stable
<1>1. TypeOK /\ AuthInv /\ ApprovalOK(r) /\ RefreshOK(r)
  BY DEF GrantInv, RequestsInv
<1> DEFINE q == req[r]
           g == q.grant
           G == grants[g]
<1>2. /\ g \in Grants /\ g \in sent /\ G.phase # "absent" /\ q.person = G.person
      /\ q.generation <= G.generation
      /\ Covered(q.old, G.person, G.client)
      /\ Covered(q.session, G.person, G.client) /\ q.session \in Sessions
      /\ q.generation \in Nat
  BY <1>1 DEF AdvanceGrant, RefreshOK, Refreshing, Covered, Held, TypeOK, Request
<1>3. UNCHANGED <<authz, consent, clicked, codes, sent, kept, astray, sessions, prints,
                  faulty, events>>
  BY DEF AdvanceGrant, consentVars, sessionVars, recordVars, eventVars
<1>4. CASE ~CanAdvance(r)
  <2>1. PICK pc \in {"lose", "reread"} : Goes(r, pc)
    BY <1>4 DEF AdvanceGrant
  <2>2. UNCHANGED <<grants, answers>>
    BY <1>4 DEF AdvanceGrant
  <2>3. req' \in [Requests -> Request]
    BY <1>1, <2>1, GoesType
  <2>4. /\ ApprovalOK(r)' /\ RefreshOK(r)'
        /\ \A x \in Requests : x # r => req'[x] = req[x]
    <3>1. /\ req'[r].pc = pc /\ req'[r].grant = g
          /\ req'[r].person = q.person /\ req'[r].old = q.old
          /\ req'[r].session = q.session /\ req'[r].generation = q.generation
          /\ \A x \in Requests : x # r => req'[x] = req[x]
      BY <1>1, <2>1 DEF Goes, TypeOK, Request
    <3> QED BY <1>2, <1>3, <2>2, <3>1 DEF ApprovalOK, RefreshOK, Approving,
               Opened, Refreshing, Covered, Held, Ours, OursAfter, Live
  <2>5. faulty' \in BOOLEAN /\ events' \in Nat
    BY <1>1, EventType DEF AdvanceGrant, eventVars
  <2> QED BY <1>3, <2>2, <2>3, <2>4, <2>5, ReadStep DEF consentVars, grantVars,
             sessionVars, recordVars
<1>5. CASE CanAdvance(r)
  <2> DEFINE n == q.generation + 1
             new == Pair(g, n, q.session)
  <2>1. G.phase = "live" /\ G.generation = q.generation
    BY <1>5 DEF CanAdvance
  <2>2. /\ grants' = [grants EXCEPT ![g].generation = n,
                                    ![g].session = q.session,
                                    ![g].recent = TRUE]
        /\ answers' = answers \cup {new}
        /\ Answered(r)
    BY <1>5 DEF AdvanceGrant
  <2>3. ASSUME NEW row \in GrantRow, NEW m \in Nat, NEW s \in Sessions
        PROVE  [row EXCEPT !.generation = m, !.session = s, !.recent = TRUE]
                   \in GrantRow
    <3>1. TRUE \in BOOLEAN
      OBVIOUS
    <3> QED BY <3>1 DEF GrantRow
  <2>4. n \in Nat /\ n > G.generation
    BY <1>2, <2>1
  <2>5. grants' \in [Grants -> GrantRow]
    BY <1>1, <1>2, <2>2, <2>3, <2>4 DEF TypeOK
  <2>6. /\ grants'[g].phase = "live" /\ grants'[g].person = G.person
        /\ grants'[g].client = G.client /\ grants'[g].first = G.first
        /\ grants'[g].generation = n /\ grants'[g].session = q.session
        /\ \A h \in Grants : h # g => grants'[h] = grants[h]
    <3>1. G \in GrantRow /\ grants \in [Grants -> GrantRow]
      BY <1>1, <1>2 DEF TypeOK
    <3>2. grants'[g] = [G EXCEPT !.generation = n, !.session = q.session,
                                 !.recent = TRUE]
      BY <1>2, <2>2, <3>1
    <3>3. \A h \in Grants : h # g => grants'[h] = grants[h]
      BY <2>2, <3>1
    <3>4. /\ [G EXCEPT !.generation = n, !.session = q.session,
                       !.recent = TRUE].phase = G.phase
          /\ grants'[g].person = G.person /\ grants'[g].client = G.client
          /\ grants'[g].first = G.first
          /\ grants'[g].generation = n /\ grants'[g].session = q.session
      BY <3>1, <3>2 DEF GrantRow
    <3> QED BY <2>1, <3>2, <3>3, <3>4
  <2>7. /\ new \in [grant : Grants, generation : Nat, session : Sessions]
        /\ new.grant = g /\ new.generation = n /\ new.session = q.session
    BY <1>2, <2>4 DEF Pair
  <2> HIDE DEF new, n
  <2>8. TypeOK'
    BY <1>1, <1>3, <2>2, <2>5, <2>7, AnsweredType DEF TypeOK
  <2>9. \A h \in Grants : grants[h].generation \in Nat
    BY <1>1 DEF TypeOK, GrantRow
  <2>10. Stable
    BY <1>3, <2>4, <2>6, <2>9 DEF Stable, Ours, OursAfter, Live
  <2>11. AuthInv'
    BY <1>1, <1>3 DEF AuthInv
  <2>12. GrantOK(g)
    BY <1>2 DEF GrantInv, GrantsInv
  <2>13. GrantsInv'
    <3> SUFFICES ASSUME NEW h \in Grants PROVE GrantOK(h)'
      BY DEF GrantsInv
    <3>1. CASE h # g
      <4>1. GrantOK(h) /\ grants'[h] = grants[h]
        BY <2>6, <3>1 DEF GrantInv, GrantsInv
      <4> QED BY <1>3, <4>1 DEF GrantOK, Covered, Held, Ours, OursAfter, Live
    <3>2. CASE h = g
      <4>1. G.person \in Persons /\ G.client \in Clients
            /\ Covered(G.first, G.person, G.client)
            /\ consent[G.person][G.client] # None
        BY <1>2, <2>1, <2>12 DEF GrantOK
      <4>2. n # 0
        BY <1>2, <2>1, <2>4
      <4>3. Covered(q.session, G.person, G.client)
        BY <1>2
      <4> QED BY <1>3, <2>6, <3>2, <4>1, <4>2, <4>3 DEF GrantOK, Covered, Held,
                 Ours, OursAfter, Live
    <3> QED BY <3>1, <3>2
  <2>14. CodesInv'
    BY <1>1, <1>3, <2>6 DEF GrantInv, CodesInv, TypeOK
  <2>15. AnswersInv'
    <3> SUFFICES ASSUME NEW u \in answers' PROVE AnswerOK(u)'
      BY DEF AnswersInv
    <3>1. CASE u = new
      <4>1. consent[G.person][G.client] # None
        BY <1>2, <2>1, <2>12 DEF GrantOK
      <4>2. n # 0
        BY <2>4, <2>9, <1>2
      <4>3. u.grant = g /\ u.generation = n /\ u.session = q.session
        BY <2>7, <3>1
      <4> QED BY <1>2, <1>3, <2>4, <2>6, <4>1, <4>2, <4>3 DEF AnswerOK,
                 Covered, Held, Ours, OursAfter, Live
    <3>2. CASE u \in answers
      <4>1. /\ AnswerOK(u) /\ u.grant \in Grants /\ u.generation \in Nat
        BY <1>1, <3>2 DEF GrantInv, AnswersInv, TypeOK
      <4>2. CASE u.grant # g
        <5>1. grants'[u.grant] = grants[u.grant]
          BY <2>6, <4>1, <4>2
        <5> QED BY <1>3, <4>1, <5>1 DEF AnswerOK, Covered, Held, Ours, OursAfter, Live
      <4>3. CASE u.grant = g
        <5>1. u.generation < n
          BY <2>4, <2>9, <4>1, <4>3 DEF AnswerOK
        <5> QED BY <1>3, <2>4, <2>6, <4>1, <4>3, <5>1 DEF AnswerOK, Covered,
                   Held, Ours, OursAfter, Live
      <4> QED BY <4>2, <4>3
    <3> QED BY <2>2, <3>1, <3>2
  <2>16. RequestsInv'
    BY <1>1, <2>2, <2>8, <2>10, AnsweredOK, OneMoves
  <2> QED BY <2>8, <2>10, <2>11, <2>13, <2>14, <2>15, <2>16 DEF GrantInv
<1> QED BY <1>4, <1>5
-----------------------------------------------------------------------------
(* Steps on codes, answers and consents. *)

\* An approval issues its code.
LEMMA IssueCodeStep ==
    ASSUME GrantInv, NEW r \in Requests, IssueCode(r)
    PROVE  GrantInv' /\ Stable
<1>1. TypeOK /\ AuthInv /\ ApprovalOK(r) /\ RefreshOK(r)
  BY DEF GrantInv, RequestsInv
<1> DEFINE q == req[r]
           k == [grant |-> q.grant, session |-> q.session]
<1>2. /\ q.grant \in Grants /\ grants[q.grant].phase # "absent"
      /\ grants[q.grant].first = q.session /\ q.session \in Sessions
  BY <1>1 DEF IssueCode, ApprovalOK, Opened, Held
<1>3. /\ Goes(r, "upsert") /\ codes' = codes \cup {k}
      /\ UNCHANGED <<authz, consent, clicked, grants, sent, answers, kept, astray,
                     sessions, prints, faulty, events>>
  BY DEF IssueCode, consentVars, sessionVars, recordVars, eventVars
<1>4. TypeOK'
  BY <1>1, <1>2, <1>3, GoesType DEF TypeOK
<1>5. Stable
  BY <1>1, <1>3 DEF Stable, Ours, OursAfter, Live, TypeOK, GrantRow
<1>6. AuthInv' /\ GrantsInv' /\ AnswersInv'
  BY <1>3 DEF GrantInv, AuthInv, GrantsInv, GrantOK, AnswersInv, AnswerOK,
     Covered, Held, Ours, OursAfter, Live
<1>7. CodesInv'
  BY <1>2, <1>3 DEF GrantInv, CodesInv
<1>8. /\ ApprovalOK(r)' /\ RefreshOK(r)'
      /\ \A x \in Requests : x # r => req'[x] = req[x]
  BY <1>1, <1>3 DEF IssueCode, Goes, TypeOK, Request, ApprovalOK, RefreshOK,
     Approving, Opened, Refreshing, Covered, Held, Ours, OursAfter, Live
<1>9. RequestsInv'
  BY <1>4, <1>5, <1>8, OneMoves
<1> QED BY <1>4, <1>5, <1>6, <1>7, <1>9 DEF GrantInv

\* An approval records the consent.
LEMMA UpsertConsentStep ==
    ASSUME GrantInv, NEW r \in Requests, UpsertConsent(r)
    PROVE  GrantInv' /\ Stable
<1>1. TypeOK /\ AuthInv /\ ApprovalOK(r) /\ RefreshOK(r)
  BY DEF GrantInv, RequestsInv
<1> DEFINE q == req[r]
           c == authz[q.auth].client
           u == authz[q.auth].uri
<1>2. /\ q.grant \in Grants /\ grants[q.grant].phase # "absent"
      /\ grants[q.grant].person = q.person /\ grants[q.grant].client = c
      /\ q.person \in Persons /\ c \in Clients /\ u \in Addresses /\ u # None
  BY <1>1, GrantAssumption DEF UpsertConsent, ApprovalOK, Approving, AuthInv
<1>3. /\ Answered(r) /\ sent' = sent \cup {q.grant}
      /\ consent' = [consent EXCEPT ![q.person][c] = u]
      /\ UNCHANGED <<authz, clicked, grants, codes, answers, kept, astray, sessions,
                     prints, faulty, events>>
  BY DEF UpsertConsent, sessionVars, recordVars, eventVars
<1>4. \A p \in Persons, d \in Clients :
          consent'[p][d] = IF p = q.person /\ d = c THEN u ELSE consent[p][d]
  BY <1>1, <1>3 DEF TypeOK
<1>5. consent' \in [Persons -> [Clients -> Addresses \cup {None}]]
  BY <1>1, <1>2, <1>3 DEF TypeOK
<1> HIDE DEF u, c
<1>6. TypeOK'
  BY <1>1, <1>2, <1>3, <1>5, AnsweredType DEF TypeOK
<1>7. Stable
  BY <1>1, <1>3 DEF Stable, Ours, OursAfter, Live, TypeOK, GrantRow
<1>8. AuthInv' /\ CodesInv'
  BY <1>3 DEF GrantInv, AuthInv, CodesInv
<1>9. GrantsInv'
  <2> SUFFICES ASSUME NEW g \in Grants PROVE GrantOK(g)'
    BY DEF GrantsInv
  <2>1. GrantOK(g)
    BY DEF GrantInv, GrantsInv
  <2>2. CASE grants[g].phase = "absent"
    BY <1>2, <1>3, <2>1, <2>2 DEF GrantOK, NoGrant, Ours, OursAfter, Live
  <2>3. CASE grants[g].phase # "absent"
    BY <1>2, <1>3, <1>4, <2>1, <2>3 DEF GrantOK, Covered, Held, Ours, OursAfter, Live
  <2> QED BY <2>2, <2>3
<1>10. AnswersInv'
  <2> SUFFICES ASSUME NEW t \in answers PROVE AnswerOK(t)'
    BY <1>3 DEF AnswersInv
  <2>1. AnswerOK(t) /\ GrantOK(t.grant)
    BY <1>1 DEF GrantInv, AnswersInv, GrantsInv, TypeOK
  <2> QED BY <1>2, <1>3, <1>4, <2>1 DEF AnswerOK, GrantOK, Covered, Held, Ours, OursAfter, Live
<1>11. RequestsInv'
  BY <1>1, <1>3, <1>6, <1>7, AnsweredOK, OneMoves
<1> QED BY <1>6, <1>7, <1>8, <1>9, <1>10, <1>11 DEF GrantInv

\* An answer that is one of its grant's pairs is added; nothing else changes.
LEMMA AnswerAdded ==
    ASSUME GrantInv, NEW u \in [grant : Grants, generation : Nat,
                                session : Sessions],
           AnswerOK(u), answers' \in {answers, answers \cup {u}},
           codes' \subseteq codes,
           UNCHANGED <<consentVars, grants, sent, sessionVars>>
    PROVE  /\ Stable /\ AuthInv' /\ GrantsInv' /\ CodesInv' /\ AnswersInv'
           /\ answers' \subseteq [grant : Grants, generation : Nat,
                                  session : Sessions]
<1> USE DEF consentVars, sessionVars, recordVars
<1>1. TypeOK
  BY DEF GrantInv
<1>2. Stable
  BY <1>1 DEF Stable, Ours, OursAfter, Live, TypeOK, GrantRow
<1>3. AuthInv' /\ GrantsInv' /\ CodesInv'
  BY DEF GrantInv, AuthInv, GrantsInv, GrantOK, CodesInv, Covered, Held, Ours, OursAfter, Live
<1>4. AnswersInv'
  <2> SUFFICES ASSUME NEW t \in answers' PROVE AnswerOK(t)'
    BY DEF AnswersInv
  <2>1. AnswerOK(t)
    BY DEF GrantInv, AnswersInv
  <2> QED BY <2>1 DEF AnswerOK, Covered, Held, Ours, OursAfter, Live
<1> QED BY <1>1, <1>2, <1>3, <1>4 DEF TypeOK

\* The current pair of a live grant whose code was sent.
LEMMA CurrentPairOK ==
    ASSUME GrantInv, NEW g \in Grants, g \in sent, grants[g].phase = "live"
    PROVE  /\ AnswerOK(CurrentPair(g))
           /\ CurrentPair(g) \in [grant : Grants, generation : Nat,
                                  session : Sessions]
<1>1. GrantOK(g) /\ TypeOK
  BY DEF GrantInv, GrantsInv
<1>2. grants[g].generation \in Nat /\ grants[g].session \in Sessions
  BY <1>1 DEF TypeOK, GrantRow, GrantOK, Covered, Held
<1> QED BY <1>1, <1>2 DEF CurrentPair, Pair, AnswerOK, GrantOK, Covered, Held, Ours, OursAfter, Live

\* The pair a sent code buys.
LEMMA FirstPairOK ==
    ASSUME GrantInv, NEW k \in codes, k.grant \in sent
    PROVE  /\ AnswerOK(Pair(k.grant, 0, k.session))
           /\ Pair(k.grant, 0, k.session)
                 \in [grant : Grants, generation : Nat, session : Sessions]
<1> DEFINE g == k.grant
<1>1. /\ g \in Grants /\ k.session \in Sessions /\ GrantOK(g)
      /\ grants[g].phase # "absent" /\ k.session = grants[g].first
      /\ grants[g].generation \in Nat
  BY DEF GrantInv, GrantsInv, TypeOK, CodesInv, GrantRow
<1> QED BY <1>1 DEF Pair, AnswerOK, GrantOK, Covered, Held, Ours, OursAfter, Live

\* A code or a refresh token is presented.
LEMMA HandleTokenStep ==
    ASSUME GrantInv, NEW k \in codes, NEW matches \in BOOLEAN,
           HandleToken(k, matches)
    PROVE  GrantInv' /\ Stable
<1>1. TypeOK
  BY DEF GrantInv
<1> DEFINE u == Pair(k.grant, 0, k.session)
<1>2. /\ AnswerOK(u)
      /\ u \in [grant : Grants, generation : Nat, session : Sessions]
  BY FirstPairOK DEF HandleToken
<1>3. /\ answers' \in {answers, answers \cup {u}} /\ codes' \subseteq codes
      /\ UNCHANGED <<consentVars, grants, sent, sessionVars, req, eventVars>>
  BY DEF HandleToken, ConsumeCode
<1>4. /\ Stable /\ AuthInv' /\ GrantsInv' /\ CodesInv' /\ AnswersInv'
      /\ answers' \subseteq [grant : Grants, generation : Nat,
                             session : Sessions]
  BY <1>2, <1>3, AnswerAdded
<1>5. TypeOK'
  BY <1>1, <1>3, <1>4 DEF TypeOK, consentVars, sessionVars, recordVars, eventVars
<1>6. RequestsInv'
  BY <1>3, <1>4, <1>5, NoneMoves
<1> QED BY <1>4, <1>5, <1>6 DEF GrantInv

\* A code gets too old.
LEMMA CodeExpiresStep ==
    ASSUME GrantInv, NEW k \in codes, CodeExpires(k)
    PROVE  GrantInv' /\ Stable
<1>1. TypeOK
  BY DEF GrantInv
<1>2. faulty' \in BOOLEAN /\ events' \in Nat
  BY <1>1, EventType DEF CodeExpires
<1>3. /\ codes' \subseteq codes
      /\ UNCHANGED <<consentVars, grants, sent, answers, sessionVars, req>>
  BY DEF CodeExpires
<1>4. Stable
  BY <1>1, <1>3 DEF Stable, Ours, OursAfter, Live, TypeOK, GrantRow, consentVars, sessionVars, recordVars
<1>5. AuthInv' /\ GrantsInv' /\ CodesInv' /\ AnswersInv'
  BY <1>3 DEF GrantInv, AuthInv, GrantsInv, GrantOK, CodesInv, AnswersInv,
     AnswerOK, Covered, Held, Ours, OursAfter, Live, consentVars, sessionVars, recordVars
<1>6. TypeOK'
  BY <1>1, <1>2, <1>3 DEF TypeOK, consentVars, sessionVars, recordVars
<1>7. RequestsInv'
  BY <1>3, <1>4, <1>6, NoneMoves
<1> QED BY <1>4, <1>5, <1>6, <1>7 DEF GrantInv

\* A token of the last generation is answered inside the window.
LEMMA RefreshRacedStep ==
    ASSUME GrantInv, NEW g \in Grants, NEW n \in Nat, RefreshRaced(g, n),
           g \in sent
    PROVE  GrantInv' /\ Stable
<1>1. TypeOK
  BY DEF GrantInv
<1>2. /\ AnswerOK(CurrentPair(g))
      /\ CurrentPair(g) \in [grant : Grants, generation : Nat,
                             session : Sessions]
  BY CurrentPairOK DEF RefreshRaced
<1>3. /\ answers' = answers \cup {CurrentPair(g)} /\ codes' \subseteq codes
      /\ UNCHANGED <<consentVars, grants, sent, sessionVars, req, eventVars>>
  BY DEF RefreshRaced
<1>4. /\ Stable /\ AuthInv' /\ GrantsInv' /\ CodesInv' /\ AnswersInv'
      /\ answers' \subseteq [grant : Grants, generation : Nat,
                             session : Sessions]
  BY <1>2, <1>3, AnswerAdded
<1>5. TypeOK'
  BY <1>1, <1>3, <1>4 DEF TypeOK, consentVars, sessionVars, recordVars, eventVars
<1>6. RequestsInv'
  BY <1>3, <1>4, <1>5, NoneMoves
<1> QED BY <1>4, <1>5, <1>6 DEF GrantInv

\* The loser of a race answers with the winner's pair.
LEMMA RereadGrantStep ==
    ASSUME GrantInv, NEW r \in Requests, RereadGrant(r)
    PROVE  GrantInv' /\ Stable
<1>1. TypeOK /\ RefreshOK(r) /\ AuthInv
  BY DEF GrantInv, RequestsInv
<1> DEFINE g == req[r].grant
<1>2. g \in Grants /\ g \in sent
  BY <1>1 DEF RereadGrant, RefreshOK, Refreshing
<1>3. /\ codes' \subseteq codes /\ Answered(r)
      /\ UNCHANGED <<consentVars, grants, sent, sessionVars, eventVars>>
  BY DEF RereadGrant
<1>4. /\ Stable /\ AuthInv' /\ GrantsInv' /\ CodesInv' /\ AnswersInv'
      /\ answers' \subseteq [grant : Grants, generation : Nat,
                             session : Sessions]
  <2>1. CASE answers' = answers
    <3>1. Stable
      BY <1>1, <1>3 DEF Stable, Ours, OursAfter, Live, TypeOK, GrantRow, consentVars, sessionVars, recordVars
    <3>2. AuthInv' /\ GrantsInv' /\ CodesInv' /\ AnswersInv'
      BY <1>3, <2>1 DEF GrantInv, AuthInv, GrantsInv, GrantOK, CodesInv,
         AnswersInv, AnswerOK, Covered, Held, Ours, OursAfter, Live, consentVars, sessionVars, recordVars
    <3> QED BY <1>1, <2>1, <3>1, <3>2 DEF TypeOK
  <2>2. CASE answers' = answers \cup {CurrentPair(g)}
             /\ grants[g].phase = "live"
    BY <1>2, <1>3, <2>2, CurrentPairOK, AnswerAdded
  <2> QED BY <2>1, <2>2 DEF RereadGrant
<1>5. TypeOK'
  BY <1>1, <1>3, <1>4, AnsweredType DEF TypeOK, consentVars, sessionVars, recordVars,
     eventVars
<1>6. RequestsInv'
  BY <1>1, <1>3, <1>4, <1>5, AnsweredOK, OneMoves
<1> QED BY <1>4, <1>5, <1>6 DEF GrantInv

\* A withdrawal's reads and its writes, until they are committed, change no
\* table.
LEMMA WithdrawalReads ==
    ASSUME GrantInv, NEW r \in Requests,
           \/ \E p \in Persons, c \in Clients : WithdrawConsent(r, p, c)
           \/ WithdrawGrants(r) \/ WithdrawSessions(r) \/ WithdrawRecords(r)
    PROVE  GrantInv' /\ Stable
<1>1. TypeOK
  BY DEF GrantInv
<1>2. /\ UNCHANGED <<consentVars, grantVars, sessionVars>>
      /\ faulty' = faulty /\ (Event \/ UNCHANGED eventVars)
  BY DEF WithdrawConsent, WithdrawGrants, WithdrawSessions, WithdrawRecords,
     eventVars
<1>3. faulty' \in BOOLEAN /\ events' \in Nat
  BY <1>1, <1>2, EventType
<1>4. PICK q \in Request : /\ req' = [req EXCEPT ![r] = q]
                           /\ q.pc \in Withdrawing
  <2>1. ASSUME NEW p \in Persons, NEW c \in Clients, WithdrawConsent(r, p, c)
        PROVE  \E q \in Request : /\ req' = [req EXCEPT ![r] = q]
                                  /\ q.pc \in Withdrawing
    <3>1. PICK b \in BOOLEAN : b = (consent[p][c] # None)
      OBVIOUS
    <3>2. Begun(p, c, b) \in Request /\ Begun(p, c, b).pc = "wgrants"
      BY FirstWroteType
    <3>3. req' = [req EXCEPT ![r] = Begun(p, c, b)]
      BY <2>1, <3>1 DEF WithdrawConsent, Begun
    <3> QED BY <3>2, <3>3 DEF Withdrawing
  <2>2. ASSUME NEW pc \in Withdrawing, NEW W,
               W \in Writes,
               Wrote(r, pc, W)
        PROVE  \E q \in Request : /\ req' = [req EXCEPT ![r] = q]
                                  /\ q.pc \in Withdrawing
    <3>1. req[r] \in Request
      BY <1>1 DEF TypeOK
    <3>2. Going(req[r], pc, W) \in Request /\ Going(req[r], pc, W).pc = pc
      BY <2>2, <3>1, WroteType
    <3>3. req' = [req EXCEPT ![r] = Going(req[r], pc, W)]
      BY <1>1, <2>2 DEF Wrote, TypeOK, Going
    <3> QED BY <2>2, <3>2, <3>3
  <2>3. req[r].writes \in Writes
    BY <1>1 DEF TypeOK, Request
  <2>4. CASE WithdrawGrants(r)
    <3>1. GrantsOf(req[r].person, req[r].client) \subseteq Grants
      BY DEF GrantsOf
    <3>2. [req[r].writes EXCEPT !.grants = GrantsOf(req[r].person, req[r].client)]
             \in Writes
      BY <2>3, <3>1 DEF Writes
    <3> QED BY <2>2, <2>4, <3>2 DEF WithdrawGrants, Withdrawing
  <2>5. Recorded(req[r].person, req[r].client) \subseteq Sessions
    BY <1>1 DEF Recorded, TypeOK
  <2>6. CASE WithdrawSessions(r)
    <3>1. [req[r].writes EXCEPT !.sessions = Recorded(req[r].person, req[r].client)]
             \in Writes
      BY <2>3, <2>5 DEF Writes
    <3> QED BY <2>2, <2>6, <3>1 DEF WithdrawSessions, Withdrawing
  <2>7. CASE WithdrawRecords(r)
    <3>1. [req[r].writes EXCEPT !.records = Recorded(req[r].person, req[r].client)]
             \in Writes
      BY <2>3, <2>5 DEF Writes
    <3> QED BY <2>2, <2>7, <3>1 DEF WithdrawRecords, Withdrawing
  <2> QED BY <2>1, <2>4, <2>6, <2>7
<1>5. /\ req' \in [Requests -> Request] /\ req'[r] = q
      /\ \A x \in Requests : x # r => req'[x] = req[x]
  BY <1>1, <1>4 DEF TypeOK
<1>6. ApprovalOK(r)' /\ RefreshOK(r)'
  BY <1>4, <1>5 DEF ApprovalOK, RefreshOK, Approving, Opened, Refreshing,
     Withdrawing
<1> QED BY <1>2, <1>3, <1>5, <1>6, ReadStep

\* The commit of a withdrawal ends the grants and the sessions it holds and
\* drops the records and the codes: what stays alive belongs to somebody else,
\* or has got away.
LEMMA WithdrawCodesStep ==
    ASSUME GrantInv, NEW r \in Requests, WithdrawalOK(r), WithdrawCodes(r)
    PROVE  GrantInv' /\ Stable
<1>1. TypeOK /\ AuthInv
  BY DEF GrantInv
<1>2. PICK p \in Persons, c \in Clients, W \in Writes :
          p = req[r].person /\ c = req[r].client /\ W = req[r].writes
  BY <1>1 DEF WithdrawalOK, WithdrawCodes, Withdrawing, TypeOK, Request
<1> DEFINE G == W.grants
           own == W.sessions
<1>3. /\ EndGrants(G) /\ EndSessions(own) /\ kept' = kept \ W.records
      /\ consent' = IF W.consent THEN [consent EXCEPT ![p][c] = None] ELSE consent
      /\ codes' \subseteq codes /\ Answered(r)
      /\ UNCHANGED <<authz, clicked, sent, answers, astray, prints, eventVars>>
  BY <1>2 DEF WithdrawCodes
<1>4. /\ \A g \in G : g \in Grants /\ grants[g].phase # "absent"
      /\ own \subseteq Sessions
  BY <1>1, <1>2 DEF WithdrawalOK, WithdrawCodes, Withdrawing, Writes
<1>5. W.consent => \A g \in sent :
         grants[g].person = p /\ grants[g].client = c =>
            /\ grants[g].phase = "live" => g \in G
            /\ Ours(grants[g].first) => grants[g].first \in own
  BY <1>2 DEF WithdrawalOK, WithdrawCodes, Withdrawing, About, Reached
<1>6. W.consent => \A t \in answers :
         /\ grants[t.grant].person = p /\ grants[t.grant].client = c
         /\ Ours(t.session)
         => t.session \in own
  BY <1>2 DEF WithdrawalOK, WithdrawCodes, About
<1>7. W.records \subseteq own \cup astray
  BY <1>2 DEF WithdrawalOK, WithdrawCodes
<1> HIDE DEF G, own
<1>8. \A s \in Sessions :
        /\ sessions'[s].person = sessions[s].person
        /\ sessions'[s].client = sessions[s].client
        /\ s \in own => sessions'[s].state = "ended"
        /\ s \notin own => sessions'[s].state = sessions[s].state
  <2> SUFFICES ASSUME NEW s \in Sessions
               PROVE  /\ sessions'[s].person = sessions[s].person
                      /\ sessions'[s].client = sessions[s].client
                      /\ s \in own => sessions'[s].state = "ended"
                      /\ s \notin own => sessions'[s].state = sessions[s].state
    OBVIOUS
  <2>1. sessions[s] \in SessionRow
    BY <1>1 DEF TypeOK
  <2>2. /\ s \in own => sessions'[s] = [sessions[s] EXCEPT !.state = "ended"]
        /\ s \notin own => sessions'[s] = sessions[s]
    BY <1>3 DEF EndSessions
  <2> QED BY <2>1, <2>2 DEF SessionRow
<1>9. \A q \in Persons, d \in Clients :
         ~(W.consent /\ q = p /\ d = c) => consent'[q][d] = consent[q][d]
  BY <1>1, <1>3 DEF TypeOK
<1>10. Stable
  <2>1. \A g \in Grants : grants[g].generation \in Nat
    BY <1>1 DEF TypeOK, GrantRow
  <2>2. \A g \in Grants : grants[g].phase # "absent" =>
          /\ grants'[g].phase # "absent"
          /\ grants'[g].person = grants[g].person
          /\ grants'[g].client = grants[g].client
          /\ grants'[g].first = grants[g].first
          /\ grants[g].generation <= grants'[g].generation
    BY <1>1, <1>3, <2>1, EndGrantsRows
  <2>3. \A s \in Sessions : sessions[s].state # "none" =>
          /\ sessions'[s].state # "none"
          /\ sessions'[s].person = sessions[s].person
          /\ sessions'[s].client = sessions[s].client
          /\ OursAfter(s) => Ours(s)
          /\ OursAfter(s) /\ s \in kept => s \in kept'
    BY <1>3, <1>7, <1>8 DEF OursAfter, Ours, Live
  <2> QED BY <1>3, <2>2, <2>3 DEF Stable, Ours, OursAfter, Live
<1>11. TypeOK'
  <2>1. faulty' \in BOOLEAN /\ events' \in Nat
    BY <1>1, <1>3, EventType DEF eventVars
  <2>2. consent' \in [Persons -> [Clients -> Addresses \cup {None}]]
    BY <1>1, <1>3 DEF TypeOK
  <2>3. grants' \in [Grants -> GrantRow] /\ sessions' \in [Sessions -> SessionRow]
    BY <1>1, <1>3, EndGrantsType, EndSessionsType
  <2>4. req' \in [Requests -> Request]
    BY <1>1, <1>3, AnsweredType
  <2> QED BY <1>1, <1>3, <2>1, <2>2, <2>3, <2>4 DEF TypeOK
<1>12. \A s \in own : ~OursAfter(s)
  BY <1>4, <1>8 DEF OursAfter
<1>13. GrantsInv'
  <2> SUFFICES ASSUME NEW g \in Grants PROVE GrantOK(g)'
    BY DEF GrantsInv
  <2>1. GrantOK(g)
    BY DEF GrantInv, GrantsInv
  <2>2. CASE grants[g].phase = "absent"
    <3>1. grants'[g] = grants[g]
      BY <1>1, <1>3, <1>4, <2>2, EndGrantsRows
    <3> QED BY <1>3, <2>1, <2>2, <3>1 DEF GrantOK
  <2>3. CASE grants[g].phase # "absent"
    <3> DEFINE q == grants[g].person
               d == grants[g].client
    <3>1. /\ q \in Persons /\ d \in Clients
          /\ Covered(grants[g].session, q, d) /\ Covered(grants[g].first, q, d)
          /\ grants[g].generation = 0 => grants[g].session = grants[g].first
          /\ g \in sent /\ (grants[g].phase = "live" \/ Ours(grants[g].first)) =>
                consent[q][d] # None
      BY <2>1, <2>3 DEF GrantOK
    <3>2. /\ grants'[g].person = q /\ grants'[g].client = d
          /\ grants'[g].session = grants[g].session
          /\ grants'[g].first = grants[g].first
          /\ grants'[g].generation = grants[g].generation
          /\ grants'[g].phase # "absent"
          /\ grants'[g].phase = "live" => grants[g].phase = "live" /\ g \notin G
      BY <1>1, <1>3, <2>3, EndGrantsRows
    <3>3. Covered(grants[g].session, q, d)' /\ Covered(grants[g].first, q, d)'
      BY <1>10, <3>1, <3>2, CoveredStable DEF Covered, Held, Ours, OursAfter, Live
    <3>4. g \in sent' /\ (grants'[g].phase = "live" \/ OursAfter(grants[g].first))
             => consent'[q][d] # None
      <4>1. OursAfter(grants[g].first) => Ours(grants[g].first)
        BY <1>10, <3>1, CoveredStable
      <4>2. CASE W.consent /\ q = p /\ d = c
        BY <1>3, <1>5, <1>12, <3>2, <4>1, <4>2
      <4>3. CASE ~(W.consent /\ q = p /\ d = c)
        BY <1>3, <1>9, <3>1, <3>2, <4>1, <4>3
      <4> QED BY <4>2, <4>3
    <3> QED BY <3>1, <3>2, <3>3, <3>4 DEF GrantOK, Ours, OursAfter, Live
  <2> QED BY <2>2, <2>3
<1>14. CodesInv'
  BY <1>1, <1>3, EndGrantsRows DEF GrantInv, CodesInv, TypeOK
<1>15. AnswersInv'
  <2> SUFFICES ASSUME NEW t \in answers PROVE AnswerOK(t)'
    BY <1>3 DEF AnswersInv
  <2> DEFINE g == t.grant
             q == grants[g].person
             d == grants[g].client
  <2>1. AnswerOK(t) /\ g \in Grants
    BY <1>1 DEF GrantInv, AnswersInv, TypeOK
  <2>2. q \in Persons /\ d \in Clients
    BY <2>1 DEF GrantInv, GrantsInv, GrantOK, AnswerOK
  <2>3. Covered(t.session, q, d)' /\ (OursAfter(t.session) => Ours(t.session))
    BY <1>1, <1>3, <1>10, <2>1, EndGrantsRows, CoveredStable DEF AnswerOK,
       Covered, Held, Ours, OursAfter, Live
  <2>4. OursAfter(t.session) => consent'[q][d] # None
    <3>1. CASE W.consent /\ q = p /\ d = c
      BY <1>6, <1>12, <2>3, <3>1
    <3>2. CASE ~(W.consent /\ q = p /\ d = c)
      BY <1>9, <2>1, <2>2, <2>3, <3>2 DEF AnswerOK
    <3> QED BY <3>1, <3>2
  <2>5. /\ grants'[g].person = q /\ grants'[g].client = d
        /\ grants'[g].session = grants[g].session
        /\ grants'[g].first = grants[g].first
        /\ grants'[g].generation = grants[g].generation
        /\ grants'[g].phase # "absent"
    BY <1>1, <1>3, <2>1, EndGrantsRows DEF AnswerOK
  <2> QED BY <1>3, <2>1, <2>3, <2>4, <2>5 DEF AnswerOK, Ours, OursAfter, Live
<1>16. AuthInv'
  BY <1>1, <1>3 DEF AuthInv
<1>17. RequestsInv'
  BY <1>1, <1>3, <1>10, <1>11, AnsweredOK, OneMoves
<1> QED BY <1>10, <1>11, <1>13, <1>14, <1>15, <1>16, <1>17 DEF GrantInv

\* A refresh token in a client's hands names a grant whose code was sent.
LEMMA RefreshGrantStep ==
    ASSUME GrantInv, NEW r \in Requests, RefreshGrant(r)
    PROVE  GrantInv' /\ Stable
<1>1. PICK t \in answers : \/ RefreshRaced(t.grant, t.generation)
                           \/ RefreshReused(r, t.grant, t.generation)
                           \/ RefreshCurrent(r, t.grant, t.generation)
  BY DEF RefreshGrant
<1>2. t.grant \in Grants /\ t.grant \in sent /\ t.generation \in Nat
  BY DEF GrantInv, TypeOK, AnswersInv, AnswerOK
<1> QED BY <1>1, <1>2, RefreshRacedStep, RefreshReusedStep, RefreshCurrentStep

-----------------------------------------------------------------------------
(* What a withdrawal holds between its statements. *)

\* What no other request may do to a withdrawal: record a session behind its
\* back, send the code of a grant it does not hold, move one it holds, answer
\* with a session it does not reach.
Undisturbed(w) ==
    /\ req'[w] = req[w]
    /\ \A s \in kept' : s \in kept \/ sessions[s].state # "none"
    /\ req[w].pc = "wrecords" =>
          \A s \in kept' : \/ s \in kept \cup astray'
                           \/ sessions[s].person # req[w].person
                           \/ sessions[s].client # req[w].client
    /\ \A g \in sent' : grants[g].phase # "absent"
    /\ req[w].pc \in Withdrawing \ {"wgrants"} /\ req[w].writes.consent =>
          /\ \A g \in sent' : About(w, g) =>
                /\ g \in sent
                /\ grants'[g].phase = "live" =>
                      /\ grants[g].phase = "live"
                      /\ grants'[g].session = grants[g].session
          /\ \A t \in answers' :
                \/ t \in answers
                \/ ~About(w, t.grant)
                \/ t.session = grants[t.grant].first
                \/ /\ grants[t.grant].phase = "live"
                   /\ t.session = grants[t.grant].session

\* Most steps answer nobody, record no session and move no live grant.
Calm ==
    /\ sent' = sent /\ answers' = answers /\ kept' \subseteq kept
    /\ \A g \in Grants : grants[g].phase # "absent" /\ grants'[g].phase = "live" =>
          grants[g].phase = "live" /\ grants'[g].session = grants[g].session

\* Such a step disturbs no withdrawal.
LEMMA CalmUndisturbed ==
    ASSUME GrantInv, Calm, NEW w \in Requests, req'[w] = req[w]
    PROVE  Undisturbed(w)
<1>1. \A g \in sent : g \in Grants /\ grants[g].phase # "absent"
  BY DEF GrantInv, GrantsInv, GrantOK, TypeOK
<1> QED BY <1>1 DEF Calm, Undisturbed

\* A withdrawal that is not disturbed holds what it held.
LEMMA UndisturbedOK ==
    ASSUME GrantInv, GrantInv', Stable, WithdrawalInv, KeptInv,
           NEW w \in Requests, Undisturbed(w)
    PROVE  WithdrawalOK(w)'
<1>1. WithdrawalOK(w) /\ TypeOK /\ req'[w] = req[w]
  BY DEF WithdrawalInv, GrantInv, Undisturbed
<1> DEFINE W == req[w].writes
<1>2. W.grants \subseteq Grants
  BY <1>1 DEF TypeOK, Request, Writes
<1>3. \A g \in sent' :
         /\ g \in Grants /\ grants[g].phase # "absent"
         /\ grants'[g].phase # "absent" /\ grants'[g].person = grants[g].person
         /\ grants'[g].client = grants[g].client
         /\ grants'[g].first = grants[g].first
         /\ Held(grants[g].first, grants[g].person, grants[g].client)
         /\ Held(grants[g].session, grants[g].person, grants[g].client)
  <2>1. \A g \in sent' : g \in Grants
    BY DEF GrantInv, TypeOK
  <2>2. \A g \in Grants : GrantOK(g)
    BY DEF GrantInv, GrantsInv
  <2> QED BY <2>1, <2>2 DEF Undisturbed, Stable, Ours, OursAfter, Live, GrantOK, Covered
<1>4. \A s, p, c : Held(s, p, c) => (OursAfter(s) => Ours(s))
  BY DEF Held, Stable, Ours, OursAfter, Live
<1>5. CASE req[w].pc \in Withdrawing \ {"wgrants"}
  <2>1. \A g \in W.grants : grants'[g].phase # "absent"
    BY <1>1, <1>2, <1>5 DEF WithdrawalOK, Stable, Ours, OursAfter, Live
  <2>2. ASSUME W.consent, NEW g \in sent', About(w, g)
        PROVE  /\ g \in sent
               /\ grants'[g].phase = "live" => g \in W.grants
               /\ req[w].pc \in {"wrecords", "wcodes"} =>
                     /\ OursAfter(grants[g].first) => grants[g].first \in W.sessions
                     /\ grants'[g].phase = "live" /\ OursAfter(grants'[g].session)
                           => grants'[g].session \in W.sessions
    <3>1. /\ g \in sent
          /\ grants'[g].phase = "live" =>
                /\ grants[g].phase = "live"
                /\ grants'[g].session = grants[g].session
      BY <1>5, <2>2 DEF Undisturbed
    <3>2. grants[g].phase = "live" => g \in W.grants
      BY <1>1, <1>5, <2>2, <3>1 DEF WithdrawalOK
    <3>3. req[w].pc \in {"wrecords", "wcodes"} => Reached(w, g)
      BY <1>1, <2>2, <3>1 DEF WithdrawalOK
    <3> QED BY <1>3, <1>4, <3>1, <3>2, <3>3 DEF Reached
  <2>3. ASSUME W.consent, NEW t \in answers', About(w, t.grant),
               req[w].pc \in {"wrecords", "wcodes"}, OursAfter(t.session)
        PROVE  t.session \in W.sessions
    <3>1. t.grant \in sent'
      BY DEF GrantInv, AnswersInv, AnswerOK
    <3>2. CASE t \in answers
      <4>1. Held(t.session, grants[t.grant].person, grants[t.grant].client)
        BY <3>2 DEF GrantInv, AnswersInv, AnswerOK, Covered
      <4> QED BY <1>1, <1>4, <2>3, <3>2, <4>1 DEF WithdrawalOK
    <3>3. CASE t \notin answers
      <4>1. /\ t.grant \in sent
            /\ \/ t.session = grants[t.grant].first
               \/ /\ grants[t.grant].phase = "live"
                  /\ t.session = grants[t.grant].session
        BY <1>5, <2>2, <2>3, <3>1, <3>3 DEF Undisturbed
      <4>2. Reached(w, t.grant)
        BY <1>1, <2>3, <4>1 DEF WithdrawalOK
      <4> QED BY <1>3, <1>4, <2>3, <3>1, <4>1, <4>2 DEF Reached
    <3> QED BY <3>2, <3>3
  <2>4. ASSUME req[w].pc = "wrecords", NEW s \in kept',
               sessions'[s].person = req[w].person,
               sessions'[s].client = req[w].client
        PROVE  s \in W.sessions \cup astray'
    <3>1. CASE s \in kept
      <4>1. s \in Sessions /\ sessions[s].state # "none"
        BY <1>1, <3>1 DEF KeptInv, TypeOK
      <4>2. s \in W.sessions \cup astray
        BY <1>1, <2>4, <3>1, <4>1 DEF WithdrawalOK, Stable, Ours, OursAfter, Live
      <4> QED BY <4>2 DEF Stable, Ours, OursAfter, Live
    <3>2. CASE s \notin kept
      <4>1. s \in Sessions /\ sessions[s].state # "none"
        BY <2>4, <3>2 DEF Undisturbed, GrantInv, TypeOK
      <4> QED BY <2>4, <3>2, <4>1 DEF Undisturbed, Stable, Ours, OursAfter, Live
    <3> QED BY <3>1, <3>2
  <2>5. req[w].pc = "wcodes" => W.records \subseteq W.sessions \cup astray'
    BY <1>1 DEF WithdrawalOK, Stable, Ours, OursAfter, Live
  <2>6. req[w].person \in Persons /\ req[w].client \in Clients
    BY <1>1, <1>5 DEF WithdrawalOK
  <2>7. W.consent => \A g \in sent' : About(w, g)' =>
           /\ grants'[g].phase = "live" => g \in W.grants
           /\ req[w].pc \in {"wrecords", "wcodes"} => Reached(w, g)'
    BY <1>1, <1>3, <2>2 DEF About, Reached, OursAfter, Ours, Live
  <2>8. W.consent /\ req[w].pc \in {"wrecords", "wcodes"} =>
           \A t \in answers' : About(w, t.grant)' /\ Ours(t.session)' =>
              t.session \in W.sessions
    <3>1. \A t \in answers' : t.grant \in sent'
      BY DEF GrantInv, AnswersInv, AnswerOK
    <3> QED BY <1>1, <1>3, <2>3, <3>1 DEF About, OursAfter, Ours, Live
  <2> QED BY <1>1, <2>1, <2>4, <2>5, <2>6, <2>7, <2>8 DEF WithdrawalOK
<1>6. CASE req[w].pc \notin Withdrawing \ {"wgrants"}
  BY <1>1, <1>6 DEF WithdrawalOK, Withdrawing
<1> QED BY <1>5, <1>6

\* A step of one request that disturbs no other, or of none.
LEMMA WithdrawalsKept ==
    ASSUME GrantInv, GrantInv', Stable, WithdrawalInv, KeptInv,
           NEW r \in Requests, \A x \in Requests : x # r => Undisturbed(x),
           \A s \in kept' : s \in kept \/ sessions[s].state # "none",
           WithdrawalOK(r)'
    PROVE  WithdrawalInv' /\ KeptInv'
<1>1. WithdrawalInv'
  <2> SUFFICES ASSUME NEW x \in Requests, x # r PROVE WithdrawalOK(x)'
    BY DEF WithdrawalInv
  <2> QED BY UndisturbedOK
<1>2. kept \subseteq Sessions /\ kept' \subseteq Sessions
  BY DEF GrantInv, TypeOK
<1>3. KeptInv'
  BY <1>2 DEF KeptInv, Stable, Ours, OursAfter, Live
<1> QED BY <1>1, <1>3

\* A calm step that leaves every request where it was or with no withdrawal.
LEMMA CalmStep ==
    ASSUME GrantInv, GrantInv', Stable, WithdrawalInv, KeptInv, Calm,
           \A x \in Requests : \/ req'[x] = req[x]
                               \/ req'[x].pc \notin Withdrawing
    PROVE  WithdrawalInv' /\ KeptInv'
<1>1. WithdrawalInv'
  <2> SUFFICES ASSUME NEW x \in Requests PROVE WithdrawalOK(x)'
    BY DEF WithdrawalInv
  <2>1. CASE req'[x] = req[x]
    BY <2>1, CalmUndisturbed, UndisturbedOK
  <2>2. CASE req'[x].pc \notin Withdrawing
    BY <2>2 DEF WithdrawalOK, Withdrawing
  <2> QED BY <2>1, <2>2
<1>2. kept \subseteq Sessions /\ kept' \subseteq Sessions /\ kept' \subseteq kept
  BY DEF GrantInv, TypeOK, Calm
<1>3. KeptInv'
  BY <1>2 DEF KeptInv, Stable, Ours, OursAfter, Live
<1> QED BY <1>1, <1>3

\* The tables of a step that leaves answers, codes sent and sessions' records
\* alone, and ends grants at most.
LEMMA TablesCalm ==
    ASSUME TypeOK, sent' = sent, answers' = answers, kept' \subseteq kept,
           UNCHANGED grants \/ \E G : EndGrants(G)
    PROVE  Calm
BY EndGrantsRows DEF Calm

\* A request that answers, or goes on to a call that is not a withdrawal's.
LEMMA GoneOn ==
    ASSUME TypeOK, NEW r \in Requests,
           Answered(r) \/ \E pc : pc \notin Withdrawing /\ Goes(r, pc)
    PROVE  \A x \in Requests : \/ req'[x] = req[x]
                               \/ req'[x].pc \notin Withdrawing
BY DEF TypeOK, Request, Answered, Goes, Idle, Withdrawing

\* Nor is a request that begins or takes up something new.
LEMMA Elsewhere ==
    ASSUME TypeOK, NEW r \in Requests, NEW q, req' = [req EXCEPT ![r] = q],
           q.pc \notin Withdrawing
    PROVE  \A x \in Requests : \/ req'[x] = req[x]
                               \/ req'[x].pc \notin Withdrawing
BY DEF TypeOK

\* A request that has minted a session, or answers without one.
LEMMA MintElsewhere ==
    ASSUME TypeOK, NEW r \in Requests, NEW p, NEW c, NEW then,
           then \in {"record", "rerecord"}, MintSession(r, p, c, then)
    PROVE  \A x \in Requests : \/ req'[x] = req[x]
                               \/ req'[x].pc \notin Withdrawing
<1>1. CASE Answered(r)
  BY <1>1, GoneOn
<1>2. ASSUME NEW s \in Sessions,
             req' = [req EXCEPT ![r].pc = then, ![r].session = s,
                                ![r].minted = TRUE]
      PROVE  \A x \in Requests : \/ req'[x] = req[x]
                                 \/ req'[x].pc \notin Withdrawing
  <2>1. req'[r].pc = then /\ \A x \in Requests : x # r => req'[x] = req[x]
    BY <1>2 DEF TypeOK, Request
  <2> QED BY <2>1 DEF Withdrawing
<1> QED BY <1>1, <1>2 DEF MintSession

\* The steps of an approval: its record comes late to a withdrawal or not, and
\* its consent waits for one that took the last back.
LEMMA ApprovalUndisturbing ==
    ASSUME GrantInv, GrantInv', Stable, WithdrawalInv, KeptInv,
           NEW r \in Requests, Approval(r) \/ RecordAgentSession(r)
    PROVE  WithdrawalInv' /\ KeptInv'
<1>1. TypeOK /\ ApprovalOK(r) /\ RefreshOK(r)
  BY DEF GrantInv, RequestsInv
<1>2. ASSUME NEW p \in Persons, NEW a \in Auths,
             HandleAuthorizationRead(r, p, a) \/ HandleConsentDecision(r, p, a)
      PROVE  WithdrawalInv' /\ KeptInv'
  <2>1. Calm
    BY <1>1, <1>2, TablesCalm DEF HandleAuthorizationRead,
       HandleConsentDecision, grantVars, sessionVars, recordVars
  <2>2. PICK pc \in {"consent", "decide", "deny"} : Bind(r, p, a, pc)
    BY <1>2 DEF HandleAuthorizationRead, HandleConsentDecision
  <2>3. \A x \in Requests : req'[x] = req[x] \/ req'[x].pc \notin Withdrawing
    BY <1>1, <2>2 DEF Bind, Idle, TypeOK, Withdrawing
  <2> QED BY <2>1, <2>3, CalmStep
<1>3. CASE \/ FindConsent(r) \/ DecideAuthorization(r) \/ RevokeClientGrants(r)
           \/ IssueCode(r)
  <2>1. Calm
    BY <1>1, <1>3, TablesCalm DEF FindConsent, DecideAuthorization,
       RevokeClientGrants, IssueCode, grantVars, sessionVars, recordVars
  <2>2. Answered(r) \/ \E pc : pc \notin Withdrawing /\ Goes(r, pc)
    BY <1>3 DEF FindConsent, DecideAuthorization, RevokeClientGrants, IssueCode,
       Withdrawing
  <2> QED BY <1>1, <2>1, <2>2, GoneOn, CalmStep
<1>4. CASE Mint(r) \/ CredentialsFingerprint(r) \/ InsertGrant(r)
  <2>1. Calm
    <3>1. CASE InsertGrant(r)
      BY <1>1, <3>1 DEF InsertGrant, Calm, TypeOK, sessionVars, recordVars
    <3>2. CASE Mint(r) \/ CredentialsFingerprint(r)
      BY <1>1, <3>2, TablesCalm DEF Mint, CredentialsFingerprint, grantVars,
         sessionVars, recordVars
    <3> QED BY <1>4, <3>1, <3>2
  <2>2. \A x \in Requests : req'[x] = req[x] \/ req'[x].pc \notin Withdrawing
    <3>1. CASE Mint(r)
      BY <1>1, <3>1, MintElsewhere DEF Mint
    <3>2. CASE CredentialsFingerprint(r)
      <4>1. req'[r].pc = "end" /\ \A x \in Requests : x # r => req'[x] = req[x]
        BY <1>1, <3>2 DEF CredentialsFingerprint, TypeOK, Request
      <4> QED BY <4>1 DEF Withdrawing
    <3>3. CASE InsertGrant(r)
      <4>1. req'[r].pc = "code" /\ \A x \in Requests : x # r => req'[x] = req[x]
        BY <1>1, <3>3 DEF InsertGrant, TypeOK, Request
      <4> QED BY <4>1 DEF Withdrawing
    <3> QED BY <1>4, <3>1, <3>2, <3>3
  <2> QED BY <2>1, <2>2, CalmStep
<1>5. CASE RecordAgentSession(r)
  <2>1. PICK s \in Sessions : s = req[r].session /\ sessions[s].state # "none"
    BY <1>1, <1>5 DEF RecordAgentSession, ApprovalOK, RefreshOK, Opened, Held
  <2>2. /\ kept' = kept \cup {s}
        /\ LateFor(s) => s \in astray'
        /\ UNCHANGED <<grants, sent, answers>>
    BY <1>5, <2>1 DEF RecordAgentSession, grantVars
  <2>3. /\ \A x \in Requests : x # r => req'[x] = req[x]
        /\ req'[r].pc \notin Withdrawing
    BY <1>1, <1>5 DEF RecordAgentSession, Goes, TypeOK, Request, Withdrawing
  <2>4. \A g \in sent : g \in Grants /\ grants[g].phase # "absent"
    BY DEF GrantInv, GrantsInv, GrantOK, TypeOK
  <2>5. ASSUME NEW x \in Requests, x # r PROVE Undisturbed(x)
    BY <2>1, <2>2, <2>3, <2>4, <2>5 DEF Undisturbed, LateFor
  <2>6. WithdrawalOK(r)'
    BY <2>3 DEF WithdrawalOK, Withdrawing
  <2> QED BY <2>1, <2>2, <2>5, <2>6, WithdrawalsKept
<1>6. CASE UpsertConsent(r)
  <2>1. PICK g \in Grants : g = req[r].grant
    BY <1>1, <1>6 DEF UpsertConsent, ApprovalOK
  <2>2. /\ grants[g].phase # "absent" /\ grants[g].person = req[r].person
        /\ grants[g].client = authz[req[r].auth].client
    BY <1>1, <1>6, <2>1 DEF UpsertConsent, ApprovalOK
  <2>3. \A w \in Requests : About(w, g) => ~req[w].writes.consent
    BY <1>6, <2>2 DEF UpsertConsent, ConsentFree, About
  <2>4. sent' = sent \cup {g} /\ UNCHANGED <<grants, answers, kept, astray>>
    BY <1>6, <2>1 DEF UpsertConsent, sessionVars, recordVars
  <2>5. /\ \A x \in Requests : x # r => req'[x] = req[x]
        /\ req'[r].pc \notin Withdrawing
    BY <1>1, <1>6 DEF UpsertConsent, Answered, Idle, TypeOK, Withdrawing
  <2>6. \A h \in sent : h \in Grants /\ grants[h].phase # "absent"
    BY DEF GrantInv, GrantsInv, GrantOK, TypeOK
  <2>7. ASSUME NEW x \in Requests, x # r PROVE Undisturbed(x)
    BY <2>2, <2>3, <2>4, <2>5, <2>6, <2>7 DEF Undisturbed
  <2>8. WithdrawalOK(r)'
    BY <2>5 DEF WithdrawalOK, Withdrawing
  <2> QED BY <2>4, <2>7, <2>8, WithdrawalsKept
<1> QED BY <1>2, <1>3, <1>4, <1>5, <1>6 DEF Approval

\* An answer with the first or the current session of a grant disturbs no
\* withdrawal: it holds the grant and has reached its sessions.
LEMMA AnswerUndisturbing ==
    ASSUME GrantInv, NEW w \in Requests, req'[w] = req[w],
           UNCHANGED <<grants, sent, kept, astray>>,
           NEW t, answers' \in {answers, answers \cup {t}},
           \/ t.session = grants[t.grant].first
           \/ /\ grants[t.grant].phase = "live"
              /\ t.session = grants[t.grant].session
    PROVE  Undisturbed(w)
<1>1. \A g \in sent : g \in Grants /\ grants[g].phase # "absent"
  BY DEF GrantInv, GrantsInv, GrantOK, TypeOK
<1> QED BY <1>1 DEF Undisturbed

\* The steps of a refresh: the grant it would move may be held.
LEMMA RefreshUndisturbing ==
    ASSUME GrantInv, GrantInv', Stable, WithdrawalInv, KeptInv,
           NEW r \in Requests, Refresh(r)
    PROVE  WithdrawalInv' /\ KeptInv'
<1>1. TypeOK /\ RefreshOK(r)
  BY DEF GrantInv, RequestsInv
<1>2. CASE RefreshGrant(r)
  <2>1. PICK t \in answers : \/ RefreshRaced(t.grant, t.generation)
                             \/ RefreshReused(r, t.grant, t.generation)
                             \/ RefreshCurrent(r, t.grant, t.generation)
    BY <1>2 DEF RefreshGrant
  <2>2. CASE RefreshRaced(t.grant, t.generation)
    <3> DEFINE u == CurrentPair(t.grant)
    <3>1. /\ u.grant = t.grant /\ u.session = grants[t.grant].session
          /\ grants[t.grant].phase = "live"
      BY <2>2 DEF RefreshRaced, CurrentPair, Pair
    <3>2. /\ answers' = answers \cup {u} /\ req' = req
          /\ UNCHANGED <<grants, sent, kept, astray>>
      BY <2>2 DEF RefreshRaced, sessionVars, recordVars
    <3> HIDE DEF u
    <3>3. \A x \in Requests : Undisturbed(x)
      BY <3>1, <3>2, AnswerUndisturbing
    <3>4. \A x \in Requests : WithdrawalOK(x)'
      BY <3>3, UndisturbedOK
    <3> QED BY <3>2, <3>3, <3>4, WithdrawalsKept
  <2>3. CASE \/ RefreshReused(r, t.grant, t.generation)
             \/ RefreshCurrent(r, t.grant, t.generation)
    <3>1. Calm
      BY <1>1, <2>3, TablesCalm DEF RefreshReused, RefreshCurrent, grantVars,
         sessionVars, recordVars
    <3>2. \A x \in Requests : req'[x] = req[x] \/ req'[x].pc \notin Withdrawing
      <4>1. ASSUME NEW q, req' = [req EXCEPT ![r] = q],
                   q.pc \in {"revoke", "consented"}
            PROVE  \A x \in Requests : \/ req'[x] = req[x]
                                       \/ req'[x].pc \notin Withdrawing
        BY <1>1, <4>1, Elsewhere DEF Withdrawing
      <4> QED BY <2>3, <4>1 DEF RefreshReused, RefreshCurrent, Idle
    <3> QED BY <3>1, <3>2, CalmStep
  <2> QED BY <2>1, <2>2, <2>3
<1>3. CASE \/ StillConsented(r) \/ RevokeGrant(r) \/ CompareFingerprint(r)
           \/ ForgetAgentSession(r) \/ EndLosersSession(r)
  <2>1. Calm
    BY <1>1, <1>3, TablesCalm DEF StillConsented, RevokeGrant,
       CompareFingerprint, ForgetAgentSession, EndLosersSession, grantVars,
       sessionVars, recordVars
  <2>2. Answered(r) \/ \E pc : pc \notin Withdrawing /\ Goes(r, pc)
    BY <1>3 DEF StillConsented, RevokeGrant, CompareFingerprint,
       ForgetAgentSession, EndLosersSession, Withdrawing
  <2> QED BY <1>1, <2>1, <2>2, GoneOn, CalmStep
<1>4. CASE RefreshSession(r) \/ Remint(r)
  <2>1. Calm
    BY <1>1, <1>4, TablesCalm DEF RefreshSession, Remint, grantVars, recordVars
  <2>2. \A x \in Requests : req'[x] = req[x] \/ req'[x].pc \notin Withdrawing
    <3>1. CASE Remint(r)
      BY <1>1, <3>1, MintElsewhere DEF Remint
    <3>2. CASE Answered(r) \/ Goes(r, "compare")
      BY <1>1, <3>2, GoneOn DEF Withdrawing
    <3>3. CASE req' = [req EXCEPT ![r].pc = "advance", ![r].session = req[r].old]
      <4>1. req'[r].pc = "advance" /\ \A x \in Requests : x # r => req'[x] = req[x]
        BY <1>1, <3>3 DEF TypeOK, Request
      <4> QED BY <4>1 DEF Withdrawing
    <3> QED BY <1>4, <3>1, <3>2, <3>3 DEF RefreshSession
  <2> QED BY <2>1, <2>2, CalmStep
<1>5. CASE AdvanceGrant(r)
  <2>1. PICK g \in Grants : g = req[r].grant /\ g \in sent
    BY <1>1, <1>5 DEF AdvanceGrant, RefreshOK, Refreshing
  <2>2. CASE ~CanAdvance(r)
    <3>1. Calm
      BY <1>1, <1>5, <2>2, TablesCalm DEF AdvanceGrant, sessionVars, recordVars
    <3>2. \E pc : pc \notin Withdrawing /\ Goes(r, pc)
      BY <1>5, <2>2 DEF AdvanceGrant, Withdrawing
    <3> QED BY <1>1, <3>1, <3>2, GoneOn, CalmStep
  <2>3. CASE CanAdvance(r)
    <3>1. /\ grants[g].phase = "live" /\ Answered(r)
          /\ \A w \in Requests : g \notin req[w].writes.grants
          /\ UNCHANGED <<sent, kept, astray>>
      BY <1>5, <2>1, <2>3 DEF AdvanceGrant, CanAdvance, GrantsFree, sessionVars,
         recordVars
    <3>2. \A h \in Grants : h # g => grants'[h] = grants[h]
      BY <1>1, <1>5, <2>1, <2>3 DEF AdvanceGrant, TypeOK
    <3>3. \A t \in answers' : t \in answers \/ t.grant = g
      BY <1>5, <2>1, <2>3 DEF AdvanceGrant, Pair
    <3>4. /\ \A x \in Requests : x # r => req'[x] = req[x]
          /\ req'[r].pc \notin Withdrawing
      BY <1>1, <3>1 DEF Answered, Idle, TypeOK, Withdrawing
    <3>5. \A h \in sent : h \in Grants /\ grants[h].phase # "absent"
      BY DEF GrantInv, GrantsInv, GrantOK, TypeOK
    <3>6. ASSUME NEW x \in Requests, x # r PROVE Undisturbed(x)
      <4>1. req[x].pc \in Withdrawing \ {"wgrants"} /\ req[x].writes.consent =>
               ~About(x, g)
        BY <2>1, <3>1 DEF WithdrawalInv, WithdrawalOK
      <4> QED BY <3>1, <3>2, <3>3, <3>4, <3>5, <3>6, <4>1 DEF Undisturbed
    <3>7. WithdrawalOK(r)'
      BY <3>4 DEF WithdrawalOK, Withdrawing
    <3> QED BY <3>1, <3>6, <3>7, WithdrawalsKept
  <2> QED BY <2>2, <2>3
<1>6. CASE RereadGrant(r)
  <2> DEFINE g == req[r].grant
             u == CurrentPair(g)
  <2>1. /\ \A x \in Requests : x # r => req'[x] = req[x]
        /\ req'[r].pc \notin Withdrawing
    BY <1>1, <1>6 DEF RereadGrant, Answered, Idle, TypeOK, Withdrawing
  <2>2. /\ UNCHANGED <<grants, sent, kept, astray>>
        /\ \/ answers' = answers
           \/ answers' = answers \cup {u} /\ grants[g].phase = "live"
    BY <1>6 DEF RereadGrant, sessionVars, recordVars
  <2>3. u.grant = g /\ u.session = grants[g].session
    BY DEF CurrentPair, Pair
  <2> HIDE DEF u
  <2>4. CASE answers' = answers
    <3>1. Calm
      BY <1>1, <2>2, <2>4, TablesCalm
    <3> QED BY <2>1, <3>1, CalmStep
  <2>5. CASE answers' = answers \cup {u} /\ grants[g].phase = "live"
    <3>1. ASSUME NEW x \in Requests, x # r PROVE Undisturbed(x)
      BY <2>1, <2>2, <2>3, <2>5, <3>1, AnswerUndisturbing
    <3>2. WithdrawalOK(r)'
      BY <2>1 DEF WithdrawalOK, Withdrawing
    <3> QED BY <2>2, <3>1, <3>2, WithdrawalsKept
  <2> QED BY <2>2, <2>4, <2>5
<1>7. CASE RecordAgentSession(r)
  BY <1>7, ApprovalUndisturbing
<1> QED BY <1>2, <1>3, <1>4, <1>5, <1>6, <1>7 DEF Refresh

\* Failures, the clock, Auth and the redemption of a code.
LEMMA OthersUndisturbing ==
    ASSUME GrantInv, GrantInv', Stable, WithdrawalInv, KeptInv,
           \/ \E r \in Requests : Throw(r) \/ Undo(r) \/ Crash(r)
           \/ \E a \in Auths, c \in Clients, u \in Addresses :
                 HandleAuthorizeStart(a, c, u)
           \/ \E a \in Auths : AuthorizationExpires(a)
           \/ DeleteExpiredAuthorizations
           \/ \E k \in codes : CodeExpires(k)
           \/ \E k \in codes, matches \in BOOLEAN : HandleToken(k, matches)
           \/ \E g \in Grants : WindowCloses(g)
           \/ \E p \in Persons : GiveSecondFactor(p) \/ ChangeCredentials(p)
           \/ UNCHANGED vars
    PROVE  WithdrawalInv' /\ KeptInv'
<1>1. TypeOK
  BY DEF GrantInv
<1>2. ASSUME NEW r \in Requests, Throw(r) \/ Undo(r) \/ Crash(r)
      PROVE  WithdrawalInv' /\ KeptInv'
  <2>1. Calm
    BY <1>1, <1>2, TablesCalm DEF Throw, Undo, Crash, grantVars, sessionVars,
       recordVars
  <2>2. Answered(r) \/ \E pc : pc \notin Withdrawing /\ Goes(r, pc)
    BY <1>2 DEF Throw, Undo, Crash, Withdrawing
  <2> QED BY <1>1, <2>1, <2>2, GoneOn, CalmStep
<1>3. ASSUME NEW k \in codes, NEW m \in BOOLEAN, HandleToken(k, m)
      PROVE  WithdrawalInv' /\ KeptInv'
  <2> DEFINE u == Pair(k.grant, 0, k.session)
  <2>1. u.grant = k.grant /\ u.session = grants[u.grant].first
    BY DEF Pair, GrantInv, CodesInv
  <2>2. /\ UNCHANGED <<grants, sent, kept, astray, req>>
        /\ answers' \in {answers, answers \cup {u}}
    BY <1>3 DEF HandleToken, sessionVars, recordVars
  <2> HIDE DEF u
  <2>3. ASSUME NEW x \in Requests PROVE Undisturbed(x)
    BY <2>1, <2>2, AnswerUndisturbing
  <2>4. \A x \in Requests : WithdrawalOK(x)'
    BY <2>3, UndisturbedOK
  <2>5. CASE Requests = {}
    BY <2>2, <2>5 DEF WithdrawalInv, KeptInv, Stable, Ours, OursAfter, Live, GrantInv, TypeOK
  <2>6. CASE Requests # {}
    BY <2>2, <2>3, <2>4, <2>6, WithdrawalsKept
  <2> QED BY <2>5, <2>6
<1>4. ASSUME NEW g \in Grants, WindowCloses(g)
      PROVE  WithdrawalInv' /\ KeptInv'
  <2>1. Calm /\ req' = req
    BY <1>1, <1>4 DEF WindowCloses, Calm, TypeOK, GrantRow, sessionVars,
       recordVars
  <2> QED BY <2>1, CalmStep
<1>5. ASSUME \/ \E a \in Auths, c \in Clients, u \in Addresses :
                   HandleAuthorizeStart(a, c, u)
             \/ \E a \in Auths : AuthorizationExpires(a)
             \/ DeleteExpiredAuthorizations
             \/ \E k \in codes : CodeExpires(k)
             \/ \E p \in Persons : GiveSecondFactor(p) \/ ChangeCredentials(p)
             \/ UNCHANGED vars
      PROVE  WithdrawalInv' /\ KeptInv'
  <2>1. UNCHANGED <<grants, sent, answers, kept, req>>
    BY <1>5 DEF HandleAuthorizeStart, AuthorizationExpires,
       DeleteExpiredAuthorizations, CodeExpires, GiveSecondFactor,
       ChangeCredentials, vars, grantVars, sessionVars, recordVars
  <2> QED BY <1>1, <2>1, TablesCalm, CalmStep
<1> QED BY <1>2, <1>3, <1>4, <1>5

\* The statements of a withdrawal, one after the other.
LEMMA WithdrawalAdvances ==
    ASSUME GrantInv, GrantInv', Stable, WithdrawalInv, KeptInv,
           NEW r \in Requests, RevokeConnectedAgent(r)
    PROVE  WithdrawalInv' /\ KeptInv'
<1>1. TypeOK /\ WithdrawalOK(r)
  BY DEF GrantInv, WithdrawalInv
<1> DEFINE p == req[r].person
           c == req[r].client
           W == req[r].writes
<1>2. ASSUME NEW q, req' = [req EXCEPT ![r] = q],
             UNCHANGED <<consentVars, grantVars, sessionVars>>, WithdrawalOK(r)'
      PROVE  WithdrawalInv' /\ KeptInv'
  <2>1. Calm
    BY <1>1, <1>2, TablesCalm DEF grantVars, sessionVars, recordVars
  <2>2. \A x \in Requests : x # r => req'[x] = req[x]
    BY <1>1, <1>2 DEF TypeOK
  <2>3. \A x \in Requests : x # r => Undisturbed(x)
    BY <2>1, <2>2, CalmUndisturbed
  <2> QED BY <1>2, <2>1, <2>3, WithdrawalsKept DEF Calm
<1>3. ASSUME NEW u \in Persons, NEW d \in Clients, WithdrawConsent(r, u, d)
      PROVE  WithdrawalInv' /\ KeptInv'
  <2> DEFINE q == [Idle EXCEPT !.pc = "wgrants", !.person = u, !.client = d,
                     !.writes.consent = consent[u][d] # None]
  <2>1. q.pc = "wgrants" /\ q.person = u /\ q.client = d
    BY DEF Idle
  <2>2. req' = [req EXCEPT ![r] = q]
    BY <1>3 DEF WithdrawConsent
  <2>3. UNCHANGED <<consentVars, grantVars, sessionVars>>
    BY <1>3 DEF WithdrawConsent
  <2> HIDE DEF q
  <2>4. req'[r] = q
    BY <1>1, <2>2 DEF TypeOK
  <2>5. WithdrawalOK(r)'
    BY <2>1, <2>4 DEF WithdrawalOK, Withdrawing
  <2> QED BY <1>2, <2>2, <2>3, <2>5
<1>4. ASSUME NEW pc \in Withdrawing, NEW V \in Writes, Wrote(r, pc, V)
      PROVE  /\ \E q : req' = [req EXCEPT ![r] = q]
             /\ req'[r].pc = pc /\ req'[r].writes = V
             /\ req'[r].person = p /\ req'[r].client = c
  <2>1. req' = [req EXCEPT ![r] = Going(req[r], pc, V)]
    BY <1>1, <1>4 DEF Wrote, TypeOK, Going
  <2>2. req'[r] = Going(req[r], pc, V) /\ req[r] \in Request
    BY <1>1, <2>1 DEF TypeOK
  <2>3. \E q : req' = [req EXCEPT ![r] = q]
    BY <2>1
  <2>4. /\ Going(req[r], pc, V).pc = pc /\ Going(req[r], pc, V).writes = V
        /\ Going(req[r], pc, V).person = p /\ Going(req[r], pc, V).client = c
    BY <1>4, <2>2, WroteType
  <2> QED BY <2>2, <2>3, <2>4
<1>5. \A g \in sent : g \in Grants /\ GrantOK(g) /\ grants[g].phase # "absent"
  BY DEF GrantInv, GrantsInv, GrantOK, TypeOK
<1>6. W \in Writes
  BY <1>1 DEF TypeOK, Request
<1>7. CASE WithdrawGrants(r)
  <2>1. PICK V \in Writes : /\ V.grants = GrantsOf(p, c)
                            /\ V.consent = W.consent
                            /\ Wrote(r, "wsessions", V)
    <3>1. GrantsOf(p, c) \subseteq Grants
      BY DEF GrantsOf
    <3>2. [W EXCEPT !.grants = GrantsOf(p, c)] \in Writes
      BY <1>6, <3>1 DEF Writes
    <3> QED BY <1>6, <1>7, <3>2 DEF WithdrawGrants, Writes
  <2>2. UNCHANGED <<consentVars, grantVars, sessionVars>>
    BY <1>7 DEF WithdrawGrants
  <2>3. p \in Persons /\ c \in Clients
    BY <1>1, <1>7 DEF WithdrawGrants, WithdrawalOK, Withdrawing
  <2>4. WithdrawalOK(r)'
    BY <1>4, <1>5, <2>1, <2>2, <2>3 DEF WithdrawalOK, Withdrawing, GrantsOf,
       About, grantVars
  <2> QED BY <1>2, <1>4, <2>1, <2>2, <2>4 DEF Withdrawing
<1>8. CASE WithdrawSessions(r)
  <2>1. PICK V \in Writes : /\ V.sessions = Recorded(p, c)
                            /\ V.consent = W.consent /\ V.grants = W.grants
                            /\ Wrote(r, "wrecords", V)
    <3>1. Recorded(p, c) \subseteq Sessions
      BY <1>1 DEF Recorded, TypeOK
    <3>2. [W EXCEPT !.sessions = Recorded(p, c)] \in Writes
      BY <1>6, <3>1 DEF Writes
    <3> QED BY <1>6, <1>8, <3>2 DEF WithdrawSessions, Writes
  <2>2. UNCHANGED <<consentVars, grantVars, sessionVars>>
    BY <1>8 DEF WithdrawSessions
  <2>3. /\ p \in Persons /\ c \in Clients
        /\ \A g \in W.grants : grants[g].phase # "absent"
        /\ W.consent => \A g \in sent :
              About(r, g) /\ grants[g].phase = "live" => g \in W.grants
    BY <1>1, <1>8 DEF WithdrawSessions, WithdrawalOK, Withdrawing
  <2>4. \A s : Covered(s, p, c) /\ Ours(s) => s \in V.sessions
    BY <2>1 DEF Covered, Held, Recorded
  <2>5. \A g \in sent : About(r, g) =>
           /\ Ours(grants[g].first) => grants[g].first \in V.sessions
           /\ Ours(grants[g].session) => grants[g].session \in V.sessions
    BY <1>5, <2>4 DEF GrantOK, About
  <2>6. \A t \in answers : About(r, t.grant) /\ Ours(t.session) =>
           t.session \in V.sessions
    BY <2>4 DEF GrantInv, AnswersInv, AnswerOK, About
  <2>7. \A s \in kept : sessions[s].person = p /\ sessions[s].client = c =>
           s \in V.sessions
    BY <2>1 DEF Recorded
  <2>8. WithdrawalOK(r)'
    BY <1>4, <2>1, <2>2, <2>3, <2>5, <2>6, <2>7 DEF WithdrawalOK, Withdrawing,
       About, Reached, Ours, Live, grantVars, sessionVars, recordVars
  <2> QED BY <1>2, <1>4, <2>1, <2>2, <2>8 DEF Withdrawing
<1>9. CASE WithdrawRecords(r)
  <2>1. PICK V \in Writes : /\ V.records = Recorded(p, c)
                            /\ V.consent = W.consent /\ V.grants = W.grants
                            /\ V.sessions = W.sessions
                            /\ Wrote(r, "wcodes", V)
    <3>1. Recorded(p, c) \subseteq Sessions
      BY <1>1 DEF Recorded, TypeOK
    <3>2. [W EXCEPT !.records = Recorded(p, c)] \in Writes
      BY <1>6, <3>1 DEF Writes
    <3> QED BY <1>6, <1>9, <3>2 DEF WithdrawRecords, Writes
  <2>2. UNCHANGED <<consentVars, grantVars, sessionVars>>
    BY <1>9 DEF WithdrawRecords
  <2>3. req[r].pc = "wrecords"
    BY <1>9 DEF WithdrawRecords
  <2>4. V.records \subseteq V.sessions \cup astray
    BY <1>1, <2>1, <2>3 DEF WithdrawalOK, Recorded
  <2>5. WithdrawalOK(r)'
    BY <1>1, <1>4, <2>1, <2>2, <2>3, <2>4 DEF WithdrawalOK, Withdrawing,
       About, Reached, Ours, Live, grantVars, sessionVars, recordVars
  <2> QED BY <1>2, <1>4, <2>1, <2>2, <2>5 DEF Withdrawing
<1>10. CASE WithdrawCodes(r)
  <2>1. Calm
    BY <1>1, <1>10, TablesCalm DEF WithdrawCodes
  <2>2. Answered(r)
    BY <1>10 DEF WithdrawCodes
  <2> QED BY <1>1, <2>1, <2>2, GoneOn, CalmStep
<1> QED BY <1>3, <1>7, <1>8, <1>9, <1>10 DEF RevokeConnectedAgent

-----------------------------------------------------------------------------
(* The invariant holds in every reachable state. *)

\* Before the first request nothing is parked, opened or handed out.
LEMMA GrantInit == Init => GrantInv
<1> SUFFICES ASSUME Init PROVE GrantInv
  OBVIOUS
<1>1. TypeOK
  BY InitType
<1>2. AuthInv /\ CodesInv /\ AnswersInv
  BY DEF Init, AuthInv, CodesInv, AnswersInv, NoAuth
<1>3. GrantsInv
  BY DEF Init, GrantsInv, GrantOK, NoGrant
<1>4. RequestsInv
  BY DEF Init, RequestsInv, ApprovalOK, RefreshOK, Idle, Approving, Opened,
     Refreshing
<1> QED BY <1>1, <1>2, <1>3, <1>4 DEF GrantInv

\* No handler, failure or event breaks what holds of the tables, and none takes
\* back what it built on.
LEMMA GrantNext ==
    ASSUME GrantInv, WithdrawalInv, [Next]_vars PROVE GrantInv' /\ Stable
<1>1. CASE UNCHANGED vars
  <2>1. TypeOK'
    BY <1>1 DEF vars, GrantInv, TypeOK
  <2>2. Stable
    BY <1>1, StutterStable DEF vars, GrantInv, consentVars, grantVars,
       sessionVars, recordVars
  <2>3. AuthInv'
    BY <1>1 DEF vars, GrantInv, AuthInv
  <2>4. GrantsInv' /\ CodesInv' /\ AnswersInv'
    BY <1>1, <2>2, TablesStable DEF vars, grantVars
  <2>5. RequestsInv'
    BY <1>1, <2>1, <2>2, NoneMoves DEF vars
  <2> QED BY <2>1, <2>2, <2>3, <2>4, <2>5 DEF GrantInv
<1>2. ASSUME NEW r \in Requests, Approval(r) PROVE GrantInv' /\ Stable
  BY <1>2, HandleAuthorizationReadStep, HandleConsentDecisionStep,
     FindConsentStep, DecideAuthorizationStep, MintStep,
     RecordAgentSessionStep, CredentialsFingerprintStep,
     RevokeClientGrantsStep, InsertGrantStep, IssueCodeStep,
     UpsertConsentStep DEF Approval
<1>3. ASSUME NEW r \in Requests, Refresh(r) PROVE GrantInv' /\ Stable
  BY <1>3, RefreshGrantStep, StillConsentedStep, RevokeGrantStep,
     RefreshSessionStep, CompareFingerprintStep, RemintStep,
     ForgetAgentSessionStep, AdvanceGrantStep,
     EndLosersSessionStep, RereadGrantStep DEF Refresh
<1>4. ASSUME NEW r \in Requests, Throw(r) \/ Undo(r) \/ Crash(r)
      PROVE  GrantInv' /\ Stable
  BY <1>4, ThrowStep, UndoStep, CrashStep
<1>5. ASSUME NEW a \in Auths, NEW c \in Clients, NEW u \in Addresses,
             HandleAuthorizeStart(a, c, u)
      PROVE  GrantInv' /\ Stable
  BY <1>5, HandleAuthorizeStartStep
<1>6. ASSUME NEW a \in Auths, AuthorizationExpires(a) PROVE GrantInv' /\ Stable
  BY <1>6, AuthorizationExpiresStep
<1>7. CASE DeleteExpiredAuthorizations
  BY <1>7, DeleteExpiredStep
<1>8. ASSUME NEW k \in codes, CodeExpires(k) PROVE GrantInv' /\ Stable
  BY <1>8, CodeExpiresStep
<1>9. ASSUME NEW k \in codes, NEW m \in BOOLEAN, HandleToken(k, m)
      PROVE  GrantInv' /\ Stable
  BY <1>9, HandleTokenStep
<1>10. ASSUME NEW g \in Grants, WindowCloses(g) PROVE GrantInv' /\ Stable
  BY <1>10, WindowClosesStep
<1>11. ASSUME NEW p \in Persons, GiveSecondFactor(p) \/ ChangeCredentials(p)
       PROVE  GrantInv' /\ Stable
  BY <1>11, GiveSecondFactorStep, ChangeCredentialsStep
<1>12. ASSUME NEW r \in Requests, RevokeConnectedAgent(r)
       PROVE  GrantInv' /\ Stable
  BY <1>12, WithdrawalReads, WithdrawCodesStep DEF RevokeConnectedAgent,
     WithdrawalInv
<1> QED BY <1>1, <1>2, <1>3, <1>4, <1>5, <1>6, <1>7, <1>8, <1>9, <1>10, <1>11,
           <1>12 DEF Next

\* Nor does a withdrawal lose what it holds.
LEMMA WithdrawalNext ==
    ASSUME GrantInv, WithdrawalInv, KeptInv, [Next]_vars
    PROVE  WithdrawalInv' /\ KeptInv'
<1>1. GrantInv' /\ Stable
  BY GrantNext
<1>2. ASSUME NEW r \in Requests, Approval(r) PROVE WithdrawalInv' /\ KeptInv'
  BY <1>1, <1>2, ApprovalUndisturbing
<1>3. ASSUME NEW r \in Requests, Refresh(r) PROVE WithdrawalInv' /\ KeptInv'
  BY <1>1, <1>3, RefreshUndisturbing
<1>4. ASSUME NEW r \in Requests, RevokeConnectedAgent(r)
      PROVE  WithdrawalInv' /\ KeptInv'
  BY <1>1, <1>4, WithdrawalAdvances
<1> QED BY <1>1, <1>2, <1>3, <1>4, OthersUndisturbing DEF Next

\* The inductive invariant of the authorization server: what holds of its
\* tables, and what a withdrawal under way holds.
THEOREM GrantInvariant == Spec => [](GrantInv /\ WithdrawalInv /\ KeptInv)
<1>1. Init => WithdrawalInv /\ KeptInv
  BY DEF Init, WithdrawalInv, WithdrawalOK, Withdrawing, KeptInv, Idle
<1>2. GrantInv /\ WithdrawalInv /\ KeptInv /\ [Next]_vars
         => (GrantInv /\ WithdrawalInv /\ KeptInv)'
  BY GrantNext, WithdrawalNext
<1> QED BY <1>1, <1>2, GrantInit, PTL DEF Spec

\* The tables, Auth's sessions and the requests keep their kinds.
THEOREM GrantTypes == Spec => []TypeOK
<1>1. GrantInv => TypeOK
  BY DEF GrantInv
<1> QED BY <1>1, GrantInvariant, PTL

-----------------------------------------------------------------------------
(* A withdrawal, as the tables it does not write see it. *)

\* A request that answers, and one that goes on to its next call.
LEMMA RequestMoves ==
    ASSUME TypeOK, NEW r \in Requests
    PROVE  /\ Answered(r) => /\ req'[r] = Idle
                             /\ \A x \in Requests : x # r => req'[x] = req[x]
           /\ \A pc : Goes(r, pc) =>
                 /\ req'[r].pc = pc
                 /\ req'[r].person = req[r].person /\ req'[r].auth = req[r].auth
                 /\ req'[r].grant = req[r].grant /\ req'[r].old = req[r].old
                 /\ req'[r].generation = req[r].generation
                 /\ req'[r].session = req[r].session
                 /\ req'[r].minted = req[r].minted
                 /\ \A x \in Requests : x # r => req'[x] = req[x]
<1>1. req \in [Requests -> Request]
  BY DEF TypeOK
<1> QED BY <1>1 DEF Answered, Goes, Request

\* Its request is a withdrawal's or idle before and after.  Grants and sessions
\* only end, consents only go; the rest stays.
LEMMA WithdrawalMoves ==
    ASSUME GrantInv, WithdrawalInv, NEW r \in Requests, RevokeConnectedAgent(r)
    PROVE  /\ req[r].pc \in Withdrawing \cup {"idle"}
           /\ req'[r].pc \in Withdrawing \cup {"idle"}
           /\ \A x \in Requests : x # r => req'[x] = req[x]
           /\ UNCHANGED <<authz, clicked, answers, faulty>>
           /\ \A p \in Persons, c \in Clients :
                 consent'[p][c] \in {None, consent[p][c]}
           /\ \/ UNCHANGED <<grants, sessions>>
              \/ \E G \in SUBSET Grants, S \in SUBSET Sessions :
                    /\ EndGrants(G) /\ EndSessions(S)
                    /\ \A g \in G : grants[g].phase # "absent"
<1>1. TypeOK /\ WithdrawalOK(r)
  BY DEF GrantInv, WithdrawalInv
<1>2. CASE \/ \E p \in Persons, c \in Clients : WithdrawConsent(r, p, c)
           \/ WithdrawGrants(r) \/ WithdrawSessions(r) \/ WithdrawRecords(r)
  <2>1. UNCHANGED <<consentVars, grantVars, sessionVars, faulty>>
    BY <1>2 DEF WithdrawConsent, WithdrawGrants, WithdrawSessions,
       WithdrawRecords, eventVars
  <2>2. \E q : /\ req' = [req EXCEPT ![r] = q]
               /\ q.pc \in Withdrawing
    <3>1. ASSUME NEW pc \in Withdrawing, NEW W, Wrote(r, pc, W)
          PROVE  \E q : /\ req' = [req EXCEPT ![r] = q]
                        /\ q.pc \in Withdrawing
      <4> DEFINE q == [[req[r] EXCEPT !.pc = pc] EXCEPT !.writes = W]
      <4>1. q.pc = pc
        BY <1>1 DEF TypeOK, Request
      <4>2. req' = [req EXCEPT ![r] = q]
        BY <1>1, <3>1 DEF Wrote, TypeOK
      <4> QED BY <4>1, <4>2
    <3>2. ASSUME NEW p \in Persons, NEW c \in Clients, WithdrawConsent(r, p, c)
          PROVE  \E q : /\ req' = [req EXCEPT ![r] = q]
                        /\ q.pc \in Withdrawing
      <4>1. PICK b \in BOOLEAN : b = (consent[p][c] # None)
        OBVIOUS
      <4>2. req' = [req EXCEPT ![r] = Begun(p, c, b)]
        BY <3>2, <4>1 DEF WithdrawConsent, Begun
      <4>3. Begun(p, c, b).pc \in Withdrawing
        BY FirstWroteType DEF Withdrawing
      <4> QED BY <4>2, <4>3
    <3> QED BY <1>2, <3>1, <3>2 DEF WithdrawGrants, WithdrawSessions,
               WithdrawRecords, Withdrawing
  <2>3. PICK q : req' = [req EXCEPT ![r] = q] /\ q.pc \in Withdrawing
    BY <2>2
  <2>4. req'[r] = q /\ \A x \in Requests : x # r => req'[x] = req[x]
    BY <1>1, <2>3 DEF TypeOK
  <2>5. req[r].pc \in Withdrawing \cup {"idle"}
    <3>1. CASE \E p \in Persons, c \in Clients : WithdrawConsent(r, p, c)
      BY <3>1 DEF WithdrawConsent, Idle
    <3>2. CASE WithdrawGrants(r) \/ WithdrawSessions(r) \/ WithdrawRecords(r)
      BY <3>2 DEF WithdrawGrants, WithdrawSessions, WithdrawRecords, Withdrawing
    <3> QED BY <1>2, <3>1, <3>2
  <2> QED BY <2>1, <2>3, <2>4, <2>5 DEF consentVars, grantVars, sessionVars
<1>3. CASE WithdrawCodes(r)
  <2> DEFINE W == req[r].writes
  <2>1. /\ W.grants \in SUBSET Grants /\ W.sessions \in SUBSET Sessions
        /\ \A g \in W.grants : grants[g].phase # "absent"
    BY <1>1, <1>3 DEF WithdrawCodes, WithdrawalOK, Withdrawing, TypeOK, Request,
       Writes
  <2>2. /\ EndGrants(W.grants) /\ EndSessions(W.sessions) /\ Answered(r)
        /\ UNCHANGED <<authz, clicked, answers, faulty>>
        /\ \/ consent' = consent
           \/ consent' = [consent EXCEPT ![req[r].person][req[r].client] = None]
    BY <1>3 DEF WithdrawCodes, eventVars
  <2>3. req'[r] = Idle /\ \A x \in Requests : x # r => req'[x] = req[x]
    BY <1>1, <2>2, RequestMoves
  <2>4. \A p \in Persons, c \in Clients : consent'[p][c] \in {None, consent[p][c]}
    BY <1>1, <2>2 DEF TypeOK
  <2>5. req[r].pc \in Withdrawing
    BY <1>3 DEF WithdrawCodes, Withdrawing
  <2> QED BY <2>1, <2>2, <2>3, <2>4, <2>5 DEF Idle
<1> QED BY <1>2, <1>3 DEF RevokeConnectedAgent

-----------------------------------------------------------------------------
(* What a withdrawal reaches. *)

\* Every live session in a client's hands that has not got away is recorded and
\* consented to, so revoke_connected_agent shuts the client out.
THEOREM WithdrawalShutsOut == Spec => []WithdrawnMeansOut
<1>1. GrantInv => WithdrawnMeansOut
  BY DEF GrantInv, AnswersInv, AnswerOK, WithdrawnMeansOut, Covered, Held, Ours, OursAfter, Live
<1> QED BY <1>1, GrantInvariant, PTL

-----------------------------------------------------------------------------
(* The handlers implement GrantLedger. *)

\* The grants and the answers, as the ledger sees them, do not move.
SameLedger ==
    /\ answers' = answers
    /\ \A g \in Grants : /\ grants'[g].phase = grants[g].phase
                         /\ grants'[g].generation = grants[g].generation
                         /\ grants'[g].session = grants[g].session
                         /\ grants'[g].first = grants[g].first

\* Then the ledger stutters.
LEMMA LedgerStutters ==
    ASSUME SameLedger PROVE UNCHANGED Ledger!ledgerVars
BY DEF SameLedger, Ledger!ledgerVars

\* What leaves both tables alone does not move the ledger.
LEMMA TablesAlone ==
    ASSUME UNCHANGED <<grants, answers>> PROVE UNCHANGED Ledger!ledgerVars
BY DEF Ledger!ledgerVars

\* insertGrant opens a grant.
LEMMA InsertOpens ==
    ASSUME GrantInv, NEW r \in Requests, InsertGrant(r)
    PROVE  Ledger!LedgerNext
<1>0. PICK s \in Sessions : s = req[r].session
  BY DEF GrantInv, RequestsInv, ApprovalOK, InsertGrant, Opened, Held
<1>1. PICK g \in Grants :
          /\ grants[g].phase = "absent"
          /\ grants' = [grants EXCEPT ![g] =
                [phase |-> "live", person |-> req[r].person,
                 client |-> authz[req[r].auth].client, generation |-> 0,
                 session |-> s, print |-> req[r].print,
                 recent |-> TRUE, of |-> req[r].auth, first |-> s]]
  BY <1>0 DEF InsertGrant
<1>3. grants[g].generation = 0
  BY <1>1 DEF GrantInv, GrantsInv, GrantOK, NoGrant
<1>4. /\ grants'[g].phase = "live" /\ grants'[g].generation = 0
      /\ grants'[g].session = s /\ grants'[g].first = s
      /\ \A h \in Grants : h # g => grants'[h] = grants[h]
  BY <1>1 DEF GrantInv, TypeOK
<1>5. answers' = answers
  BY DEF InsertGrant
<1>6. Ledger!Open(g, s)
  <2> DEFINE phases == [h \in Grants |-> grants[h].phase]
             held == [h \in Grants |-> grants[h].session]
             firsts == [h \in Grants |-> grants[h].first]
             turns == [h \in Grants |-> grants[h].generation]
  <2>0. phases[g] = "absent"
    BY <1>1
  <2>1. phases' = [phases EXCEPT ![g] = "live"]
    BY <1>4
  <2>2. held' = [held EXCEPT ![g] = s]
    BY <1>4
  <2>3. firsts' = [firsts EXCEPT ![g] = s]
    BY <1>4
  <2>4. turns' = turns
    BY <1>3, <1>4
  <2> HIDE DEF phases, held, firsts, turns
  <2> QED BY <1>5, <2>0, <2>1, <2>2, <2>3, <2>4 DEF Ledger!Open, phases, held,
             firsts, turns
<1> QED BY <1>6 DEF Ledger!LedgerNext

\* A won compare-and-set renews it.
LEMMA AdvanceRenews ==
    ASSUME GrantInv, NEW r \in Requests, AdvanceGrant(r)
    PROVE  Ledger!LedgerNext \/ UNCHANGED Ledger!ledgerVars
<1>0. PICK g \in Grants, s \in Sessions :
          g = req[r].grant /\ s = req[r].session
  BY DEF GrantInv, RequestsInv, RefreshOK, AdvanceGrant, Refreshing, Held
<1>1. CASE ~CanAdvance(r)
  BY <1>1, TablesAlone DEF AdvanceGrant
<1>2. CASE CanAdvance(r)
  <2>2. /\ grants[g].phase = "live" /\ grants[g].generation = req[r].generation
        /\ grants' = [grants EXCEPT ![g].generation = req[r].generation + 1,
                                    ![g].session = s, ![g].recent = TRUE]
        /\ answers' = answers \cup {Pair(g, req[r].generation + 1, s)}
    BY <1>0, <1>2 DEF CanAdvance, AdvanceGrant
  <2>5. grants[g].phase = "live"
    BY <2>2
  <2>3. /\ grants'[g].phase = "live" /\ grants'[g].session = s
        /\ grants'[g].generation = grants[g].generation + 1
        /\ grants'[g].first = grants[g].first
        /\ \A h \in Grants : h # g => grants'[h] = grants[h]
    BY <2>2 DEF GrantInv, TypeOK, GrantRow
  <2>4. Ledger!Renew(g, s)
    <3> DEFINE phases == [h \in Grants |-> grants[h].phase]
               held == [h \in Grants |-> grants[h].session]
               firsts == [h \in Grants |-> grants[h].first]
               turns == [h \in Grants |-> grants[h].generation]
    <3>0. phases[g] = "live"
      BY <2>2
    <3>1. phases' = phases
      BY <2>5, <2>3
    <3>2. held' = [held EXCEPT ![g] = s]
      BY <2>3
    <3>3. firsts' = firsts
      BY <2>3
    <3>4. turns' = [turns EXCEPT ![g] = @ + 1]
      BY <2>3
    <3>5. answers' = answers \cup {Ledger!Pair(g, turns[g] + 1, s)}
      BY <2>2 DEF Ledger!Pair, Pair
    <3> QED BY <3>0, <3>1, <3>2, <3>3, <3>4, <3>5 DEF Ledger!Renew
  <2> QED BY <2>4 DEF Ledger!LedgerNext
<1> QED BY <1>1, <1>2

\* A code buys the first pair, or nothing.
LEMMA CodeRedeems ==
    ASSUME GrantInv, NEW k \in codes, NEW m \in BOOLEAN, HandleToken(k, m)
    PROVE  Ledger!LedgerNext \/ UNCHANGED Ledger!ledgerVars
<1>1. CASE answers' = answers
  BY <1>1, TablesAlone DEF HandleToken
<1>2. CASE answers' = answers \cup {Pair(k.grant, 0, k.session)}
  <2>1. k.grant \in Grants /\ grants[k.grant].phase # "absent"
        /\ k.session = grants[k.grant].first
    BY DEF GrantInv, TypeOK, CodesInv
  <2>2. Ledger!Redeem(k.grant)
    BY <1>2, <2>1 DEF HandleToken, Ledger!Redeem, Ledger!Pair, Pair
  <2> QED BY <2>1, <2>2 DEF Ledger!LedgerNext
<1> QED BY <1>1, <1>2 DEF HandleToken

\* A refresh that lost is told the current pair.
LEMMA LoserIsTold ==
    ASSUME NEW g \in Grants, grants[g].phase = "live", UNCHANGED grants,
           answers' = answers \cup {CurrentPair(g)}
    PROVE  Ledger!LedgerNext
<1>1. Ledger!Tell(g)
  BY DEF Ledger!Tell, Ledger!Pair, CurrentPair, Pair
<1> QED BY <1>1 DEF Ledger!LedgerNext

\* Revocations end grants.
LEMMA RevocationEnds ==
    ASSUME GrantInv, NEW G \in SUBSET Grants, EndGrants(G),
           \A g \in G : grants[g].phase # "absent", UNCHANGED answers
    PROVE  Ledger!LedgerNext
<1>0. PICK L \in SUBSET Grants : L = {g \in G : grants[g].phase = "live"}
  OBVIOUS
<1> DEFINE phases == [g \in Grants |-> grants[g].phase]
           held == [g \in Grants |-> grants[g].session]
           firsts == [g \in Grants |-> grants[g].first]
           turns == [g \in Grants |-> grants[g].generation]
<1>1. \A g \in Grants : grants[g].phase \in {"absent", "live", "revoked"}
  BY DEF GrantInv, TypeOK, GrantRow
<1>2. L \in SUBSET Grants /\ \A g \in L : phases[g] = "live"
  BY <1>0
<1>3. phases' = [g \in Grants |-> IF g \in L THEN "revoked" ELSE phases[g]]
  BY <1>0, <1>1, EndGrantsRows DEF GrantInv
<1>4. held' = held /\ firsts' = firsts /\ turns' = turns
  BY EndGrantsRows DEF GrantInv
<1> HIDE DEF phases, held, firsts, turns
<1>5. Ledger!End(L)
  BY <1>2, <1>3, <1>4 DEF Ledger!End, phases, held, firsts, turns
<1> QED BY <1>2, <1>5 DEF Ledger!LedgerNext

\* Every step of the server is a step of the ledger or leaves it alone.
LEMMA LedgerStep ==
    ASSUME GrantInv, WithdrawalInv, [Next]_vars
    PROVE  [Ledger!LedgerNext]_(Ledger!ledgerVars)
<1> DEFINE Goal == Ledger!LedgerNext \/ UNCHANGED Ledger!ledgerVars
<1> SUFFICES Goal
  OBVIOUS
<1>1. CASE UNCHANGED vars
  BY <1>1, TablesAlone DEF vars
<1>2. ASSUME NEW r \in Requests, Approval(r) PROVE Goal
  <2>1. CASE InsertGrant(r)
    BY <2>1, InsertOpens
  <2>2. CASE RevokeClientGrants(r)
    <3> DEFINE G == GrantsOf(req[r].person, authz[req[r].auth].client)
    <3>1. G \in SUBSET Grants /\ (\A g \in G : grants[g].phase # "absent")
      BY DEF GrantsOf
    <3>2. EndGrants(G) /\ UNCHANGED answers
      BY <2>2 DEF RevokeClientGrants
    <3> HIDE DEF G
    <3> QED BY <3>1, <3>2, RevocationEnds
  <2>3. CASE ~InsertGrant(r) /\ ~RevokeClientGrants(r)
    <3>1. UNCHANGED <<grants, answers>>
      BY <1>2, <2>3 DEF Approval, HandleAuthorizationRead,
         HandleConsentDecision, FindConsent, DecideAuthorization, Mint,
         RecordAgentSession, CredentialsFingerprint, IssueCode, UpsertConsent,
         grantVars
    <3> QED BY <3>1, TablesAlone
  <2> QED BY <2>1, <2>2, <2>3
<1>3. ASSUME NEW r \in Requests, Refresh(r) PROVE Goal
  <2>1. CASE RefreshGrant(r)
    <3>1. PICK t \in answers : \/ RefreshRaced(t.grant, t.generation)
                               \/ RefreshReused(r, t.grant, t.generation)
                               \/ RefreshCurrent(r, t.grant, t.generation)
      BY <2>1 DEF RefreshGrant
    <3>2. t.grant \in Grants
      BY DEF GrantInv, TypeOK
    <3>3. CASE RefreshRaced(t.grant, t.generation)
      BY <3>2, <3>3, LoserIsTold DEF RefreshRaced
    <3>4. CASE ~RefreshRaced(t.grant, t.generation)
      BY <3>1, <3>4, TablesAlone DEF RefreshReused, RefreshCurrent, grantVars
    <3> QED BY <3>3, <3>4
  <2>2. CASE RevokeGrant(r)
    <3> DEFINE G == {req[r].grant} \cap {g \in Grants : grants[g].phase = "live"}
    <3>1. G \in SUBSET Grants /\ (\A g \in G : grants[g].phase # "absent")
      OBVIOUS
    <3>2. EndGrants(G) /\ UNCHANGED answers
      BY <2>2 DEF RevokeGrant
    <3> HIDE DEF G
    <3> QED BY <3>1, <3>2, RevocationEnds
  <2>3. CASE AdvanceGrant(r)
    BY <2>3, AdvanceRenews
  <2>4. CASE RereadGrant(r)
    <3>1. req[r].grant \in Grants
      BY <2>4 DEF RereadGrant, GrantInv, RequestsInv, RefreshOK, Refreshing
    <3>2. CASE answers' = answers
      BY <2>4, <3>2, TablesAlone DEF RereadGrant
    <3>3. CASE answers' # answers
      BY <2>4, <3>1, <3>3, LoserIsTold DEF RereadGrant
    <3> QED BY <3>2, <3>3
  <2>5. CASE \/ StillConsented(r) \/ RefreshSession(r) \/ CompareFingerprint(r)
             \/ Remint(r) \/ ForgetAgentSession(r) \/ EndLosersSession(r)
    BY <2>5, TablesAlone DEF StillConsented, RefreshSession,
       CompareFingerprint, Remint, ForgetAgentSession, EndLosersSession,
       grantVars
  <2> QED BY <1>3, <2>1, <2>2, <2>3, <2>4, <2>5 DEF Refresh
<1>4. ASSUME NEW r \in Requests, Throw(r) \/ Undo(r) \/ Crash(r) PROVE Goal
  BY <1>4, TablesAlone DEF Throw, Undo, Crash, grantVars
<1>5. ASSUME NEW a \in Auths, NEW c \in Clients, NEW u \in Addresses,
             HandleAuthorizeStart(a, c, u)
      PROVE  Goal
  BY <1>5, TablesAlone DEF HandleAuthorizeStart, grantVars
<1>6. ASSUME NEW a \in Auths, AuthorizationExpires(a) PROVE Goal
  BY <1>6, TablesAlone DEF AuthorizationExpires, grantVars
<1>7. CASE DeleteExpiredAuthorizations
  BY <1>7, TablesAlone DEF DeleteExpiredAuthorizations, grantVars
<1>8. ASSUME NEW k \in codes, CodeExpires(k) PROVE Goal
  BY <1>8, TablesAlone DEF CodeExpires
<1>9. ASSUME NEW k \in codes, NEW m \in BOOLEAN, HandleToken(k, m) PROVE Goal
  BY <1>9, CodeRedeems
<1>10. ASSUME NEW g \in Grants, WindowCloses(g) PROVE Goal
  <2>1. SameLedger
    BY <1>10 DEF WindowCloses, GrantInv, TypeOK, GrantRow, SameLedger
  <2> QED BY <2>1, LedgerStutters
<1>11. ASSUME NEW p \in Persons, GiveSecondFactor(p) \/ ChangeCredentials(p)
       PROVE  Goal
  BY <1>11, TablesAlone DEF GiveSecondFactor, ChangeCredentials, grantVars
<1>12. ASSUME NEW r \in Requests, RevokeConnectedAgent(r) PROVE Goal
  <2>1. UNCHANGED answers
    BY <1>12, WithdrawalMoves
  <2>2. CASE UNCHANGED grants
    BY <2>1, <2>2, TablesAlone
  <2>3. ASSUME NEW G \in SUBSET Grants, EndGrants(G),
               \A g \in G : grants[g].phase # "absent"
        PROVE  Goal
    BY <2>1, <2>3, RevocationEnds
  <2> QED BY <1>12, <2>2, <2>3, WithdrawalMoves
<1> HIDE DEF Goal
<1> QED BY <1>1, <1>2, <1>3, <1>4, <1>5, <1>6, <1>7, <1>8, <1>9, <1>10, <1>11,
           <1>12 DEF Next

\* The initial tables are the empty ledger.
LEMMA LedgerStart == Init => Ledger!LedgerInit
BY DEF Init, NoGrant, Ledger!LedgerInit

\* The handlers, with every failure and interleaving, implement the ledger.
THEOREM ServerKeepsLedger == Spec => KeepsLedger
<1>1. GrantInv /\ WithdrawalInv /\ [Next]_vars =>
         [Ledger!LedgerNext]_(Ledger!ledgerVars)
  BY LedgerStep
<1> QED BY <1>1, LedgerStart, GrantInvariant, PTL DEF Spec, KeepsLedger,
           Ledger!LedgerSpec

-----------------------------------------------------------------------------
(* Refreshes that race leave with one pair. *)

\* A pair of a ledger step agrees with every pair of its generation.
LEMMA OnePairStep ==
    ASSUME GrantInv, OnePairPerGeneration,
           Ledger!LedgerNext \/ UNCHANGED Ledger!ledgerVars
    PROVE  OnePairPerGeneration'
<1>1. \A t \in answers :
         /\ t.grant \in Grants /\ t.generation \in Nat /\ AnswerOK(t)
         /\ grants[t.grant].generation \in Nat
  BY DEF GrantInv, TypeOK, AnswersInv, GrantRow
<1>2. ASSUME NEW u, answers' = answers \cup {u},
             \A t \in answers :
                t.grant = u.grant /\ t.generation = u.generation
                    => t.session = u.session
      PROVE  OnePairPerGeneration'
  BY <1>2 DEF OnePairPerGeneration
<1>3. CASE UNCHANGED answers
  BY <1>3 DEF OnePairPerGeneration
<1>4. ASSUME NEW g \in Grants, NEW s \in Sessions, Ledger!Renew(g, s)
      PROVE  OnePairPerGeneration'
  <2> DEFINE u == Pair(g, grants[g].generation + 1, s)
  <2>1. answers' = answers \cup {u}
    BY <1>4 DEF Ledger!Renew, Ledger!Pair, Pair
  <2>2. \A t \in answers : ~(t.grant = u.grant /\ t.generation = u.generation)
    BY <1>1 DEF AnswerOK, Pair
  <2> QED BY <1>2, <2>1, <2>2
<1>5. ASSUME NEW g \in Grants, Ledger!Redeem(g)
      PROVE  OnePairPerGeneration'
  <2> DEFINE u == Pair(g, 0, grants[g].first)
  <2>1. answers' = answers \cup {u}
    BY <1>5 DEF Ledger!Redeem, Ledger!Pair, Pair
  <2>2. \A t \in answers : t.grant = u.grant /\ t.generation = u.generation
                              => t.session = u.session
    BY <1>1 DEF AnswerOK, Pair
  <2> QED BY <1>2, <2>1, <2>2
<1>6. ASSUME NEW g \in Grants, Ledger!Tell(g)
      PROVE  OnePairPerGeneration'
  <2> DEFINE u == Pair(g, grants[g].generation, grants[g].session)
  <2>1. answers' = answers \cup {u}
    BY <1>6 DEF Ledger!Tell, Ledger!Pair, Pair
  <2>2. \A t \in answers : t.grant = u.grant /\ t.generation = u.generation
                              => t.session = u.session
    BY <1>1 DEF AnswerOK, Pair
  <2> QED BY <1>2, <2>1, <2>2
<1>7. ASSUME NEW g \in Grants, NEW s \in Sessions, Ledger!Open(g, s)
      PROVE  UNCHANGED answers
  BY <1>7 DEF Ledger!Open
<1>8. ASSUME NEW G \in SUBSET Grants, Ledger!End(G)
      PROVE  UNCHANGED answers
  BY <1>8 DEF Ledger!End
<1>9. CASE UNCHANGED Ledger!ledgerVars
  BY <1>3, <1>9 DEF Ledger!ledgerVars
<1> QED BY <1>3, <1>4, <1>5, <1>6, <1>7, <1>8, <1>9 DEF Ledger!LedgerNext

\* Two answers for one generation of one grant carry one session.
THEOREM RefreshesAgree == Spec => []OnePairPerGeneration
<1>1. Init => OnePairPerGeneration
  BY DEF Init, OnePairPerGeneration
<1>2. GrantInv /\ WithdrawalInv /\ OnePairPerGeneration /\ [Next]_vars
         => OnePairPerGeneration'
  BY LedgerStep, OnePairStep
<1> QED BY <1>1, <1>2, GrantInvariant, PTL DEF Spec

-----------------------------------------------------------------------------
(* Clicks and decisions. *)

\* The approval is decided, up to the answer; its grant is not opened yet.
Ungranted == {"mint", "record", "print", "end", "insert"}
Decided == Ungranted \cup {"code", "upsert"}

\* A request that is to approve rests on a click, now or remembered.
ClickInv ==
    /\ ConsentRestsOnClick
    /\ \A r \in Requests : req[r].pc \in Decided \cup {"decide"} =>
          <<req[r].person, authz[req[r].auth].client, authz[req[r].auth].uri>>
              \in clicked

\* The authorization was approved for this person, perhaps expired since.
ApprovedFor(a, p) ==
    /\ a \in Auths
    /\ authz[a].status \in {"approved", "gone"}
    /\ authz[a].user = p

\* One approval is under way or made its grant: never two, never both.
DecisionInv ==
    /\ \A g \in Grants : grants[g].phase # "absent" =>
          ApprovedFor(grants[g].of, grants[g].person)
    /\ \A r \in Requests : req[r].pc \in Decided =>
          ApprovedFor(req[r].auth, req[r].person)
    /\ \A r, x \in Requests :
          /\ req[r].pc \in Decided /\ req[x].pc \in Decided
          /\ req[r].auth = req[x].auth
          => r = x
    /\ \A g, h \in Grants :
          /\ grants[g].phase # "absent" /\ grants[h].phase # "absent"
          /\ grants[g].of = grants[h].of
          => g = h
    /\ \A r \in Requests, g \in Grants :
          req[r].pc \in Ungranted /\ grants[g].phase # "absent" =>
             grants[g].of # req[r].auth

\* A refresh that may still move its grant knows the session the grant has,
\* and replaces it only when it has ended, or when Auth refused it falsely.
RenewOK(r) ==
    LET q == req[r]
        G == grants[q.grant]
    IN  /\ q.pc \in Refreshing \ {"lose", "reread"} /\ q.generation = G.generation =>
              q.old = G.session
        /\ q.pc \in {"rerecord", "forget"} => q.minted
        /\ q.pc \in {"compare", "remint", "rerecord", "forget"} =>
              ~Live(q.old) \/ faulty
        /\ q.pc = "advance" =>
              q.session = q.old \/ (q.minted /\ (~Live(q.old) \/ faulty))

\* The session a request has opened and no grant stands for yet.
Carries(r, s) ==
    /\ req[r].session = s
    /\ \/ req[r].pc \in {"record", "print", "end", "insert", "rerecord", "forget",
                         "lose"}
       \/ req[r].pc = "advance" /\ req[r].minted

StrayInv ==
    /\ \A r \in Requests : RenewOK(r)
    /\ ~faulty => \A s \in Sessions : Live(s) =>
          \/ \E g \in Grants : grants[g].session = s
          \/ \E r \in Requests : Carries(r, s)

-----------------------------------------------------------------------------
(* What most steps leave alone of clicks and decisions. *)

\* An approval under way keeps its person and its authorization.
KeepsApproval(r) ==
    /\ req'[r].pc \in Decided \cup {"decide"} =>
          /\ req[r].pc \in Decided \cup {"decide"}
          /\ req'[r].person = req[r].person
          /\ req'[r].auth = req[r].auth
    /\ req'[r].pc \in Decided => req[r].pc \in Decided
    /\ req'[r].pc \in Ungranted => req[r].pc \in Ungranted

\* No authorization is decided, bound or parked; it may be cleaned away.
KeepsAuthorizations ==
    \A a \in Auths :
        /\ authz'[a].client = authz[a].client
        /\ authz'[a].uri = authz[a].uri
        /\ authz'[a].user = authz[a].user
        /\ authz'[a].status \in {authz[a].status, "gone"}

\* No grant is opened.
KeepsOpened ==
    \A g \in Grants :
        /\ grants'[g].phase # "absent" <=> grants[g].phase # "absent"
        /\ grants'[g].person = grants[g].person
        /\ grants'[g].of = grants[g].of

\* Nobody clicks, and no consent is given.
KeepsConsents ==
    /\ clicked' = clicked
    /\ \A p \in Persons, c \in Clients : consent'[p][c] \in {None, consent[p][c]}

\* A step that decides and opens nothing.
LEMMA NothingDecided ==
    ASSUME GrantInv, ClickInv, DecisionInv,
           \A r \in Requests : KeepsApproval(r),
           KeepsAuthorizations, KeepsOpened, KeepsConsents
    PROVE  ClickInv' /\ DecisionInv'
<1>1. \A r \in Requests : ApprovalOK(r)
  BY DEF GrantInv, RequestsInv
<1>2. \A r \in Requests : req[r].pc \in Decided \cup {"decide"} =>
         req[r].auth \in Auths
  BY <1>1 DEF ApprovalOK, Approving, Decided, Ungranted
<1>3. ConsentRestsOnClick'
  BY DEF ClickInv, ConsentRestsOnClick, KeepsConsents
<1>4. ASSUME NEW r \in Requests, req'[r].pc \in Decided \cup {"decide"}
      PROVE  <<req'[r].person, authz'[req'[r].auth].client,
               authz'[req'[r].auth].uri>> \in clicked'
  <2>1. /\ req[r].pc \in Decided \cup {"decide"}
        /\ req'[r].person = req[r].person /\ req'[r].auth = req[r].auth
    BY <1>4 DEF KeepsApproval
  <2>2. /\ authz'[req[r].auth].client = authz[req[r].auth].client
        /\ authz'[req[r].auth].uri = authz[req[r].auth].uri
    BY <1>2, <2>1 DEF KeepsAuthorizations
  <2> QED BY <2>1, <2>2 DEF ClickInv, KeepsConsents
<1>5. ClickInv'
  BY <1>3, <1>4 DEF ClickInv
<1>6. ASSUME NEW a, NEW p, ApprovedFor(a, p)
      PROVE  ApprovedFor(a, p)'
  BY <1>6 DEF ApprovedFor, KeepsAuthorizations
<1>7. \A g \in Grants : grants'[g].phase # "absent" =>
         ApprovedFor(grants[g].of, grants[g].person)'
  BY <1>6 DEF DecisionInv, KeepsOpened, ApprovedFor
<1>8. \A r \in Requests : req'[r].pc \in Decided =>
         /\ req[r].pc \in Decided /\ req'[r].auth = req[r].auth
         /\ req'[r].person = req[r].person
  BY DEF KeepsApproval
<1>9. \A r \in Requests : req'[r].pc \in Ungranted =>
         req[r].pc \in Ungranted /\ req'[r].auth = req[r].auth
  BY <1>8 DEF KeepsApproval, Decided
<1> QED BY <1>5, <1>6, <1>7, <1>8, <1>9 DEF DecisionInv, KeepsOpened, ApprovedFor

\* The tables of a step that touches none of them, or ends live grants.
LEMMA TablesUndecided ==
    ASSUME TypeOK
    PROVE  /\ UNCHANGED authz => KeepsAuthorizations
           /\ UNCHANGED grants => KeepsOpened
           /\ UNCHANGED <<clicked, consent>> => KeepsConsents
           /\ \A r \in Requests : req'[r] = req[r] => KeepsApproval(r)
           /\ UNCHANGED req => \A r \in Requests : KeepsApproval(r)
  BY DEF KeepsAuthorizations, KeepsOpened, KeepsConsents, KeepsApproval

\* A grant that ends stays opened.
LEMMA EndedStayOpened ==
    ASSUME TypeOK, NEW G, EndGrants(G), \A g \in G : grants[g].phase # "absent"
    PROVE  KeepsOpened
<1>1. ASSUME NEW g \in Grants
      PROVE  /\ grants'[g].phase # "absent" <=> grants[g].phase # "absent"
             /\ grants'[g].person = grants[g].person
  BY EndGrantsRows
<1>2. ASSUME NEW g \in Grants
      PROVE  grants'[g].of = grants[g].of
  BY DEF TypeOK, EndGrants, GrantRow
<1> QED BY <1>1, <1>2 DEF KeepsOpened

\* A request that answers, or goes on outside the approval, keeps the others'.
LEMMA RequestUndecided ==
    ASSUME TypeOK, NEW r \in Requests, NEW pc,
           \/ Answered(r)
           \/ /\ Goes(r, pc)
              /\ \/ pc \notin Decided \cup {"decide"}
                 \/ pc \in Ungranted /\ req[r].pc \in Ungranted
                 \/ pc \in Decided \ Ungranted /\ req[r].pc \in Decided
    PROVE  \A x \in Requests : KeepsApproval(x)
<1>1. CASE Answered(r)
  BY <1>1, RequestMoves DEF KeepsApproval, Idle, Decided, Ungranted
<1>2. CASE ~Answered(r)
  BY <1>2, RequestMoves DEF KeepsApproval, Decided
<1> QED BY <1>1, <1>2

\* The steps of an approval but those that decide and open.
LEMMA ApprovalUndecided ==
    ASSUME GrantInv, NEW r \in Requests,
           \/ Mint(r) \/ RecordAgentSession(r) \/ CredentialsFingerprint(r)
           \/ RevokeClientGrants(r) \/ IssueCode(r)
    PROVE  /\ \A x \in Requests : KeepsApproval(x)
           /\ KeepsAuthorizations /\ KeepsOpened /\ KeepsConsents
<1>1. TypeOK
  BY DEF GrantInv
<1>2. CASE Mint(r)
  <2>1. CASE Answered(r)
    BY <1>1, <1>2, <2>1, RequestUndecided, TablesUndecided
       DEF Mint, consentVars, grantVars
  <2>2. ASSUME NEW s, req' = [req EXCEPT ![r].pc = "record", ![r].session = s,
                                         ![r].minted = TRUE]
        PROVE  \A x \in Requests : KeepsApproval(x)
    <3>1. /\ req'[r].pc = "record" /\ req'[r].person = req[r].person
          /\ req'[r].auth = req[r].auth
          /\ \A x \in Requests : x # r => req'[x] = req[x]
      BY <1>1, <2>2 DEF TypeOK, Request
    <3> QED BY <1>2, <3>1 DEF Mint, KeepsApproval, Decided, Ungranted
  <2> QED BY <1>1, <1>2, <2>1, <2>2, TablesUndecided
          DEF Mint, MintSession, consentVars, grantVars
<1>3. CASE RecordAgentSession(r)
  BY <1>1, <1>3, RequestUndecided, TablesUndecided
     DEF RecordAgentSession, consentVars, grantVars, Decided, Ungranted
<1>4. CASE CredentialsFingerprint(r)
  <2>1. /\ req'[r].pc = "end" /\ req'[r].person = req[r].person
        /\ req'[r].auth = req[r].auth
        /\ \A x \in Requests : x # r => req'[x] = req[x]
    BY <1>1, <1>4 DEF CredentialsFingerprint, TypeOK, Request
  <2>2. \A x \in Requests : KeepsApproval(x)
    BY <1>4, <2>1 DEF CredentialsFingerprint, KeepsApproval, Decided, Ungranted
  <2> QED BY <1>1, <1>4, <2>2, TablesUndecided
          DEF CredentialsFingerprint, consentVars, grantVars
<1>5. CASE RevokeClientGrants(r)
  <2>1. KeepsOpened
    BY <1>1, <1>5, EndedStayOpened DEF RevokeClientGrants, GrantsOf
  <2> QED BY <1>1, <1>5, <2>1, RequestUndecided, TablesUndecided
          DEF RevokeClientGrants, consentVars, Decided, Ungranted
<1>6. CASE IssueCode(r)
  BY <1>1, <1>6, RequestUndecided, TablesUndecided
     DEF IssueCode, consentVars, Decided, Ungranted
<1> QED BY <1>2, <1>3, <1>4, <1>5, <1>6

\* A refresh decides nothing.
LEMMA RefreshUndecided ==
    ASSUME GrantInv, NEW r \in Requests, Refresh(r)
    PROVE  /\ \A x \in Requests : KeepsApproval(x)
           /\ KeepsAuthorizations /\ KeepsOpened /\ KeepsConsents
<1>1. TypeOK /\ RefreshOK(r)
  BY DEF GrantInv, RequestsInv
<1>2. UNCHANGED consentVars
  BY DEF Refresh, RefreshGrant, RefreshRaced, RefreshReused, RefreshCurrent,
     StillConsented, RevokeGrant, RefreshSession, CompareFingerprint, Remint,
     ForgetAgentSession, AdvanceGrant, EndLosersSession, RereadGrant
<1>3. KeepsAuthorizations /\ KeepsConsents
  BY <1>1, <1>2, TablesUndecided DEF consentVars
<1>4. KeepsOpened
  <2>1. CASE RevokeGrant(r)
    BY <1>1, <2>1, EndedStayOpened DEF RevokeGrant
  <2>2. CASE AdvanceGrant(r)
    <3>1. CASE UNCHANGED grants
      BY <1>1, <3>1, TablesUndecided
    <3>2. CASE /\ req[r].grant \in Grants
               /\ grants' = [grants EXCEPT
                    ![req[r].grant].generation = req[r].generation + 1,
                    ![req[r].grant].session = req[r].session,
                    ![req[r].grant].recent = TRUE]
      <4>1. ASSUME NEW g \in Grants
            PROVE  /\ grants'[g].phase = grants[g].phase
                   /\ grants'[g].person = grants[g].person
                   /\ grants'[g].of = grants[g].of
        BY <1>1, <3>2 DEF TypeOK, GrantRow
      <4> QED BY <4>1 DEF KeepsOpened
    <3> QED BY <1>1, <2>2, <3>1, <3>2 DEF AdvanceGrant, RefreshOK, Refreshing
  <2>3. CASE ~RevokeGrant(r) /\ ~AdvanceGrant(r)
    <3>1. UNCHANGED grants
      BY <2>3 DEF Refresh, RefreshGrant, RefreshRaced, RefreshReused,
         RefreshCurrent, StillConsented, RefreshSession, CompareFingerprint,
         Remint, ForgetAgentSession, EndLosersSession, RereadGrant, grantVars
    <3> QED BY <1>1, <3>1, TablesUndecided
  <2> QED BY <2>1, <2>2, <2>3
<1>5. \A x \in Requests : KeepsApproval(x)
  <2>1. CASE RefreshGrant(r)
    <3>1. CASE UNCHANGED req
      BY <1>1, <3>1, TablesUndecided
    <3>2. ASSUME NEW q, req' = [req EXCEPT ![r] = q], q.pc \in {"revoke", "consented"}
          PROVE  \A x \in Requests : KeepsApproval(x)
      <4>1. req'[r] = q /\ \A x \in Requests : x # r => req'[x] = req[x]
        BY <1>1, <3>2 DEF TypeOK
      <4> QED BY <3>2, <4>1 DEF KeepsApproval, Decided, Ungranted
    <3>3. ASSUME NEW g, NEW n, RefreshReused(r, g, n) \/ RefreshCurrent(r, g, n)
          PROVE  \A x \in Requests : KeepsApproval(x)
      BY <3>2, <3>3 DEF RefreshReused, RefreshCurrent, Idle
    <3> QED BY <2>1, <3>1, <3>3 DEF RefreshGrant, RefreshRaced
  <2>2. CASE StillConsented(r) \/ RevokeGrant(r) \/ CompareFingerprint(r)
             \/ ForgetAgentSession(r) \/ AdvanceGrant(r) \/ EndLosersSession(r)
             \/ RereadGrant(r)
    <3>1. \/ Answered(r)
          \/ \E pc \in {"renew", "revoke", "remint", "advance", "lose", "reread"} :
                Goes(r, pc)
      BY <2>2 DEF StillConsented, RevokeGrant, CompareFingerprint,
         ForgetAgentSession, AdvanceGrant, EndLosersSession, RereadGrant
    <3> QED BY <1>1, <3>1, RequestUndecided DEF Decided, Ungranted
  <2>3. ASSUME req'[r].pc \in {"advance", "rerecord"},
               \A x \in Requests : x # r => req'[x] = req[x]
        PROVE  \A x \in Requests : KeepsApproval(x)
    BY <2>3 DEF KeepsApproval, Decided, Ungranted
  <2>4. CASE RefreshSession(r)
    <3>1. CASE req' = [req EXCEPT ![r].pc = "advance", ![r].session = req[r].old]
      <4>1. req'[r].pc = "advance" /\ \A x \in Requests : x # r => req'[x] = req[x]
        BY <1>1, <3>1 DEF TypeOK, Request
      <4> QED BY <2>3, <4>1
    <3>2. CASE Answered(r) \/ Goes(r, "compare")
      BY <1>1, <3>2, RequestUndecided DEF Decided, Ungranted
    <3> QED BY <2>4, <3>1, <3>2 DEF RefreshSession
  <2>5. CASE Remint(r)
    <3>1. ASSUME NEW s, req' = [req EXCEPT ![r].pc = "rerecord", ![r].session = s,
                                           ![r].minted = TRUE]
          PROVE  \A x \in Requests : KeepsApproval(x)
      <4>1. req'[r].pc = "rerecord" /\ \A x \in Requests : x # r => req'[x] = req[x]
        BY <1>1, <3>1 DEF TypeOK, Request
      <4> QED BY <2>3, <4>1
    <3>2. CASE Answered(r)
      BY <1>1, <3>2, RequestUndecided
    <3> QED BY <2>5, <3>1, <3>2 DEF Remint, MintSession
  <2> QED BY <2>1, <2>2, <2>4, <2>5 DEF Refresh
<1> QED BY <1>3, <1>4, <1>5

\* Nor does a failure, an expiry, a redemption, or what Auth and the person do.
LEMMA OthersUndecided ==
    ASSUME GrantInv, WithdrawalInv,
           \/ \E r \in Requests : Throw(r) \/ Undo(r) \/ Crash(r)
           \/ \E a \in Auths : AuthorizationExpires(a)
           \/ DeleteExpiredAuthorizations
           \/ \E k \in codes : CodeExpires(k)
           \/ \E k \in codes, matches \in BOOLEAN : HandleToken(k, matches)
           \/ \E g \in Grants : WindowCloses(g)
           \/ \E p \in Persons : GiveSecondFactor(p) \/ ChangeCredentials(p)
           \/ \E r \in Requests : RevokeConnectedAgent(r)
           \/ UNCHANGED vars
    PROVE  /\ \A x \in Requests : KeepsApproval(x)
           /\ KeepsAuthorizations /\ KeepsOpened /\ KeepsConsents
<1> USE DEF consentVars, grantVars
<1>1. TypeOK
  BY DEF GrantInv
<1>2. ASSUME NEW r \in Requests, Throw(r) \/ Undo(r) \/ Crash(r)
      PROVE  /\ \A x \in Requests : KeepsApproval(x)
             /\ KeepsAuthorizations /\ KeepsOpened /\ KeepsConsents
  <2>1. Answered(r) \/ Goes(r, "undo")
    BY <1>2 DEF Throw, Undo, Crash
  <2>2. \A x \in Requests : KeepsApproval(x)
    BY <1>1, <2>1, RequestUndecided DEF Decided, Ungranted
  <2>3. UNCHANGED <<consentVars, grants>>
    BY <1>2 DEF Throw, Undo, Crash
  <2> QED BY <1>1, <2>2, <2>3, TablesUndecided
<1>3. ASSUME UNCHANGED <<grants, clicked, consent, req>>, KeepsAuthorizations
      PROVE  /\ \A x \in Requests : KeepsApproval(x)
             /\ KeepsAuthorizations /\ KeepsOpened /\ KeepsConsents
  BY <1>1, <1>3, TablesUndecided
<1>4. ASSUME NEW a \in Auths, AuthorizationExpires(a)
      PROVE  /\ UNCHANGED <<grants, clicked, consent, req>>
             /\ KeepsAuthorizations
  <2>1. ASSUME NEW b \in Auths
        PROVE  /\ authz'[b].client = authz[b].client /\ authz'[b].uri = authz[b].uri
               /\ authz'[b].user = authz[b].user /\ authz'[b].status = authz[b].status
    BY <1>1, <1>4 DEF AuthorizationExpires, TypeOK, AuthRow
  <2> QED BY <1>4, <2>1 DEF AuthorizationExpires, KeepsAuthorizations
<1>5. CASE DeleteExpiredAuthorizations
  <2>1. ASSUME NEW b \in Auths
        PROVE  /\ authz'[b].client = authz[b].client /\ authz'[b].uri = authz[b].uri
               /\ authz'[b].user = authz[b].user
               /\ authz'[b].status \in {authz[b].status, "gone"}
    BY <1>1, <1>5 DEF DeleteExpiredAuthorizations, TypeOK, AuthRow
  <2>2. KeepsAuthorizations
    BY <2>1 DEF KeepsAuthorizations
  <2> QED BY <1>3, <1>5, <2>2 DEF DeleteExpiredAuthorizations
<1>6. ASSUME NEW g \in Grants, WindowCloses(g)
      PROVE  /\ \A x \in Requests : KeepsApproval(x)
             /\ KeepsAuthorizations /\ KeepsOpened /\ KeepsConsents
  <2>1. ASSUME NEW h \in Grants
        PROVE  /\ grants'[h].phase = grants[h].phase
               /\ grants'[h].person = grants[h].person /\ grants'[h].of = grants[h].of
    BY <1>1, <1>6 DEF WindowCloses, TypeOK, GrantRow
  <2>2. KeepsOpened
    BY <2>1 DEF KeepsOpened
  <2> QED BY <1>1, <1>6, <2>2, TablesUndecided DEF WindowCloses
<1>7. ASSUME NEW r \in Requests, RevokeConnectedAgent(r)
      PROVE  /\ \A x \in Requests : KeepsApproval(x)
             /\ KeepsAuthorizations /\ KeepsOpened /\ KeepsConsents
  <2>1. KeepsOpened
    BY <1>1, <1>7, WithdrawalMoves, EndedStayOpened, TablesUndecided
  <2>2. KeepsConsents
    BY <1>7, WithdrawalMoves DEF KeepsConsents
  <2>3. KeepsAuthorizations
    BY <1>1, <1>7, WithdrawalMoves, TablesUndecided
  <2>4. ASSUME NEW x \in Requests PROVE KeepsApproval(x)
    <3>1. CASE x = r
      <4>1. req'[r].pc \in Withdrawing \cup {"idle"}
        BY <1>7, WithdrawalMoves
      <4> QED BY <3>1, <4>1 DEF KeepsApproval, Decided, Ungranted, Withdrawing
    <3>2. CASE x # r
      BY <1>1, <1>7, <3>2, WithdrawalMoves, TablesUndecided
    <3> QED BY <3>1, <3>2
  <2> QED BY <2>1, <2>2, <2>3, <2>4
<1>8. ASSUME \/ \E k \in codes : CodeExpires(k)
             \/ \E k \in codes, matches \in BOOLEAN : HandleToken(k, matches)
             \/ \E p \in Persons : GiveSecondFactor(p) \/ ChangeCredentials(p)
             \/ UNCHANGED vars
      PROVE  UNCHANGED <<authz, grants, clicked, consent, req>>
  BY <1>8 DEF CodeExpires, HandleToken, GiveSecondFactor, ChangeCredentials, vars
<1> QED BY <1>1, <1>2, <1>3, <1>4, <1>5, <1>6, <1>7, <1>8, TablesUndecided

-----------------------------------------------------------------------------
(* The steps that click, decide, open and remember. *)

\* A parked authorization is new: nobody relies on it yet.
LEMMA StartDecides ==
    ASSUME GrantInv, ClickInv, DecisionInv, NEW a \in Auths, NEW c, NEW u,
           HandleAuthorizeStart(a, c, u)
    PROVE  ClickInv' /\ DecisionInv'
<1>1. TypeOK /\ \A r \in Requests : ApprovalOK(r)
  BY DEF GrantInv, RequestsInv
<1>2. authz[a].status = "absent" /\ UNCHANGED <<consent, clicked, grants, req>>
  BY DEF HandleAuthorizeStart, grantVars
<1>3. \A b \in Auths : b # a => authz'[b] = authz[b]
  BY <1>1 DEF HandleAuthorizeStart, TypeOK
<1>4. \A r \in Requests : req[r].pc \in Decided \cup {"decide"} =>
         req[r].auth \in Auths /\ req[r].auth # a
  BY <1>1, <1>2 DEF ApprovalOK, Approving, Decided, Ungranted
<1>5. ClickInv'
  BY <1>2, <1>3, <1>4 DEF ClickInv, ConsentRestsOnClick
<1>6. ASSUME NEW b, NEW p, ApprovedFor(b, p)
      PROVE  b \in Auths /\ b # a
  BY <1>2, <1>6 DEF ApprovedFor
<1>7. ASSUME NEW b, NEW p, ApprovedFor(b, p)
      PROVE  ApprovedFor(b, p)'
  BY <1>3, <1>6, <1>7 DEF ApprovedFor
<1>8. DecisionInv'
  <2>1. \A g \in Grants : grants[g].phase # "absent" =>
           ApprovedFor(grants[g].of, grants[g].person)'
    BY <1>2, <1>7 DEF DecisionInv, ApprovedFor
  <2>2. \A r \in Requests : req[r].pc \in Decided =>
           ApprovedFor(req[r].auth, req[r].person)'
    BY <1>2, <1>7 DEF DecisionInv, ApprovedFor
  <2> QED BY <1>2, <2>1, <2>2 DEF DecisionInv, ApprovedFor
<1> QED BY <1>5, <1>8

\* A person binds a pending authorization, which nobody has approved; one who
\* decides for it has clicked.
LEMMA BindDecides ==
    ASSUME GrantInv, ClickInv, DecisionInv, NEW r \in Requests, NEW p \in Persons,
           NEW a \in Auths,
           HandleAuthorizationRead(r, p, a) \/ HandleConsentDecision(r, p, a)
    PROVE  ClickInv' /\ DecisionInv'
<1>1. TypeOK /\ \A x \in Requests : ApprovalOK(x)
  BY DEF GrantInv, RequestsInv
<1>2. PICK then \in {"consent", "decide", "deny"} :
         /\ Bind(r, p, a, then)
         /\ then = "decide" => clicked' = clicked \cup {<<p, authz[a].client, authz[a].uri>>}
         /\ then # "decide" => clicked' = clicked
  BY DEF HandleAuthorizationRead, HandleConsentDecision
<1>3. UNCHANGED <<consent, grants>>
  BY DEF HandleAuthorizationRead, HandleConsentDecision, grantVars
<1>4. authz[a].status = "pending"
  BY <1>2 DEF Bind, BindAuthorization
<1>5. /\ \A b \in Auths : /\ authz'[b].client = authz[b].client
                          /\ authz'[b].uri = authz[b].uri
                          /\ authz'[b].status = authz[b].status
      /\ \A b \in Auths : b # a => authz'[b].user = authz[b].user
  BY <1>1, <1>2 DEF Bind, TypeOK, AuthRow
<1>6. /\ req'[r].pc = then /\ req'[r].person = p /\ req'[r].auth = a
      /\ \A x \in Requests : x # r => req'[x] = req[x]
  BY <1>1, <1>2 DEF Bind, TypeOK, Idle
<1>7. \A x \in Requests : req[x].pc \in Decided \cup {"decide"} => req[x].auth \in Auths
  BY <1>1 DEF ApprovalOK, Approving, Decided, Ungranted
<1>8. ClickInv'
  <2>1. ConsentRestsOnClick'
    BY <1>2, <1>3 DEF ClickInv, ConsentRestsOnClick
  <2>2. ASSUME NEW x \in Requests, req'[x].pc \in Decided \cup {"decide"}
        PROVE  <<req'[x].person, authz'[req'[x].auth].client,
                 authz'[req'[x].auth].uri>> \in clicked'
    <3>1. CASE x = r
      BY <1>2, <1>5, <1>6, <2>2, <3>1 DEF Decided, Ungranted
    <3>2. CASE x # r
      BY <1>2, <1>5, <1>6, <1>7, <2>2, <3>2 DEF ClickInv
    <3> QED BY <3>1, <3>2
  <2> QED BY <2>1, <2>2 DEF ClickInv
<1>9. ASSUME NEW b, NEW q, ApprovedFor(b, q)
      PROVE  ApprovedFor(b, q)'
  BY <1>4, <1>5, <1>9 DEF ApprovedFor
<1>10. DecisionInv'
  <2>1. \A g \in Grants : grants[g].phase # "absent" =>
           ApprovedFor(grants[g].of, grants[g].person)'
    BY <1>3, <1>9 DEF DecisionInv, ApprovedFor
  <2>2. \A x \in Requests : req'[x].pc \in Decided => x # r /\ req'[x] = req[x]
    BY <1>2, <1>6 DEF Decided, Ungranted
  <2>3. \A x \in Requests : req'[x].pc \in Decided =>
           ApprovedFor(req[x].auth, req[x].person)'
    BY <1>9, <2>2 DEF DecisionInv, ApprovedFor
  <2> QED BY <1>3, <2>1, <2>2, <2>3 DEF DecisionInv, ApprovedFor, Decided
<1> QED BY <1>8, <1>10

\* A consent that covers the request was clicked for the same address.
LEMMA FoundConsentDecides ==
    ASSUME GrantInv, ClickInv, DecisionInv, NEW r \in Requests, FindConsent(r)
    PROVE  ClickInv' /\ DecisionInv'
<1>1. TypeOK /\ AuthInv /\ ApprovalOK(r)
  BY DEF GrantInv, RequestsInv
<1>2. UNCHANGED <<authz, consent, clicked, grants>>
  BY DEF FindConsent, consentVars, grantVars
<1>3. CASE Answered(r)
  BY <1>1, <1>2, <1>3, NothingDecided, RequestUndecided, TablesUndecided
<1>4. CASE ConsentCovers(req[r].person, req[r].auth) /\ Goes(r, "decide")
  <2>1. /\ req[r].person \in Persons /\ req[r].auth \in Auths
        /\ authz[req[r].auth].client \in Clients
    BY <1>1 DEF FindConsent, ApprovalOK, Approving, AuthInv
  <2>2. <<req[r].person, authz[req[r].auth].client, authz[req[r].auth].uri>>
           \in clicked
    BY <1>4, <2>1 DEF ConsentCovers, ClickInv, ConsentRestsOnClick
  <2>3. /\ req'[r].pc = "decide" /\ req'[r].person = req[r].person
        /\ req'[r].auth = req[r].auth
        /\ \A x \in Requests : x # r => req'[x] = req[x]
    BY <1>1, <1>4, RequestMoves
  <2>4. ClickInv'
    BY <1>2, <2>2, <2>3 DEF ClickInv, ConsentRestsOnClick
  <2>5. \A x \in Requests : req'[x].pc \in Decided => x # r /\ req'[x] = req[x]
    BY <2>3 DEF Decided, Ungranted
  <2>6. DecisionInv'
    BY <1>2, <2>5 DEF DecisionInv, ApprovedFor, Decided
  <2> QED BY <2>4, <2>6
<1> QED BY <1>3, <1>4 DEF FindConsent

\* Only a pending authorization is decided, so no other approval has it and no
\* grant came of it.
LEMMA DecisionDecides ==
    ASSUME GrantInv, ClickInv, DecisionInv, NEW r \in Requests,
           DecideAuthorization(r)
    PROVE  ClickInv' /\ DecisionInv'
<1>1. TypeOK /\ ApprovalOK(r)
  BY DEF GrantInv, RequestsInv
<1>2. UNCHANGED <<consent, clicked, grants>>
  BY DEF DecideAuthorization, grantVars
<1>3. CASE Answered(r) /\ UNCHANGED authz
  BY <1>1, <1>2, <1>3, NothingDecided, RequestUndecided, TablesUndecided
<1> DEFINE a == req[r].auth
           Now(b, p) == /\ b \in Auths
                        /\ authz'[b].status \in {"approved", "gone"}
                        /\ authz'[b].user = p
<1>4. CASE /\ CanDecide(r)
           /\ authz' = [authz EXCEPT ![a].status =
                           IF req[r].pc = "decide" THEN "approved" ELSE "denied"]
           /\ IF req[r].pc = "decide" THEN Goes(r, "mint") ELSE Answered(r)
  <2>1. /\ a \in Auths /\ authz[a].status = "pending" /\ authz[a].user = req[r].person
    BY <1>1, <1>4 DEF DecideAuthorization, ApprovalOK, Approving, CanDecide
  <2>2. /\ \A b \in Auths : /\ authz'[b].client = authz[b].client
                            /\ authz'[b].uri = authz[b].uri
                            /\ authz'[b].user = authz[b].user
        /\ \A b \in Auths : b # a => authz'[b].status = authz[b].status
        /\ req[r].pc = "decide" => authz'[a].status = "approved"
    BY <1>1, <1>4, <2>1 DEF TypeOK, AuthRow
  <2>3. \A b, p : ApprovedFor(b, p) => b # a /\ b \in Auths
    BY <2>1 DEF ApprovedFor
  <2>4. \A x \in Requests : x # r => req'[x] = req[x]
    BY <1>1, <1>4, RequestMoves
  <2>5. req'[r].pc \in Decided \cup {"decide"} =>
           /\ req[r].pc = "decide" /\ req'[r].pc = "mint"
           /\ req'[r].auth = a /\ req'[r].person = req[r].person
    BY <1>1, <1>4, RequestMoves DEF Idle, Decided, Ungranted
  <2>6. ASSUME NEW b, NEW p, ApprovedFor(b, p)
        PROVE  Now(b, p)
    BY <2>2, <2>3, <2>6 DEF ApprovedFor
  <2>7. \A x \in Requests : req[x].pc \in Decided \cup {"decide"} => req[x].auth \in Auths
    BY DEF GrantInv, RequestsInv, ApprovalOK, Approving, Decided, Ungranted
  <2>8. ClickInv'
    <3>1. ConsentRestsOnClick'
      BY <1>2 DEF ClickInv, ConsentRestsOnClick
    <3>2. ASSUME NEW x \in Requests, req'[x].pc \in Decided \cup {"decide"}
          PROVE  <<req'[x].person, authz'[req'[x].auth].client,
                   authz'[req'[x].auth].uri>> \in clicked'
      <4>1. /\ req[x].pc \in Decided \cup {"decide"}
            /\ req'[x].auth = req[x].auth /\ req'[x].person = req[x].person
        BY <2>4, <2>5, <3>2
      <4> QED BY <1>2, <2>2, <2>7, <4>1 DEF ClickInv
    <3> QED BY <3>1, <3>2 DEF ClickInv
  <2>9. DecisionInv'
    <3>1. \A g \in Grants : grants[g].phase # "absent" =>
             Now(grants[g].of, grants[g].person) /\ grants[g].of # a
      BY <2>3, <2>6 DEF DecisionInv
    <3>2. \A x \in Requests \ {r} : req[x].pc \in Decided =>
             Now(req[x].auth, req[x].person) /\ req[x].auth # a
      BY <2>3, <2>6 DEF DecisionInv
    <3>3. req'[r].pc \in Decided => Now(req'[r].auth, req'[r].person)
      BY <2>1, <2>2, <2>5
    <3>4. \A x \in Requests : req'[x].pc \in Decided =>
             Now(req'[x].auth, req'[x].person)
      BY <2>4, <3>2, <3>3
    <3>5. \A x, y \in Requests :
             /\ req'[x].pc \in Decided /\ req'[y].pc \in Decided
             /\ req'[x].auth = req'[y].auth
             => x = y
      <4>1. ASSUME NEW x \in Requests \ {r}, req'[x].pc \in Decided,
                   req'[r].pc \in Decided
            PROVE  req'[x].auth # req'[r].auth
        BY <2>4, <2>5, <3>2, <4>1
      <4>2. ASSUME NEW x \in Requests \ {r}, NEW y \in Requests \ {r},
                   req'[x].pc \in Decided, req'[y].pc \in Decided,
                   req'[x].auth = req'[y].auth
            PROVE  x = y
        BY <2>4, <4>2 DEF DecisionInv
      <4> QED BY <4>1, <4>2
    <3>6. \A x \in Requests, g \in Grants :
             req'[x].pc \in Ungranted /\ grants[g].phase # "absent" =>
                grants[g].of # req'[x].auth
      <4>1. ASSUME NEW g \in Grants, req'[r].pc \in Ungranted,
                   grants[g].phase # "absent"
            PROVE  grants[g].of # req'[r].auth
        BY <2>5, <3>1, <4>1 DEF Decided
      <4>2. ASSUME NEW x \in Requests \ {r}, NEW g \in Grants,
                   req'[x].pc \in Ungranted, grants[g].phase # "absent"
            PROVE  grants[g].of # req'[x].auth
        BY <2>4, <4>2 DEF DecisionInv
      <4> QED BY <4>1, <4>2
    <3> QED BY <1>2, <3>1, <3>4, <3>5, <3>6 DEF DecisionInv, ApprovedFor
  <2> QED BY <2>8, <2>9
<1> QED BY <1>3, <1>4 DEF DecideAuthorization

\* The approval opens its grant and may open no other.
LEMMA InsertDecides ==
    ASSUME GrantInv, ClickInv, DecisionInv, NEW r \in Requests, InsertGrant(r)
    PROVE  ClickInv' /\ DecisionInv'
<1>1. TypeOK
  BY DEF GrantInv
<1>2. UNCHANGED <<consent, clicked, authz>> /\ req[r].pc = "insert"
  BY DEF InsertGrant, consentVars
<1>3. PICK g \in Grants :
         /\ grants[g].phase = "absent"
         /\ grants' = [grants EXCEPT ![g] =
               [phase |-> "live", person |-> req[r].person,
                client |-> authz[req[r].auth].client, generation |-> 0,
                session |-> req[r].session, print |-> req[r].print,
                recent |-> TRUE, of |-> req[r].auth,
                first |-> req[r].session]]
         /\ req' = [req EXCEPT ![r].pc = "code", ![r].grant = g]
  BY DEF InsertGrant
<1>4. /\ grants'[g].phase = "live" /\ grants'[g].person = req[r].person
      /\ grants'[g].of = req[r].auth
      /\ \A h \in Grants : h # g => grants'[h] = grants[h]
  BY <1>1, <1>3 DEF TypeOK
<1>5. /\ req'[r].pc = "code" /\ req'[r].person = req[r].person
      /\ req'[r].auth = req[r].auth
      /\ \A x \in Requests : x # r => req'[x] = req[x]
  BY <1>1, <1>3 DEF TypeOK, Request
<1>6. /\ req[r].pc \in Decided /\ req[r].pc \in Ungranted
      /\ req'[r].pc \in Decided /\ req'[r].pc \notin Ungranted
  BY <1>2, <1>5 DEF Decided, Ungranted
<1>7. \A x \in Requests : /\ req'[x].pc \in Decided \cup {"decide"} =>
                                req[x].pc \in Decided \cup {"decide"}
                          /\ req'[x].pc \in Decided => req[x].pc \in Decided
                          /\ req'[x].pc \in Ungranted => x # r /\ req[x].pc \in Ungranted
                          /\ req'[x].person = req[x].person /\ req'[x].auth = req[x].auth
  BY <1>5, <1>6
<1>8. ClickInv'
  BY <1>2, <1>7 DEF ClickInv, ConsentRestsOnClick
<1>9. DecisionInv'
  <2>1. ASSUME NEW h \in Grants, grants'[h].phase # "absent"
        PROVE  ApprovedFor(grants'[h].of, grants'[h].person)
    BY <1>4, <1>6, <2>1 DEF DecisionInv
  <2>2. ASSUME NEW x \in Requests, req'[x].pc \in Decided
        PROVE  ApprovedFor(req'[x].auth, req'[x].person)
    BY <1>7, <2>2 DEF DecisionInv
  <2>3. ASSUME NEW h \in Grants, h # g, grants'[h].phase # "absent"
        PROVE  grants'[h].of # grants'[g].of
    BY <1>4, <1>6, <2>3 DEF DecisionInv
  <2>4. ASSUME NEW h \in Grants, NEW i \in Grants, grants'[h].phase # "absent",
               grants'[i].phase # "absent", grants'[h].of = grants'[i].of
        PROVE  h = i
    BY <1>4, <2>3, <2>4 DEF DecisionInv
  <2>5. ASSUME NEW x \in Requests, NEW h \in Grants, req'[x].pc \in Ungranted,
               grants'[h].phase # "absent"
        PROVE  grants'[h].of # req'[x].auth
    <3>1. x # r /\ req[x].pc \in Ungranted /\ req[x].pc \in Decided
          /\ req'[x].auth = req[x].auth
      BY <1>7, <2>5 DEF Decided
    <3>2. CASE h = g
      BY <1>4, <1>6, <3>1, <3>2 DEF DecisionInv
    <3>3. CASE h # g
      BY <1>4, <2>5, <3>1, <3>3 DEF DecisionInv
    <3> QED BY <3>2, <3>3
  <2>6. \A x, y \in Requests :
           /\ req'[x].pc \in Decided /\ req'[y].pc \in Decided
           /\ req'[x].auth = req'[y].auth
           => x = y
    BY <1>7 DEF DecisionInv
  <2> QED BY <1>2, <2>1, <2>2, <2>4, <2>5, <2>6 DEF DecisionInv, ApprovedFor
<1> QED BY <1>8, <1>9

\* The address remembered is the one of the request that was clicked.
LEMMA UpsertDecides ==
    ASSUME GrantInv, ClickInv, DecisionInv, NEW r \in Requests, UpsertConsent(r)
    PROVE  ClickInv' /\ DecisionInv'
<1>1. TypeOK
  BY DEF GrantInv
<1>2. /\ UNCHANGED <<authz, clicked, grants>> /\ req[r].pc = "upsert"
      /\ consent' = [consent EXCEPT ![req[r].person][authz[req[r].auth].client] =
                        authz[req[r].auth].uri]
      /\ Answered(r)
  BY DEF UpsertConsent
<1>3. <<req[r].person, authz[req[r].auth].client, authz[req[r].auth].uri>> \in clicked
  BY <1>2 DEF ClickInv, Decided
<1>4. ASSUME NEW p \in Persons, NEW c \in Clients
      PROVE  \/ consent'[p][c] = consent[p][c]
             \/ /\ p = req[r].person /\ c = authz[req[r].auth].client
                /\ consent'[p][c] = authz[req[r].auth].uri
  BY <1>1, <1>2 DEF TypeOK
<1>5. ConsentRestsOnClick'
  BY <1>2, <1>3, <1>4 DEF ClickInv, ConsentRestsOnClick
<1>6. \A x \in Requests : req'[x].pc \in Decided \cup {"decide"} =>
         req'[x] = req[x]
  BY <1>1, <1>2, RequestMoves DEF Idle, Decided, Ungranted
<1>7. ClickInv'
  BY <1>2, <1>5, <1>6 DEF ClickInv
<1>8. DecisionInv'
  BY <1>2, <1>6 DEF DecisionInv, ApprovedFor, Decided
<1> QED BY <1>7, <1>8

\* Approvals are decided once and rest on a click, in every reachable state.
THEOREM ApprovalsDecidedOnce == Spec => [](ClickInv /\ DecisionInv)
<1>1. Init => ClickInv /\ DecisionInv
  BY DEF Init, ClickInv, DecisionInv, ConsentRestsOnClick, NoGrant, Idle, Decided,
     Ungranted
<1>2. ASSUME GrantInv, WithdrawalInv, ClickInv, DecisionInv, [Next]_vars
      PROVE  ClickInv' /\ DecisionInv'
  <2>1. ASSUME NEW r \in Requests, Approval(r)
        PROVE  ClickInv' /\ DecisionInv'
    <3>1. CASE Mint(r) \/ RecordAgentSession(r) \/ CredentialsFingerprint(r)
               \/ RevokeClientGrants(r) \/ IssueCode(r)
      BY <1>2, <3>1, ApprovalUndecided, NothingDecided
    <3> QED BY <1>2, <2>1, <3>1, BindDecides, FoundConsentDecides, DecisionDecides,
               InsertDecides, UpsertDecides DEF Approval
  <2>2. ASSUME NEW r \in Requests, Refresh(r)
        PROVE  ClickInv' /\ DecisionInv'
    BY <1>2, <2>2, RefreshUndecided, NothingDecided
  <2>3. ASSUME NEW a \in Auths, NEW c \in Clients, NEW u \in Addresses,
               HandleAuthorizeStart(a, c, u)
        PROVE  ClickInv' /\ DecisionInv'
    BY <1>2, <2>3, StartDecides
  <2>4. CASE \/ \E r \in Requests : Throw(r) \/ Undo(r) \/ Crash(r)
             \/ \E a \in Auths : AuthorizationExpires(a)
             \/ DeleteExpiredAuthorizations
             \/ \E k \in codes : CodeExpires(k)
             \/ \E k \in codes, matches \in BOOLEAN : HandleToken(k, matches)
             \/ \E g \in Grants : WindowCloses(g)
             \/ \E p \in Persons : GiveSecondFactor(p) \/ ChangeCredentials(p)
             \/ \E r \in Requests : RevokeConnectedAgent(r)
             \/ UNCHANGED vars
    BY <1>2, <2>4, OthersUndecided, NothingDecided
  <2> QED BY <1>2, <2>1, <2>2, <2>3, <2>4 DEF Next
<1> QED BY <1>1, <1>2, GrantInvariant, PTL DEF Spec

\* An authorization opens at most one grant, for the person it is bound to.
THEOREM AuthorizedOnce == Spec => []OneGrantPerAuthorization
<1>1. ASSUME GrantInv, DecisionInv PROVE OneGrantPerAuthorization
  <2>1. \A g \in Grants : grants[g].phase = "absent" => grants[g].of = None
    BY <1>1 DEF GrantInv, GrantsInv, GrantOK, NoGrant
  <2>2. \A g \in Grants : grants[g].phase # "absent" =>
           grants[g].of # None /\ authz[grants[g].of].user = grants[g].person
    BY <1>1, GrantAssumption DEF DecisionInv, ApprovedFor
  <2> QED BY <1>1, <2>1, <2>2 DEF DecisionInv, OneGrantPerAuthorization
<1> QED BY <1>1, GrantInvariant, ApprovalsDecidedOnce, PTL

\* A consent rests on a click for the same client and return address.
THEOREM ConsentWasClicked == Spec => []ConsentRestsOnClick
<1>1. ClickInv => ConsentRestsOnClick
  BY DEF ClickInv
<1> QED BY <1>1, ApprovalsDecidedOnce, PTL

-----------------------------------------------------------------------------
(* Every session alive is some grant's, or a request is still on its way. *)

\* A request keeps what it knows of its grant and what it carries.
KeepsCarried(r) ==
    /\ RenewOK(r)'
    /\ faulty' \/ \A s \in Sessions : Carries(r, s) /\ Live(s)' => Carries(r, s)'

\* The grants keep their session and generation, none begins to live.
KeepsSessions ==
    /\ \A g \in Grants : /\ grants'[g].session = grants[g].session
                         /\ grants'[g].generation = grants[g].generation
    /\ \A s \in Sessions : Live(s)' => Live(s)
    /\ faulty => faulty'

\* A request that does not move keeps both.
LEMMA UnmovedKeeps ==
    ASSUME GrantInv, KeepsSessions, NEW r \in Requests, RenewOK(r), req'[r] = req[r]
    PROVE  KeepsCarried(r)
<1>1. RefreshOK(r)
  BY DEF GrantInv, RequestsInv
<1>2. RenewOK(r)'
  <2>1. CASE req[r].pc \in Refreshing
    <3>1. req[r].grant \in Grants /\ req[r].old \in Sessions
      BY <1>1, <2>1 DEF RefreshOK, Covered, Held
    <3> QED BY <3>1 DEF RenewOK, KeepsSessions
  <2>2. CASE req[r].pc \notin Refreshing
    BY <2>2 DEF RenewOK, Refreshing
  <2> QED BY <2>1, <2>2
<1>3. \A s \in Sessions : Carries(r, s) => Carries(r, s)'
  BY DEF Carries
<1> QED BY <1>2, <1>3 DEF KeepsCarried

\* A step after which every request carries what it did.
LEMMA NothingStrays ==
    ASSUME GrantInv, StrayInv, KeepsSessions, \A r \in Requests : KeepsCarried(r)
    PROVE  StrayInv'
<1>1. \A r \in Requests : RenewOK(r)'
  BY DEF KeepsCarried
<1>2. ASSUME ~faulty', NEW s \in Sessions, Live(s)'
      PROVE  \/ \E g \in Grants : grants'[g].session = s
             \/ \E r \in Requests : Carries(r, s)'
  <2>1. Live(s) /\ ~faulty
    BY <1>2 DEF KeepsSessions
  <2>2. CASE \E g \in Grants : grants[g].session = s
    BY <2>2 DEF KeepsSessions
  <2>3. CASE \E r \in Requests : Carries(r, s)
    BY <1>2, <2>3 DEF KeepsCarried
  <2> QED BY <2>1, <2>2, <2>3 DEF StrayInv
<1> QED BY <1>1, <1>2 DEF StrayInv

\* The tables of a step that opens no session and moves no grant.
LEMMA TablesKeepSessions ==
    ASSUME GrantInv, faulty => faulty',
           \/ UNCHANGED sessions
           \/ \E S : EndSessions(S),
           \/ UNCHANGED grants
           \/ \E G : EndGrants(G)
    PROVE  KeepsSessions
<1>1. TypeOK
  BY DEF GrantInv
<1>2. ASSUME NEW S, EndSessions(S), NEW s \in Sessions, Live(s)'
      PROVE  Live(s)
  BY <1>1, <1>2 DEF EndSessions, TypeOK, SessionRow, Live
<1>3. \A s \in Sessions : Live(s)' => Live(s)
  BY <1>2 DEF Live
<1>4. \A g \in Grants : /\ grants'[g].session = grants[g].session
                        /\ grants'[g].generation = grants[g].generation
  BY <1>1, EndGrantsRows
<1> QED BY <1>3, <1>4 DEF KeepsSessions

\* One request moves and keeps what it carries; the others are where they were.
LEMMA OneCarries ==
    ASSUME GrantInv, StrayInv, KeepsSessions, NEW r \in Requests, KeepsCarried(r),
           \A x \in Requests : x # r => req'[x] = req[x]
    PROVE  StrayInv'
<1>1. \A x \in Requests : KeepsCarried(x)
  BY UnmovedKeeps DEF StrayInv
<1> QED BY <1>1, NothingStrays

\* A request that answers may drop what it carries only if that is nothing
\* alive, or something failed.
LEMMA AnsweredCarries ==
    ASSUME GrantInv, StrayInv, NEW r \in Requests, Answered(r),
           faulty' \/ \A s \in Sessions : Carries(r, s) => ~Live(s)'
    PROVE  KeepsCarried(r) /\ \A x \in Requests : x # r => req'[x] = req[x]
<1>1. req'[r] = Idle /\ \A x \in Requests : x # r => req'[x] = req[x]
  BY RequestMoves DEF GrantInv
<1>2. RenewOK(r)'
  BY <1>1 DEF RenewOK, Idle, Refreshing
<1> QED BY <1>1, <1>2 DEF KeepsCarried

\* A request that goes on to its next call carries what it did.
LEMMA GoneOnCarries ==
    ASSUME GrantInv, StrayInv, KeepsSessions, NEW r \in Requests, NEW pc, Goes(r, pc),
           \/ faulty' /\ pc \notin Refreshing
           \/ /\ \A s \in Sessions : Carries(r, s) /\ Live(s)' => Carries(r, s)'
              /\ \/ pc \notin Refreshing
                 \/ pc \in {"lose", "reread"}
                 \/ req[r].pc = "consented" /\ pc = "renew"
                 \/ req[r].pc = "compare" /\ pc = "remint"
                 \/ /\ req[r].pc = "renew" /\ pc = "compare"
                    /\ sessions'[req[r].old].state # "live" \/ faulty'
                 \/ req[r].pc \in {"rerecord", "forget"} /\ pc \in {"forget", "advance"}
    PROVE  KeepsCarried(r) /\ \A x \in Requests : x # r => req'[x] = req[x]
<1>1. /\ req'[r].pc = pc /\ req'[r].grant = req[r].grant /\ req'[r].old = req[r].old
      /\ req'[r].generation = req[r].generation /\ req'[r].session = req[r].session
      /\ req'[r].minted = req[r].minted
      /\ \A x \in Requests : x # r => req'[x] = req[x]
  BY RequestMoves DEF GrantInv
<1>2. RenewOK(r) /\ RefreshOK(r)
  BY DEF StrayInv, GrantInv, RequestsInv
<1>3. RenewOK(r)'
  <2>1. CASE pc \notin Refreshing \/ pc \in {"lose", "reread"}
    BY <1>1, <2>1 DEF RenewOK, Refreshing
  <2>2. CASE \/ req[r].pc = "consented" /\ pc = "renew"
             \/ req[r].pc = "compare" /\ pc = "remint"
             \/ /\ req[r].pc = "renew" /\ pc = "compare"
                /\ sessions'[req[r].old].state # "live" \/ faulty'
    <3>1. req[r].grant \in Grants /\ req[r].old \in Sessions
      BY <1>2, <2>2 DEF RefreshOK, Refreshing, Covered, Held
    <3>2. ASSUME pc \in {"compare", "remint"}
          PROVE  sessions'[req[r].old].state # "live" \/ faulty'
      <4>1. CASE req[r].pc = "compare"
        <5>1. ~Live(req[r].old) \/ faulty
          BY <1>2, <4>1 DEF RenewOK
        <5>2. /\ sessions'[req[r].old].state = "live" => Live(req[r].old)
              /\ faulty => faulty'
          BY <3>1 DEF KeepsSessions, Live
        <5> QED BY <5>1, <5>2
      <4>2. CASE req[r].pc # "compare"
        BY <2>2, <3>2, <4>2
      <4> QED BY <4>1, <4>2
    <3> QED BY <1>1, <1>2, <2>2, <3>1, <3>2 DEF RenewOK, Refreshing, KeepsSessions, Live
  <2>3. CASE req[r].pc \in {"rerecord", "forget"} /\ pc \in {"forget", "advance"}
    <3>1. /\ req[r].grant \in Grants /\ req[r].old \in Sessions
          /\ ~Live(req[r].old) \/ faulty
          /\ req[r].minted
      BY <1>2, <2>3 DEF RefreshOK, RenewOK, Refreshing, Covered, Held
    <3>2. sessions'[req[r].old].state # "live" \/ faulty'
      BY <3>1 DEF KeepsSessions, Live
    <3> QED BY <1>1, <1>2, <2>3, <3>1, <3>2 DEF RenewOK, Refreshing, KeepsSessions, Live
  <2> QED BY <2>1, <2>2, <2>3
<1> QED BY <1>1, <1>3 DEF KeepsCarried

\* The steps of an approval but those that open the session and the grant.
LEMMA ApprovalCarries ==
    ASSUME GrantInv, StrayInv, NEW r \in Requests,
           \/ \E p \in Persons, a \in Auths : \/ HandleAuthorizationRead(r, p, a)
                                              \/ HandleConsentDecision(r, p, a)
           \/ FindConsent(r) \/ DecideAuthorization(r) \/ RecordAgentSession(r)
           \/ CredentialsFingerprint(r) \/ RevokeClientGrants(r) \/ IssueCode(r)
           \/ UpsertConsent(r)
    PROVE  StrayInv'
<1>1. TypeOK
  BY DEF GrantInv
<1>2. UNCHANGED <<sessions, faulty>> /\ (UNCHANGED grants \/ \E G : EndGrants(G))
  BY DEF HandleAuthorizationRead, HandleConsentDecision, FindConsent,
     DecideAuthorization, RecordAgentSession, CredentialsFingerprint,
     RevokeClientGrants, IssueCode, UpsertConsent, sessionVars, recordVars, grantVars, eventVars
<1>3. KeepsSessions
  BY <1>2, TablesKeepSessions
<1>4. ASSUME NEW p \in Persons, NEW a \in Auths,
             HandleAuthorizationRead(r, p, a) \/ HandleConsentDecision(r, p, a)
      PROVE  StrayInv'
  <2>1. PICK then \in {"consent", "decide", "deny"} : Bind(r, p, a, then)
    BY <1>4 DEF HandleAuthorizationRead, HandleConsentDecision
  <2>2. /\ req[r] = Idle /\ req'[r].pc = then
        /\ \A x \in Requests : x # r => req'[x] = req[x]
    BY <1>1, <2>1 DEF Bind, TypeOK, Idle
  <2>3. KeepsCarried(r)
    BY <2>2 DEF KeepsCarried, RenewOK, Carries, Refreshing, Idle
  <2> QED BY <1>3, <2>2, <2>3, OneCarries
<1>5. CASE FindConsent(r) \/ DecideAuthorization(r) \/ IssueCode(r)
           \/ UpsertConsent(r)
  <2>1. \A s : ~Carries(r, s)
    BY <1>5 DEF FindConsent, DecideAuthorization, IssueCode, UpsertConsent, Carries
  <2>2. Answered(r) \/ \E pc \in {"decide", "mint", "upsert"} : Goes(r, pc)
    BY <1>5 DEF FindConsent, DecideAuthorization, IssueCode, UpsertConsent
  <2>3. KeepsCarried(r) /\ \A x \in Requests : x # r => req'[x] = req[x]
    BY <1>3, <2>1, <2>2, AnsweredCarries, GoneOnCarries DEF Refreshing
  <2> QED BY <1>3, <2>3, OneCarries
<1>6. CASE RecordAgentSession(r) \/ RevokeClientGrants(r)
  <2>1. PICK pc : /\ Goes(r, pc)
                  /\ \/ req[r].pc = "record" /\ pc = "print"
                     \/ req[r].pc = "rerecord" /\ pc = "forget"
                     \/ req[r].pc = "end" /\ pc = "insert"
    BY <1>6 DEF RecordAgentSession, RevokeClientGrants
  <2>2. \A s \in Sessions : Carries(r, s) => Carries(r, s)'
    BY <1>1, <2>1, RequestMoves DEF Carries
  <2>3. KeepsCarried(r) /\ \A x \in Requests : x # r => req'[x] = req[x]
    BY <1>3, <2>1, <2>2, GoneOnCarries DEF Refreshing
  <2> QED BY <1>3, <2>3, OneCarries
<1>7. CASE CredentialsFingerprint(r)
  <2>1. /\ req[r].pc = "print" /\ req'[r].pc = "end"
        /\ req'[r].session = req[r].session
        /\ \A x \in Requests : x # r => req'[x] = req[x]
    BY <1>1, <1>7 DEF CredentialsFingerprint, TypeOK, Request
  <2>2. KeepsCarried(r)
    BY <2>1 DEF KeepsCarried, RenewOK, Carries, Refreshing
  <2> QED BY <1>3, <2>1, <2>2, OneCarries
<1> QED BY <1>4, <1>5, <1>6, <1>7

\* The request that opens a session carries it.
LEMMA MintCarries ==
    ASSUME GrantInv, StrayInv, NEW r \in Requests, Mint(r) \/ Remint(r)
    PROVE  StrayInv'
<1>1. TypeOK
  BY DEF GrantInv
<1>2. /\ UNCHANGED <<grants, faulty>>
      /\ \A s : ~Carries(r, s)
      /\ RenewOK(r) /\ RefreshOK(r)
  BY DEF Mint, Remint, grantVars, eventVars, Carries, StrayInv, GrantInv, RequestsInv
<1>3. CASE Answered(r) /\ UNCHANGED sessions
  <2>1. KeepsSessions
    BY <1>2, <1>3, TablesKeepSessions
  <2> QED BY <1>2, <1>3, <2>1, AnsweredCarries, OneCarries
<1>4. ASSUME NEW s \in Sessions, NEW then \in {"record", "rerecord"},
             then = "rerecord" => req[r].pc = "remint",
             sessions[s].state = "none",
             \E p, c : sessions' = [sessions EXCEPT ![s] =
                          [state |-> "live", person |-> p, client |-> c]],
             req' = [req EXCEPT ![r].pc = then, ![r].session = s, ![r].minted = TRUE]
      PROVE  StrayInv'
  <2>1. /\ req'[r].pc = then /\ req'[r].session = s /\ req'[r].minted = TRUE
        /\ req'[r].grant = req[r].grant /\ req'[r].old = req[r].old
        /\ req'[r].generation = req[r].generation
        /\ \A x \in Requests : x # r => req'[x] = req[x]
    BY <1>1, <1>4 DEF TypeOK, Request
  <2>2. \A t \in Sessions : t # s => sessions'[t] = sessions[t]
    BY <1>1, <1>4 DEF TypeOK
  <2>3. Carries(r, s)'
    BY <2>1 DEF Carries
  <2>4. RenewOK(r)'
    <3>1. CASE then = "record"
      BY <2>1, <3>1 DEF RenewOK, Refreshing
    <3>2. CASE then = "rerecord"
      <4>1. req[r].old \in Sessions /\ sessions[req[r].old].state # "none"
        BY <1>2, <1>4, <3>2 DEF RefreshOK, Refreshing, Covered, Held
      <4>2. sessions'[req[r].old] = sessions[req[r].old]
        BY <1>4, <2>2, <4>1
      <4> QED BY <1>2, <1>4, <2>1, <3>2, <4>2 DEF RenewOK, Refreshing, Live
    <3> QED BY <3>1, <3>2
  <2>5. ASSUME NEW x \in Requests, x # r
        PROVE  RenewOK(x)'
    <3>1. RenewOK(x) /\ RefreshOK(x) /\ req'[x] = req[x]
      BY <2>1, <2>5 DEF StrayInv, GrantInv, RequestsInv
    <3>2. CASE req[x].pc \in Refreshing
      <4>1. req[x].old \in Sessions /\ sessions[req[x].old].state # "none"
        BY <3>1, <3>2 DEF RefreshOK, Covered, Held
      <4>2. sessions'[req[x].old] = sessions[req[x].old]
        BY <1>4, <2>2, <4>1
      <4> QED BY <1>2, <3>1, <4>2 DEF RenewOK, Live
    <3>3. CASE req[x].pc \notin Refreshing
      BY <3>1, <3>3 DEF RenewOK, Refreshing
    <3> QED BY <3>2, <3>3
  <2>6. ASSUME ~faulty', NEW t \in Sessions, Live(t)'
        PROVE  \/ \E g \in Grants : grants'[g].session = t
               \/ \E x \in Requests : Carries(x, t)'
    <3>1. CASE t = s
      BY <2>3, <3>1 DEF Carries
    <3>2. CASE t # s
      <4>1. Live(t) /\ ~faulty
        BY <1>2, <2>2, <2>6, <3>2 DEF Live
      <4>2. CASE \E g \in Grants : grants[g].session = t
        BY <1>2, <4>2
      <4>3. CASE \E x \in Requests : Carries(x, t)
        <5>1. PICK x \in Requests : Carries(x, t)
          BY <4>3
        <5> QED BY <1>2, <2>1, <5>1 DEF Carries
      <4> QED BY <4>1, <4>2, <4>3 DEF StrayInv
    <3> QED BY <3>1, <3>2
  <2> QED BY <2>4, <2>5, <2>6 DEF StrayInv
<1>5. ASSUME NEW then \in {"record", "rerecord"}, NEW p, NEW c,
             then = "rerecord" => req[r].pc = "remint", MintSession(r, p, c, then)
      PROVE  StrayInv'
  <2>1. CASE Answered(r) /\ UNCHANGED sessions
    BY <1>3, <2>1
  <2>2. ASSUME NEW s \in Sessions, sessions[s].state = "none",
               sessions' = [sessions EXCEPT ![s] =
                  [state |-> "live", person |-> p, client |-> c]],
               req' = [req EXCEPT ![r].pc = then, ![r].session = s, ![r].minted = TRUE]
        PROVE  StrayInv'
    <3>1. \E q, d : sessions' = [sessions EXCEPT ![s] =
                       [state |-> "live", person |-> q, client |-> d]]
      BY <2>2
    <3> QED BY <1>4, <1>5, <2>2, <3>1
  <2> QED BY <1>5, <2>1, <2>2 DEF MintSession
<1>6. CASE Mint(r)
  BY <1>5, <1>6 DEF Mint
<1>7. CASE Remint(r)
  BY <1>5, <1>7 DEF Remint
<1> QED BY <1>6, <1>7

\* The grant that is opened takes the session over.
LEMMA InsertCarries ==
    ASSUME GrantInv, StrayInv, NEW r \in Requests, InsertGrant(r)
    PROVE  StrayInv'
<1>1. TypeOK /\ UNCHANGED <<sessions, faulty>>
  BY DEF GrantInv, InsertGrant, sessionVars, recordVars, eventVars
<1>2. PICK g \in Grants :
         /\ grants[g].phase = "absent"
         /\ grants' = [grants EXCEPT ![g] =
               [phase |-> "live", person |-> req[r].person,
                client |-> authz[req[r].auth].client, generation |-> 0,
                session |-> req[r].session, print |-> req[r].print,
                recent |-> TRUE, of |-> req[r].auth,
                first |-> req[r].session]]
         /\ req' = [req EXCEPT ![r].pc = "code", ![r].grant = g]
  BY DEF InsertGrant
<1>3. /\ grants'[g].session = req[r].session
      /\ \A h \in Grants : h # g => grants'[h] = grants[h]
  BY <1>1, <1>2 DEF TypeOK
<1>4. req'[r].pc = "code" /\ \A x \in Requests : x # r => req'[x] = req[x]
  BY <1>1, <1>2 DEF TypeOK, Request
<1>5. grants[g].session \notin Sessions
  BY <1>2, GrantAssumption DEF GrantInv, GrantsInv, GrantOK, NoGrant
<1>6. ASSUME NEW x \in Requests
      PROVE  RenewOK(x)'
  <2>1. CASE x = r
    BY <1>4, <2>1 DEF RenewOK, Refreshing
  <2>2. CASE x # r /\ req[x].pc \in Refreshing
    <3>1. RenewOK(x) /\ RefreshOK(x) /\ req'[x] = req[x]
      BY <1>4, <2>2 DEF StrayInv, GrantInv, RequestsInv
    <3>2. req[x].grant \in Grants /\ req[x].grant # g
      BY <1>2, <2>2, <3>1 DEF RefreshOK
    <3>3. grants'[req[x].grant] = grants[req[x].grant]
      BY <1>3, <3>2
    <3> QED BY <1>1, <3>1, <3>3 DEF RenewOK, Live
  <2>3. CASE x # r /\ req[x].pc \notin Refreshing
    BY <1>4, <2>3 DEF RenewOK, Refreshing
  <2> QED BY <2>1, <2>2, <2>3
<1>7. ASSUME ~faulty', NEW t \in Sessions, Live(t)'
      PROVE  \/ \E h \in Grants : grants'[h].session = t
             \/ \E x \in Requests : Carries(x, t)'
  <2>1. Live(t) /\ ~faulty
    BY <1>1, <1>7 DEF Live
  <2>2. CASE \E h \in Grants : grants[h].session = t
    BY <1>3, <1>5, <2>2
  <2>3. ASSUME NEW x \in Requests, Carries(x, t)
        PROVE  \/ \E h \in Grants : grants'[h].session = t
               \/ Carries(x, t)'
    BY <1>3, <1>4, <2>3 DEF Carries
  <2> QED BY <2>1, <2>2, <2>3 DEF StrayInv
<1> QED BY <1>6, <1>7 DEF StrayInv

\* A refresh starts from the grant as it stands, or only looks at it.
LEMMA RefreshGrantCarries ==
    ASSUME GrantInv, StrayInv, NEW r \in Requests, RefreshGrant(r)
    PROVE  StrayInv'
<1>1. TypeOK
  BY DEF GrantInv
<1>2. UNCHANGED <<sessions, grants, faulty>>
  BY DEF RefreshGrant, RefreshRaced, RefreshReused, RefreshCurrent, sessionVars, recordVars,
     grantVars, eventVars
<1>3. KeepsSessions
  BY <1>2, TablesKeepSessions
<1>4. PICK t \in answers : \/ RefreshRaced(t.grant, t.generation)
                           \/ RefreshReused(r, t.grant, t.generation)
                           \/ RefreshCurrent(r, t.grant, t.generation)
  BY DEF RefreshGrant
<1> DEFINE g == t.grant
<1>5. CASE RefreshRaced(g, t.generation)
  <2>1. UNCHANGED req
    BY <1>5 DEF RefreshRaced
  <2> QED BY <1>3, <2>1, UnmovedKeeps, NothingStrays DEF StrayInv
<1>6. CASE RefreshReused(r, g, t.generation)
  <2>1. /\ req[r] = Idle /\ req'[r].pc = "revoke"
        /\ \A x \in Requests : x # r => req'[x] = req[x]
    BY <1>1, <1>6 DEF RefreshReused, TypeOK, Idle
  <2>2. KeepsCarried(r)
    BY <2>1 DEF KeepsCarried, RenewOK, Carries, Refreshing, Idle
  <2> QED BY <1>3, <2>1, <2>2, OneCarries
<1>7. CASE RefreshCurrent(r, g, t.generation)
  <2>1. /\ req[r] = Idle /\ req'[r].pc = "consented" /\ req'[r].grant = g
        /\ req'[r].old = grants[g].session
        /\ \A x \in Requests : x # r => req'[x] = req[x]
    BY <1>1, <1>7 DEF RefreshCurrent, TypeOK, Idle
  <2>2. KeepsCarried(r)
    BY <1>2, <2>1 DEF KeepsCarried, RenewOK, Carries, Refreshing, Idle
  <2> QED BY <1>3, <2>1, <2>2, OneCarries
<1> QED BY <1>4, <1>5, <1>6, <1>7

\* The steps between, up to the one that moves the grant, and those after it:
\* the loser ends what it opened, or that failed.
LEMMA RenewalCarries ==
    ASSUME GrantInv, StrayInv, NEW r \in Requests,
           \/ StillConsented(r) \/ RevokeGrant(r) \/ RefreshSession(r)
           \/ CompareFingerprint(r) \/ ForgetAgentSession(r)
           \/ EndLosersSession(r) \/ RereadGrant(r)
    PROVE  StrayInv'
<1>1. TypeOK /\ RenewOK(r) /\ RefreshOK(r)
  BY DEF GrantInv, RequestsInv, StrayInv
<1>2. /\ faulty' = faulty \/ faulty'
      /\ UNCHANGED sessions \/ \E S : EndSessions(S)
      /\ UNCHANGED grants \/ \E G : EndGrants(G)
  BY DEF StillConsented, RevokeGrant, RefreshSession, CompareFingerprint,
     ForgetAgentSession, EndLosersSession, RereadGrant, RevokeSession, Fault,
     sessionVars, recordVars, grantVars, eventVars
<1>3. KeepsSessions
  BY <1>2, TablesKeepSessions
<1>4. ASSUME NEW pc, Goes(r, pc), \A s : ~Carries(r, s),
             \/ pc \in {"revoke", "reread"}
             \/ req[r].pc = "consented" /\ pc = "renew"
             \/ /\ req[r].pc = "renew" /\ pc = "compare"
                /\ sessions'[req[r].old].state # "live" \/ faulty'
             \/ req[r].pc = "compare" /\ pc = "remint"
      PROVE  StrayInv'
  BY <1>3, <1>4, GoneOnCarries, OneCarries DEF Refreshing
<1>5. ASSUME Answered(r), \A s : ~Carries(r, s) PROVE StrayInv'
  BY <1>3, <1>5, AnsweredCarries, OneCarries
<1>6. CASE StillConsented(r) \/ CompareFingerprint(r)
  BY <1>4, <1>6 DEF StillConsented, CompareFingerprint, Carries
<1>7. CASE RevokeGrant(r) \/ RereadGrant(r)
  BY <1>5, <1>7 DEF RevokeGrant, RereadGrant, Carries
<1>8. CASE RefreshSession(r)
  <2>1. req[r].pc = "renew" /\ \A s : ~Carries(r, s)
    BY <1>8 DEF RefreshSession, Carries
  <2>2. CASE req' = [req EXCEPT ![r].pc = "advance", ![r].session = req[r].old]
    <3>1. /\ req'[r].pc = "advance" /\ req'[r].session = req[r].old
          /\ req'[r].old = req[r].old /\ req'[r].grant = req[r].grant
          /\ req'[r].generation = req[r].generation
          /\ \A x \in Requests : x # r => req'[x] = req[x]
      BY <1>1, <2>2 DEF TypeOK, Request
    <3>2. req[r].grant \in Grants
      BY <1>1, <2>1 DEF RefreshOK, Refreshing
    <3>3. RenewOK(r)'
      BY <1>1, <1>3, <2>1, <3>1, <3>2 DEF RenewOK, Refreshing, KeepsSessions
    <3>4. KeepsCarried(r)
      BY <2>1, <3>3 DEF KeepsCarried
    <3> QED BY <1>3, <3>1, <3>4, OneCarries
  <2>3. CASE Goes(r, "compare")
    <3>1. sessions'[req[r].old].state # "live" \/ faulty'
      <4>1. CASE sessions[req[r].old].state # "live"
        <5>1. sessions' = sessions
          BY <1>8 DEF RefreshSession
        <5>2. sessions'[req[r].old].state # "live"
          BY <4>1, <5>1
        <5> QED BY <5>2 DEF Live
      <4>2. CASE sessions[req[r].old].state = "live"
        <5>1. req'[r].pc = "compare"
          BY <1>1, <2>3, RequestMoves
        <5>2. ~Answered(r)
          BY <1>1, <5>1, RequestMoves DEF Idle
        <5>3. req' # [req EXCEPT ![r].pc = "advance", ![r].session = req[r].old]
          BY <1>1, <5>1 DEF TypeOK, Request
        <5> QED BY <1>8, <4>2, <5>2, <5>3 DEF RefreshSession, Fault
      <4> QED BY <4>1, <4>2
    <3> QED BY <1>4, <2>1, <2>3, <3>1
  <2> QED BY <1>5, <1>8, <2>1, <2>2, <2>3 DEF RefreshSession
<1>9. CASE ForgetAgentSession(r)
  <2>1. Goes(r, "advance") /\ req[r].pc = "forget" /\ req[r].minted
    BY <1>1, <1>9 DEF ForgetAgentSession, RenewOK
  <2>2. \A s \in Sessions : Carries(r, s) => Carries(r, s)'
    BY <1>1, <2>1, RequestMoves DEF Carries
  <2> QED BY <1>3, <2>1, <2>2, GoneOnCarries, OneCarries
<1>10. CASE EndLosersSession(r)
  <2>1. Goes(r, "reread") /\ req[r].pc = "lose" /\ RevokeSession(req[r].session)
    BY <1>10 DEF EndLosersSession
  <2>2. req[r].session \in Sessions
    BY <1>1, <2>1 DEF RefreshOK, Held
  <2>3. CASE EndSessions({req[r].session})
    <3>1. ~(sessions'[req[r].session].state = "live")
      BY <1>1, <2>2, <2>3 DEF EndSessions, TypeOK, SessionRow
    <3>2. \A s \in Sessions : Carries(r, s) => ~Live(s)'
      BY <3>1 DEF Carries, Live
    <3> QED BY <1>3, <2>1, <3>2, GoneOnCarries, OneCarries
  <2>4. CASE Fault
    <3>1. faulty'
      BY <2>4 DEF Fault
    <3>2. req'[r].pc = "reread" /\ \A x \in Requests : x # r => req'[x] = req[x]
      BY <1>1, <2>1, RequestMoves
    <3>3. KeepsCarried(r)
      BY <3>1, <3>2 DEF KeepsCarried, RenewOK
    <3> QED BY <1>3, <3>2, <3>3, OneCarries
  <2> QED BY <2>1, <2>3, <2>4 DEF RevokeSession
<1> QED BY <1>6, <1>7, <1>8, <1>9, <1>10

\* The grant that moves leaves no session alive: it keeps the one it has, or
\* that has ended.
LEMMA AdvanceCarries ==
    ASSUME GrantInv, StrayInv, NEW r \in Requests, AdvanceGrant(r)
    PROVE  StrayInv'
<1> DEFINE q == req[r]
           g == q.grant
<1>1. TypeOK /\ RenewOK(r) /\ RefreshOK(r)
  BY DEF GrantInv, RequestsInv, StrayInv
<1>2. /\ q.pc = "advance" /\ UNCHANGED <<sessions, faulty>>
      /\ g \in Grants /\ g \in sent /\ q.session \in Sessions /\ q.old \in Sessions
  BY <1>1 DEF AdvanceGrant, sessionVars, recordVars, eventVars, RefreshOK, Refreshing, Covered,
     Held
<1>3. CASE /\ UNCHANGED grants
           /\ Goes(r, IF q.minted THEN "lose" ELSE "reread")
  <2>1. KeepsSessions
    BY <1>2, <1>3, TablesKeepSessions
  <2>2. \A s \in Sessions : Carries(r, s) => Carries(r, s)'
    <3>1. CASE q.minted
      BY <1>1, <1>3, <3>1, RequestMoves DEF Carries
    <3>2. CASE ~q.minted
      BY <1>2, <3>2 DEF Carries
    <3> QED BY <3>1, <3>2
  <2> QED BY <1>3, <2>1, <2>2, GoneOnCarries, OneCarries DEF Refreshing
<1>4. CASE /\ CanAdvance(r) /\ Answered(r)
           /\ grants' = [grants EXCEPT ![g].generation = q.generation + 1,
                                       ![g].session = q.session,
                                       ![g].recent = TRUE]
  <2>1. /\ grants'[g].session = q.session /\ grants'[g].generation = q.generation + 1
        /\ \A h \in Grants : h # g => grants'[h] = grants[h]
    BY <1>1, <1>2, <1>4 DEF TypeOK, GrantRow
  <2>2. req'[r] = Idle /\ \A x \in Requests : x # r => req'[x] = req[x]
    BY <1>1, <1>4, RequestMoves
  <2>3. grants[g].generation = q.generation /\ q.generation \in Nat
    BY <1>1, <1>4 DEF CanAdvance, TypeOK, Request
  <2>4. q.old = grants[g].session
    BY <1>1, <1>2, <2>3 DEF RenewOK, Refreshing
  <2>5. ASSUME NEW x \in Requests
        PROVE  RenewOK(x)'
    <3>1. CASE x = r
      BY <2>2, <3>1 DEF RenewOK, Refreshing, Idle
    <3>2. CASE x # r /\ req[x].pc \in Refreshing
      <4>1. RenewOK(x) /\ RefreshOK(x) /\ req'[x] = req[x]
        BY <2>2, <3>2 DEF StrayInv, GrantInv, RequestsInv
      <4>2. /\ req[x].grant \in Grants
            /\ req[x].generation <= grants[req[x].grant].generation
            /\ req[x].generation \in Nat
        BY <1>1, <3>2, <4>1 DEF RefreshOK, TypeOK, Request
      <4>3. CASE req[x].grant = g
        <5>1. req[x].generation # grants'[g].generation
          BY <2>1, <2>3, <4>2, <4>3
        <5> QED BY <1>2, <4>1, <4>3, <5>1 DEF RenewOK, Live
      <4>4. CASE req[x].grant # g
        <5>1. grants'[req[x].grant] = grants[req[x].grant]
          BY <2>1, <4>2, <4>4
        <5> QED BY <1>2, <4>1, <5>1 DEF RenewOK, Live
      <4> QED BY <4>3, <4>4
    <3>3. CASE x # r /\ req[x].pc \notin Refreshing
      BY <2>2, <3>3 DEF RenewOK, Refreshing
    <3> QED BY <3>1, <3>2, <3>3
  <2>6. ASSUME ~faulty', NEW t \in Sessions, Live(t)'
        PROVE  \/ \E h \in Grants : grants'[h].session = t
               \/ \E x \in Requests : Carries(x, t)'
    <3>1. Live(t) /\ ~faulty
      BY <1>2, <2>6 DEF Live
    <3>2. ASSUME NEW h \in Grants, grants[h].session = t
          PROVE  \E i \in Grants : grants'[i].session = t
      <4>1. CASE h # g
        BY <2>1, <3>2, <4>1
      <4>2. CASE h = g
        <5>1. q.session = q.old
          BY <1>1, <1>2, <2>4, <3>1, <3>2, <4>2 DEF RenewOK
        <5> QED BY <1>2, <2>1, <2>4, <3>2, <4>2, <5>1
      <4> QED BY <4>1, <4>2
    <3>3. ASSUME NEW x \in Requests, Carries(x, t)
          PROVE  \/ \E h \in Grants : grants'[h].session = t
                 \/ Carries(x, t)'
      BY <1>2, <2>1, <2>2, <3>3 DEF Carries
    <3> QED BY <3>1, <3>2, <3>3 DEF StrayInv
  <2> QED BY <2>5, <2>6 DEF StrayInv
<1> QED BY <1>3, <1>4 DEF AdvanceGrant

\* A request that dies or throws leaves the system faulty; the others find all
\* as it was.
LEMMA OthersCarry ==
    ASSUME GrantInv, WithdrawalInv, StrayInv,
           \/ \E r \in Requests : Throw(r) \/ Undo(r) \/ Crash(r)
           \/ \E a \in Auths, c \in Clients, u \in Addresses :
                 HandleAuthorizeStart(a, c, u)
           \/ \E a \in Auths : AuthorizationExpires(a)
           \/ DeleteExpiredAuthorizations
           \/ \E k \in codes : CodeExpires(k)
           \/ \E k \in codes, matches \in BOOLEAN : HandleToken(k, matches)
           \/ \E g \in Grants : WindowCloses(g)
           \/ \E p \in Persons : GiveSecondFactor(p) \/ ChangeCredentials(p)
           \/ \E r \in Requests : RevokeConnectedAgent(r)
           \/ UNCHANGED vars
    PROVE  StrayInv'
<1>1. TypeOK
  BY DEF GrantInv
<1>2. ASSUME KeepsSessions, UNCHANGED req PROVE StrayInv'
  BY <1>2, UnmovedKeeps, NothingStrays DEF StrayInv
<1>3. ASSUME NEW r \in Requests, Throw(r) \/ Crash(r) PROVE StrayInv'
  <2>1. faulty' /\ UNCHANGED <<sessions, grants>>
    BY <1>3 DEF Throw, Crash, Fault, sessionVars, recordVars, grantVars
  <2>2. KeepsSessions
    BY <2>1, TablesKeepSessions
  <2>3. KeepsCarried(r) /\ \A x \in Requests : x # r => req'[x] = req[x]
    BY <1>3, <2>1, <2>2, AnsweredCarries, GoneOnCarries DEF Throw, Crash, Refreshing
  <2> QED BY <2>2, <2>3, OneCarries
<1>4. ASSUME NEW r \in Requests, Undo(r) PROVE StrayInv'
  <2>1. /\ UNCHANGED sessions \/ \E S : EndSessions(S)
        /\ faulty' = faulty \/ faulty'
        /\ UNCHANGED grants /\ Answered(r) /\ \A s : ~Carries(r, s)
    BY <1>4 DEF Undo, RevokeSession, Fault, grantVars, eventVars, Carries
  <2>2. KeepsSessions
    BY <2>1, TablesKeepSessions
  <2> QED BY <2>1, <2>2, AnsweredCarries, OneCarries
<1>5. ASSUME \/ \E a \in Auths, c \in Clients, u \in Addresses :
                   HandleAuthorizeStart(a, c, u)
             \/ \E a \in Auths : AuthorizationExpires(a)
             \/ DeleteExpiredAuthorizations
             \/ \E k \in codes : CodeExpires(k)
             \/ \E k \in codes, matches \in BOOLEAN : HandleToken(k, matches)
             \/ \E p \in Persons : GiveSecondFactor(p) \/ ChangeCredentials(p)
             \/ UNCHANGED vars
      PROVE  StrayInv'
  <2>1. /\ UNCHANGED <<req, faulty>>
        /\ UNCHANGED sessions \/ \E S : EndSessions(S)
        /\ UNCHANGED grants \/ \E G : EndGrants(G)
    BY <1>5 DEF HandleAuthorizeStart, AuthorizationExpires,
       DeleteExpiredAuthorizations, CodeExpires, HandleToken, GiveSecondFactor,
       ChangeCredentials, vars, consentVars, grantVars,
       sessionVars, recordVars, eventVars
  <2>2. KeepsSessions
    BY <2>1, TablesKeepSessions
  <2> QED BY <1>2, <2>1, <2>2
<1>6. ASSUME NEW g \in Grants, WindowCloses(g) PROVE StrayInv'
  <2>1. \A h \in Grants : /\ grants'[h].session = grants[h].session
                          /\ grants'[h].generation = grants[h].generation
    BY <1>1, <1>6 DEF WindowCloses, TypeOK, GrantRow
  <2>2. UNCHANGED <<req, faulty, sessions>>
    BY <1>6 DEF WindowCloses, sessionVars, recordVars
  <2>3. KeepsSessions
    BY <2>1, <2>2 DEF KeepsSessions, Live
  <2> QED BY <1>2, <2>2, <2>3
<1>7. ASSUME NEW r \in Requests, RevokeConnectedAgent(r) PROVE StrayInv'
  <2>1. /\ req[r].pc \in Withdrawing \cup {"idle"}
        /\ req'[r].pc \in Withdrawing \cup {"idle"}
        /\ \A x \in Requests : x # r => req'[x] = req[x]
        /\ faulty' = faulty
        /\ UNCHANGED sessions \/ \E S : EndSessions(S)
        /\ UNCHANGED grants \/ \E G : EndGrants(G)
    BY <1>7, WithdrawalMoves
  <2>2. KeepsSessions
    BY <2>1, TablesKeepSessions
  <2>3. KeepsCarried(r)
    BY <2>1 DEF KeepsCarried, RenewOK, Carries, Refreshing, Withdrawing
  <2> QED BY <2>1, <2>2, <2>3, OneCarries
<1> QED BY <1>3, <1>4, <1>5, <1>6, <1>7

\* While nothing has failed, a live session is some grant's or a running request
\* is still to hand it over or to end it.
THEOREM SessionsAccountedFor == Spec => []StrayInv
<1>1. Init => StrayInv
  BY DEF Init, StrayInv, RenewOK, Live, NoSession, Idle, Refreshing
<1>2. ASSUME GrantInv, WithdrawalInv, StrayInv, [Next]_vars PROVE StrayInv'
  <2>1. ASSUME NEW r \in Requests, Approval(r) PROVE StrayInv'
    BY <1>2, <2>1, ApprovalCarries, MintCarries, InsertCarries DEF Approval
  <2>2. ASSUME NEW r \in Requests, Refresh(r) PROVE StrayInv'
    BY <1>2, <2>2, RefreshGrantCarries, RenewalCarries, MintCarries, AdvanceCarries
       DEF Refresh
  <2> QED BY <1>2, <2>1, <2>2, OthersCarry DEF Next
<1> QED BY <1>1, <1>2, GrantInvariant, PTL DEF Spec

\* So once all requests have answered, the loser of a race has left none behind.
THEOREM LosersCleanUp == Spec => []NoStraySession
<1>1. StrayInv => NoStraySession
  BY DEF StrayInv, NoStraySession, Carries, Idle, Live
<1> QED BY <1>1, SessionsAccountedFor, PTL
=============================================================================
