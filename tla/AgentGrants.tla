---------------------------- MODULE AgentGrants ----------------------------
(***************************************************************************)
(* The authorization server: a person approves a client, the client        *)
(* redeems a one-time code, and renews its access with refresh tokens that *)
(* name a grant and its generation.                                        *)
(*                                                                         *)
(* A request is one HTTP call; every awaited call of the store or of Auth  *)
(* is one step of it, so requests interleave between any two awaits.  A    *)
(* refresh token is its grant and generation: the signature admits no      *)
(* other.  Scopes are one constant in the code and are left out.           *)
(*                                                                         *)
(* The withdrawal of a client is one transaction of five statements, each  *)
(* a step that sees what is committed by then: what it has written holds   *)
(* up other writers of the same rows and takes effect when it commits.     *)
(***************************************************************************)
EXTENDS Naturals, FiniteSets

CONSTANTS
    Persons, Clients,
    Addresses,      \* return addresses clients register
    Auths,          \* parked authorizations, by id
    Grants,         \* grants, by id
    Sessions,       \* sessions Auth may open, by id
    Requests,       \* concurrent requests
    None,
    MaxGeneration,  \* bound on the rotations of a grant
    MaxPrint,       \* bound on the changes of credentials
    MaxEvents       \* bound on the events: failures, expiries, sign-ins and
                    \* withdrawals

ASSUME GrantAssumption ==
    /\ {MaxGeneration, MaxPrint, MaxEvents} \subseteq Nat
    /\ None \notin Persons \cup Clients \cup Addresses \cup Auths
                   \cup Grants \cup Sessions

VARIABLES
    authz,      \* oauth_authorizations
    consent,    \* oauth_consents not revoked: the address approved
    grants,     \* agent_grants
    codes,      \* oauth_codes: the grant and the session behind each
    sent,       \* grants whose code went back to the client
    kept,       \* agent_sessions: the sessions recorded as an agent's
    sessions,   \* Auth's sessions
    prints,     \* the fingerprint of each person's credentials
    req,        \* the requests running
    astray,     \* auxiliary: sessions that got away from their records
    answers,    \* auxiliary: the pairs handed to clients
    clicked,    \* auxiliary: what the persons approved on the screen
    faulty,     \* some call has failed
    events      \* events so far

vars == <<authz, consent, grants, codes, sent, kept, sessions, prints, req,
          astray, answers, clicked, faulty, events>>

consentVars == <<authz, consent, clicked>>
grantVars == <<grants, codes, sent, answers>>
recordVars == <<kept, astray>>
sessionVars == <<recordVars, sessions, prints>>
eventVars == <<faulty, events>>

NoAuth == [status |-> "absent", user |-> None, client |-> None,
           uri |-> None, expired |-> FALSE]

\* "of" and "first" are auxiliary: the authorization the grant came from and
\* the session it was opened with.
NoGrant == [phase |-> "absent", person |-> None, client |-> None,
            generation |-> 0, session |-> None, print |-> 0, recent |-> FALSE,
            of |-> None, first |-> None]

NoSession == [state |-> "none", person |-> None, client |-> None]

\* The rows a withdrawal has written and not committed.
NoWrites == [consent |-> FALSE, grants |-> {}, sessions |-> {}, records |-> {}]

\* What a request holds between two awaits: for an approval the person and
\* the authorization, for a refresh the grant as it was read, for a withdrawal
\* person, client and its writes.
Idle == [pc |-> "idle", person |-> None, client |-> None, auth |-> None,
         grant |-> None, generation |-> 0, old |-> None, print |-> 0,
         session |-> None, minted |-> FALSE, writes |-> NoWrites]

Init ==
    /\ authz = [a \in Auths |-> NoAuth]
    /\ consent = [p \in Persons |-> [c \in Clients |-> None]]
    /\ grants = [g \in Grants |-> NoGrant]
    /\ codes = {}
    /\ sent = {}
    /\ kept = {}
    /\ sessions = [s \in Sessions |-> NoSession]
    /\ prints = [p \in Persons |-> 0]
    /\ req = [r \in Requests |-> Idle]
    /\ astray = {}
    /\ answers = {}
    /\ clicked = {}
    /\ faulty = FALSE
    /\ events = 0

Goes(r, pc) == req' = [req EXCEPT ![r].pc = pc]

Answered(r) == req' = [req EXCEPT ![r] = Idle]

Event == events < MaxEvents /\ events' = events + 1

\* A service or the database fails.
Fault == Event /\ faulty' = TRUE

Pair(g, n, s) == [grant |-> g, generation |-> n, session |-> s]

\* The pair a grant last handed out.
CurrentPair(g) == Pair(g, grants[g].generation, grants[g].session)

GrantsOf(p, c) ==
    {g \in Grants : /\ grants[g].phase = "live"
                    /\ grants[g].person = p
                    /\ grants[g].client = c}

EndGrants(G) ==
    grants' = [g \in Grants |-> IF g \in G
                                THEN [grants[g] EXCEPT !.phase = "revoked"]
                                ELSE grants[g]]

SessionsOf(p) == {s \in Sessions : sessions[s].person = p}

EndSessions(S) ==
    sessions' = [s \in Sessions |-> IF s \in S
                                    THEN [sessions[s] EXCEPT !.state = "ended"]
                                    ELSE sessions[s]]

\* A row another transaction has written cannot be written before it ends.
ConsentFree(p, c) ==
    \A w \in Requests : req[w].person = p /\ req[w].client = c
                           => ~req[w].writes.consent
GrantsFree(G) == \A w \in Requests : G \cap req[w].writes.grants = {}
SessionsFree(S) == \A w \in Requests : S \cap req[w].writes.sessions = {}
RecordsFree(S) == \A w \in Requests : S \cap req[w].writes.records = {}

-----------------------------------------------------------------------------
(* Authorizations: parked, bound to the first reader, decided once. *)

HandleAuthorizeStart(a, c, u) ==
    /\ authz[a].status = "absent"
    /\ authz' = [authz EXCEPT ![a] = [NoAuth EXCEPT !.status = "pending",
                                                    !.client = c, !.uri = u]]
    /\ UNCHANGED <<consent, clicked, grantVars, sessionVars, req, eventVars>>

\* Time passes: the requests that started before still go by their own clock.
AuthorizationExpires(a) ==
    /\ Event
    /\ authz[a].status = "pending"
    /\ ~authz[a].expired
    /\ authz' = [authz EXCEPT ![a].expired = TRUE]
    /\ UNCHANGED <<consent, clicked, grantVars, sessionVars, req, faulty>>

\* The housekeeping a later request sets off and does not wait for.
DeleteExpiredAuthorizations ==
    /\ \E a \in Auths : authz[a].expired /\ authz[a].status # "gone"
    /\ authz' = [a \in Auths |-> IF authz[a].expired
                                 THEN [authz[a] EXCEPT !.status = "gone"]
                                 ELSE authz[a]]
    /\ UNCHANGED <<consent, clicked, grantVars, sessionVars, req, eventVars>>

BindAuthorization(a, p) ==
    /\ authz[a].status = "pending"
    /\ ~authz[a].expired
    /\ authz[a].user \in {None, p}

\* A signed-in person opens the request; "then" is what they ask for.
Bind(r, p, a, then) ==
    /\ req[r] = Idle
    /\ BindAuthorization(a, p)
    /\ authz' = [authz EXCEPT ![a].user = p]
    /\ req' = [req EXCEPT ![r] =
                  [Idle EXCEPT !.pc = then, !.person = p, !.auth = a]]

HandleAuthorizationRead(r, p, a) ==
    /\ Bind(r, p, a, "consent")
    /\ UNCHANGED <<consent, clicked, grantVars, sessionVars, eventVars>>

HandleConsentDecision(r, p, a) ==
    \/ /\ Bind(r, p, a, "decide")
       /\ clicked' = clicked \cup {<<p, authz[a].client, authz[a].uri>>}
       /\ UNCHANGED <<consent, grantVars, sessionVars, eventVars>>
    \/ /\ Bind(r, p, a, "deny")
       /\ UNCHANGED <<consent, clicked, grantVars, sessionVars, eventVars>>

\* Mutant: a consent for one address covers every other.
CoversAnyAddress(p, a) == consent[p][authz[a].client] # None

ConsentCovers(p, a) ==
    /\ consent[p][authz[a].client] # None
    /\ consent[p][authz[a].client] = authz[a].uri

\* The details are shown, or a consent that covers the request approves it.
FindConsent(r) ==
    /\ req[r].pc = "consent"
    /\ \/ Answered(r)
       \/ ConsentCovers(req[r].person, req[r].auth) /\ Goes(r, "decide")
    /\ UNCHANGED <<consentVars, grantVars, sessionVars, eventVars>>

\* Mutant: the status is not part of the update's condition.
DecidesAgain(r) == authz[req[r].auth].user = req[r].person

CanDecide(r) ==
    /\ authz[req[r].auth].status = "pending"
    /\ authz[req[r].auth].user = req[r].person

DecideAuthorization(r) ==
    /\ req[r].pc \in {"decide", "deny"}
    /\ IF CanDecide(r)
       THEN /\ authz' = [authz EXCEPT ![req[r].auth].status =
                            IF req[r].pc = "decide" THEN "approved"
                                                    ELSE "denied"]
            /\ IF req[r].pc = "decide" THEN Goes(r, "mint") ELSE Answered(r)
       ELSE Answered(r) /\ UNCHANGED authz
    /\ UNCHANGED <<consent, clicked, grantVars, sessionVars, eventVars>>

-----------------------------------------------------------------------------
(* Auth: an external service.  It opens and ends sessions. *)

\* Mutant: the missing session is not noticed.
MintsNothing(r, p, c, then) == Goes(r, then) /\ UNCHANGED sessions

\* A session of its own for the person, or none.
MintSession(r, p, c, then) ==
    \/ \E s \in Sessions :
          /\ sessions[s].state = "none"
          /\ sessions' = [sessions EXCEPT ![s] =
                [state |-> "live", person |-> p, client |-> c]]
          /\ req' = [req EXCEPT ![r].pc = then, ![r].session = s,
                                ![r].minted = TRUE]
    \/ Answered(r) /\ UNCHANGED sessions

\* Ending a session is best effort: a failure is only logged.
RevokeSession(s) ==
    \/ SessionsFree({s}) /\ EndSessions({s}) /\ UNCHANGED eventVars
    \/ Fault /\ UNCHANGED sessions

\* Giving the second factor makes Auth end every weaker session, an agent's
\* included.
GiveSecondFactor(p) ==
    /\ Event
    /\ \E s \in Sessions : sessions[s].person = p /\ sessions[s].state = "live"
    /\ SessionsFree(SessionsOf(p))
    /\ EndSessions(SessionsOf(p))
    /\ UNCHANGED <<consentVars, grantVars, recordVars, prints, req, faulty>>

\* So does a new password or a new factor, which also changes the fingerprint.
ChangeCredentials(p) ==
    /\ Event
    /\ prints[p] < MaxPrint
    /\ prints' = [prints EXCEPT ![p] = @ + 1]
    /\ SessionsFree(SessionsOf(p))
    /\ EndSessions(SessionsOf(p))
    /\ UNCHANGED <<consentVars, grantVars, recordVars, req, faulty>>

-----------------------------------------------------------------------------
(* The approval: decided, minted, recorded, opened, coded, remembered. *)

Mint(r) ==
    /\ req[r].pc = "mint"
    /\ MintSession(r, req[r].person, authz[req[r].auth].client, "record")
    /\ UNCHANGED <<consentVars, grantVars, recordVars, prints, eventVars>>

\* A withdrawal of its client has ended the sessions recorded so far and is
\* about to delete their records: this one's record will go, and it stays.
LateFor(s) ==
    \E w \in Requests : /\ req[w].pc = "wrecords"
                         /\ sessions[s].person = req[w].person
                         /\ sessions[s].client = req[w].client

RecordAgentSession(r) ==
    /\ req[r].pc \in {"record", "rerecord"}
    /\ kept' = kept \cup {req[r].session}
    /\ astray' = IF LateFor(req[r].session) THEN astray \cup {req[r].session}
                                            ELSE astray
    /\ Goes(r, IF req[r].pc = "record" THEN "print" ELSE "forget")
    /\ UNCHANGED <<consentVars, grantVars, sessions, prints, eventVars>>

CredentialsFingerprint(r) ==
    /\ req[r].pc = "print"
    /\ req' = [req EXCEPT ![r].pc = "end", ![r].print = prints[req[r].person]]
    /\ UNCHANGED <<consentVars, grantVars, sessionVars, eventVars>>

RevokeClientGrants(r) ==
    /\ req[r].pc = "end"
    /\ GrantsFree(GrantsOf(req[r].person, authz[req[r].auth].client))
    /\ EndGrants(GrantsOf(req[r].person, authz[req[r].auth].client))
    /\ Goes(r, "insert")
    /\ UNCHANGED <<consentVars, codes, sent, answers, sessionVars, eventVars>>

InsertGrant(r) ==
    /\ req[r].pc = "insert"
    /\ \E g \in Grants :
          /\ grants[g].phase = "absent"
          /\ grants' = [grants EXCEPT ![g] =
                [phase |-> "live", person |-> req[r].person,
                 client |-> authz[req[r].auth].client, generation |-> 0,
                 session |-> req[r].session, print |-> req[r].print,
                 recent |-> TRUE, of |-> req[r].auth,
                 first |-> req[r].session]]
          /\ req' = [req EXCEPT ![r].pc = "code", ![r].grant = g]
    /\ UNCHANGED <<consentVars, codes, sent, answers, sessionVars, eventVars>>

IssueCode(r) ==
    /\ req[r].pc = "code"
    /\ codes' = codes \cup {[grant |-> req[r].grant, session |-> req[r].session]}
    /\ Goes(r, "upsert")
    /\ UNCHANGED <<consentVars, grants, sent, answers, sessionVars, eventVars>>

\* The last write, and the answer that carries the code.
UpsertConsent(r) ==
    /\ req[r].pc = "upsert"
    /\ ConsentFree(req[r].person, authz[req[r].auth].client)
    /\ consent' = [consent EXCEPT ![req[r].person][authz[req[r].auth].client] =
                      authz[req[r].auth].uri]
    /\ sent' = sent \cup {req[r].grant}
    /\ Answered(r)
    /\ UNCHANGED <<authz, clicked, grants, codes, answers, sessionVars, eventVars>>

-----------------------------------------------------------------------------
(* The token endpoint: the code. *)

\* One DELETE ... RETURNING: of two redemptions exactly one gets the row.
ConsumeCode(k) == codes' = codes \ {k}

\* The code is spent whether or not client, address and verifier match.
HandleToken(k, matches) ==
    /\ k.grant \in sent
    /\ ConsumeCode(k)
    /\ answers' = IF matches THEN answers \cup {Pair(k.grant, 0, k.session)}
                             ELSE answers
    /\ UNCHANGED <<consentVars, grants, sent, sessionVars, req, eventVars>>

CodeExpires(k) ==
    /\ Event
    /\ codes' = codes \ {k}
    /\ UNCHANGED <<consentVars, grants, sent, answers, sessionVars, req, faulty>>

-----------------------------------------------------------------------------
(* The token endpoint: the refresh. *)

\* One generation behind, within the window: two refreshes that raced.
RefreshRaced(g, n) ==
    /\ grants[g].phase = "live"
    /\ n + 1 = grants[g].generation
    /\ grants[g].recent
    /\ answers' = answers \cup {CurrentPair(g)}
    /\ UNCHANGED <<consentVars, grants, codes, sent, sessionVars, req, eventVars>>

\* Any other generation than the current one was copied: the grant will end.
RefreshReused(r, g, n) ==
    /\ req[r] = Idle
    /\ grants[g].phase = "live"
    /\ n # grants[g].generation
    /\ ~(n + 1 = grants[g].generation /\ grants[g].recent)
    /\ req' = [req EXCEPT ![r] = [Idle EXCEPT !.pc = "revoke", !.grant = g]]
    /\ UNCHANGED <<consentVars, grantVars, sessionVars, eventVars>>

RefreshCurrent(r, g, n) ==
    /\ req[r] = Idle
    /\ grants[g].phase = "live"
    /\ n = grants[g].generation
    /\ n < MaxGeneration
    /\ req' = [req EXCEPT ![r] =
                  [Idle EXCEPT !.pc = "consented", !.person = grants[g].person,
                     !.grant = g, !.generation = n, !.old = grants[g].session,
                     !.print = grants[g].print]]
    /\ UNCHANGED <<consentVars, grantVars, sessionVars, eventVars>>

\* A client presents a refresh token it was given, the latest or an older one.
RefreshGrant(r) ==
    \E t \in answers : \/ RefreshRaced(t.grant, t.generation)
                       \/ RefreshReused(r, t.grant, t.generation)
                       \/ RefreshCurrent(r, t.grant, t.generation)

\* A grant whose consent was withdrawn ends.
StillConsented(r) ==
    /\ req[r].pc = "consented"
    /\ Goes(r, IF consent[req[r].person][grants[req[r].grant].client] # None
               THEN "renew" ELSE "revoke")
    /\ UNCHANGED <<consentVars, grantVars, sessionVars, eventVars>>

RevokeGrant(r) ==
    LET due == {req[r].grant} \cap {g \in Grants : grants[g].phase = "live"}
    IN
    /\ req[r].pc = "revoke"
    /\ GrantsFree(due)
    /\ EndGrants(due)
    /\ Answered(r)
    /\ UNCHANGED <<consentVars, codes, sent, answers, sessionVars, eventVars>>

\* Auth refreshes a session it still knows, says that one ended, or cannot be
\* reached.  Any 4xx counts as an ended session, so also a limit on the rate or
\* a token already used, which say nothing of the session: it may live on.
RefreshSession(r) ==
    /\ req[r].pc = "renew"
    /\ \/ /\ sessions[req[r].old].state = "live"
          /\ req' = [req EXCEPT ![r].pc = "advance", ![r].session = req[r].old]
          /\ UNCHANGED <<astray, eventVars>>
       \/ /\ sessions[req[r].old].state # "live"
          /\ Goes(r, "compare")
          /\ UNCHANGED <<astray, eventVars>>
       \/ /\ sessions[req[r].old].state = "live"
          /\ Fault
          /\ astray' = astray \cup {req[r].old}
          /\ Goes(r, "compare")
       \/ Answered(r) /\ UNCHANGED <<astray, eventVars>>
    /\ UNCHANGED <<consentVars, grantVars, kept, sessions, prints>>

\* A new session is opened only under the credentials the grant was given.
CompareFingerprint(r) ==
    /\ req[r].pc = "compare"
    /\ Goes(r, IF prints[req[r].person] = req[r].print THEN "remint"
                                                       ELSE "revoke")
    /\ UNCHANGED <<consentVars, grantVars, sessionVars, eventVars>>

Remint(r) ==
    /\ req[r].pc = "remint"
    /\ MintSession(r, req[r].person, grants[req[r].grant].client, "rerecord")
    /\ UNCHANGED <<consentVars, grantVars, recordVars, prints, eventVars>>

ForgetAgentSession(r) ==
    /\ req[r].pc = "forget"
    /\ RecordsFree({req[r].old})
    /\ kept' = kept \ {req[r].old}
    /\ Goes(r, "advance")
    /\ UNCHANGED <<consentVars, grantVars, astray, sessions, prints, eventVars>>

\* Mutant: the update does not compare the generation.
AdvancesAnyway(r) == grants[req[r].grant].phase = "live"

\* Mutant: the update does not ask whether the grant was ended meanwhile.
AdvancesEnded(r) ==
    /\ grants[req[r].grant].generation = req[r].generation
    /\ grants[req[r].grant].generation < MaxGeneration

CanAdvance(r) ==
    /\ grants[req[r].grant].phase = "live"
    /\ grants[req[r].grant].generation = req[r].generation

\* Compare-and-set on the generation: of two refreshes one moves the grant
\* and answers the new pair, the other looks again.
AdvanceGrant(r) ==
    LET g == req[r].grant IN
    /\ req[r].pc = "advance"
    /\ IF CanAdvance(r)
       THEN /\ GrantsFree({g})
            /\ grants' = [grants EXCEPT
                  ![g].generation = req[r].generation + 1,
                  ![g].session = req[r].session,
                  ![g].recent = TRUE]
            /\ answers' = answers \cup
                  {Pair(g, req[r].generation + 1, req[r].session)}
            /\ Answered(r)
       ELSE /\ Goes(r, IF req[r].minted THEN "lose" ELSE "reread")
            /\ UNCHANGED <<grants, answers>>
    /\ UNCHANGED <<consentVars, codes, sent, sessionVars, eventVars>>

\* Mutant: the loser keeps the session it opened.
LosesNothing(r) ==
    /\ req[r].pc = "lose"
    /\ Goes(r, "reread")
    /\ UNCHANGED <<consentVars, grantVars, sessionVars, eventVars>>

EndLosersSession(r) ==
    /\ req[r].pc = "lose"
    /\ RevokeSession(req[r].session)
    /\ Goes(r, "reread")
    /\ UNCHANGED <<consentVars, grantVars, recordVars, prints>>

\* The loser hands back what the winner got, if the grant still stands there.
RereadGrant(r) ==
    LET g == req[r].grant IN
    /\ req[r].pc = "reread"
    /\ answers' = IF /\ grants[g].phase = "live"
                     /\ grants[g].generation = req[r].generation + 1
                  THEN answers \cup {CurrentPair(g)} ELSE answers
    /\ Answered(r)
    /\ UNCHANGED <<consentVars, grants, codes, sent, sessionVars, eventVars>>

\* REFRESH_RACE_WINDOW_MS have passed since the rotation.
WindowCloses(g) ==
    /\ Event
    /\ grants[g].recent
    /\ grants' = [grants EXCEPT ![g].recent = FALSE]
    /\ UNCHANGED <<consentVars, codes, sent, answers, sessionVars, req, faulty>>

-----------------------------------------------------------------------------
(* Failures. *)

Guarded == {"record", "print", "end", "insert", "code", "upsert", "rerecord",
            "forget"}

\* A store call inside a try block throws: the minted session is to be ended.
Throw(r) ==
    /\ req[r].pc \in Guarded
    /\ Fault
    /\ Goes(r, "undo")
    /\ UNCHANGED <<consentVars, grantVars, sessionVars>>

Undo(r) ==
    /\ req[r].pc = "undo"
    /\ RevokeSession(req[r].session)
    /\ Answered(r)
    /\ UNCHANGED <<consentVars, grantVars, recordVars, prints>>

\* A call outside the try blocks throws, or the server dies.
Crash(r) ==
    /\ req[r] # Idle
    /\ Fault
    /\ Answered(r)
    /\ UNCHANGED <<consentVars, grantVars, sessionVars>>

-----------------------------------------------------------------------------
(* The person takes the access back: revoke_connected_agent, statement by  *)
(* statement.  A failure on the way (Crash) undoes all of it.              *)

Wrote(r, pc, writes) ==
    req' = [req EXCEPT ![r].pc = pc, ![r].writes = writes]

WithdrawConsent(r, p, c) ==
    /\ req[r] = Idle
    /\ Event
    /\ ConsentFree(p, c)
    /\ req' = [req EXCEPT ![r] =
                  [Idle EXCEPT !.pc = "wgrants", !.person = p, !.client = c,
                     !.writes.consent = consent[p][c] # None]]
    /\ UNCHANGED <<consentVars, grantVars, sessionVars, faulty>>

\* Mutant: the grants are left to the refresh, which looks at the consent.
LeavesGrants(r) ==
    /\ req[r].pc = "wgrants"
    /\ Goes(r, "wsessions")
    /\ UNCHANGED <<consentVars, grantVars, sessionVars, eventVars>>

WithdrawGrants(r) ==
    LET own == GrantsOf(req[r].person, req[r].client) IN
    /\ req[r].pc = "wgrants"
    /\ GrantsFree(own)
    /\ Wrote(r, "wsessions", [req[r].writes EXCEPT !.grants = own])
    /\ UNCHANGED <<consentVars, grantVars, sessionVars, eventVars>>

\* The sessions recorded as this client's by now.
Recorded(p, c) ==
    {s \in kept : sessions[s].person = p /\ sessions[s].client = c}

WithdrawSessions(r) ==
    LET own == Recorded(req[r].person, req[r].client) IN
    /\ req[r].pc = "wsessions"
    /\ SessionsFree(own)
    /\ Wrote(r, "wrecords", [req[r].writes EXCEPT !.sessions = own])
    /\ UNCHANGED <<consentVars, grantVars, sessionVars, eventVars>>

WithdrawRecords(r) ==
    LET own == Recorded(req[r].person, req[r].client) IN
    /\ req[r].pc = "wrecords"
    /\ RecordsFree(own)
    /\ Wrote(r, "wcodes", [req[r].writes EXCEPT !.records = own])
    /\ UNCHANGED <<consentVars, grantVars, sessionVars, eventVars>>

\* The last statement and the commit.
WithdrawCodes(r) ==
    LET p == req[r].person
        c == req[r].client
        writes == req[r].writes
    IN
    /\ req[r].pc = "wcodes"
    /\ codes' = {k \in codes : ~(grants[k.grant].person = p
                                 /\ grants[k.grant].client = c)}
    /\ consent' = IF writes.consent THEN [consent EXCEPT ![p][c] = None]
                                    ELSE consent
    /\ EndGrants(writes.grants)
    /\ EndSessions(writes.sessions)
    /\ kept' = kept \ writes.records
    /\ Answered(r)
    /\ UNCHANGED <<authz, clicked, sent, answers, astray, prints, eventVars>>

RevokeConnectedAgent(r) ==
    \/ \E p \in Persons, c \in Clients : WithdrawConsent(r, p, c)
    \/ WithdrawGrants(r) \/ WithdrawSessions(r) \/ WithdrawRecords(r)
    \/ WithdrawCodes(r)

-----------------------------------------------------------------------------

Approval(r) ==
    \/ \E p \in Persons, a \in Auths :
          \/ HandleAuthorizationRead(r, p, a)
          \/ HandleConsentDecision(r, p, a)
    \/ FindConsent(r) \/ DecideAuthorization(r) \/ Mint(r)
    \/ RecordAgentSession(r) \/ CredentialsFingerprint(r)
    \/ RevokeClientGrants(r) \/ InsertGrant(r) \/ IssueCode(r)
    \/ UpsertConsent(r)

Refresh(r) ==
    \/ RefreshGrant(r) \/ StillConsented(r) \/ RevokeGrant(r)
    \/ RefreshSession(r) \/ CompareFingerprint(r) \/ Remint(r)
    \/ ForgetAgentSession(r) \/ AdvanceGrant(r) \/ EndLosersSession(r)
    \/ RereadGrant(r)

Next ==
    \/ \E r \in Requests : Approval(r) \/ Refresh(r) \/ Throw(r) \/ Undo(r)
                           \/ Crash(r) \/ RevokeConnectedAgent(r)
    \/ \E a \in Auths, c \in Clients, u \in Addresses :
          HandleAuthorizeStart(a, c, u)
    \/ \E a \in Auths : AuthorizationExpires(a)
    \/ DeleteExpiredAuthorizations
    \/ \E k \in codes : CodeExpires(k)
    \/ \E k \in codes, matches \in BOOLEAN : HandleToken(k, matches)
    \/ \E g \in Grants : WindowCloses(g)
    \/ \E p \in Persons : GiveSecondFactor(p) \/ ChangeCredentials(p)

Spec == Init /\ [][Next]_vars

-----------------------------------------------------------------------------
(* Properties. *)

AuthRow == [status : {"absent", "pending", "approved", "denied", "gone"},
            user : Persons \cup {None}, client : Clients \cup {None},
            uri : Addresses \cup {None}, expired : BOOLEAN]

GrantRow == [phase : {"absent", "live", "revoked"},
             person : Persons \cup {None}, client : Clients \cup {None},
             generation : Nat, session : Sessions \cup {None}, print : Nat,
             recent : BOOLEAN, of : Auths \cup {None},
             first : Sessions \cup {None}]

SessionRow == [state : {"none", "live", "ended"}, person : Persons \cup {None},
               client : Clients \cup {None}]

Writes == [consent : BOOLEAN, grants : SUBSET Grants,
           sessions : SUBSET Sessions, records : SUBSET Sessions]

Request == [pc : {"idle", "consent", "decide", "deny", "mint", "record",
                  "print", "end", "insert", "code", "upsert", "consented",
                  "revoke", "renew", "compare", "remint", "rerecord", "forget",
                  "advance", "lose", "reread", "undo", "wgrants", "wsessions",
                  "wrecords", "wcodes"},
            person : Persons \cup {None}, client : Clients \cup {None},
            auth : Auths \cup {None}, grant : Grants \cup {None},
            generation : Nat, old : Sessions \cup {None}, print : Nat,
            session : Sessions \cup {None}, minted : BOOLEAN,
            writes : Writes]

\* The tables of the authorization server, Auth's sessions and what the
\* handlers hold between two awaits.
TypeOK ==
    /\ authz \in [Auths -> AuthRow]
    /\ consent \in [Persons -> [Clients -> Addresses \cup {None}]]
    /\ grants \in [Grants -> GrantRow]
    /\ codes \subseteq [grant : Grants, session : Sessions]
    /\ sent \subseteq Grants
    /\ kept \subseteq Sessions
    /\ sessions \in [Sessions -> SessionRow]
    /\ prints \in [Persons -> Nat]
    /\ req \in [Requests -> Request]
    /\ astray \subseteq Sessions
    /\ answers \subseteq [grant : Grants, generation : Nat, session : Sessions]
    /\ clicked \subseteq Persons \X Clients \X Addresses
    /\ faulty \in BOOLEAN
    /\ events \in Nat

\* Two token answers of one generation of one grant carry the same session,
\* so refreshes that raced in refreshGrant leave with one and the same pair.
OnePairPerGeneration ==
    \A t, u \in answers :
        t.grant = u.grant /\ t.generation = u.generation
            => t.session = u.session

\* An authorization is decided once: it opens at most one grant, and opens it
\* for the person it is bound to, whatever readers and deciders race.
OneGrantPerAuthorization ==
    \A g, h \in Grants :
        grants[g].phase # "absent" /\ grants[g].of = grants[h].of
            => g = h /\ authz[grants[g].of].user = grants[g].person

\* Every session in a client's hands that Auth still honours is recorded as an
\* agent's and stands behind a consent not withdrawn, whichever approvals,
\* refreshes and withdrawals are under way: the next revoke_connected_agent
\* reaches it.  Two kinds of session got away from their records and are not
\* counted: one Auth refused for another reason than its end, and one recorded
\* between a withdrawal's deletes of the sessions and of the records.
WithdrawnMeansOut ==
    \A t \in answers :
        sessions[t.session].state = "live" /\ t.session \notin astray =>
            /\ t.session \in kept
            /\ consent[grants[t.grant].person][grants[t.grant].client] # None

\* Once every request has answered, and none of them failed, no session is
\* left alive that no grant stands for: a refresh that lost the race has ended
\* the one it opened.
NoStraySession ==
    ~faulty /\ (\A r \in Requests : req[r] = Idle) =>
        \A s \in Sessions : sessions[s].state = "live" =>
            \E g \in Grants : grants[g].session = s

\* A consent, remembered or renewed without a screen, rests on a click of that
\* person for that client and that return address.
ConsentRestsOnClick ==
    \A p \in Persons, c \in Clients :
        consent[p][c] # None => <<p, c, consent[p][c]>> \in clicked

Ledger == INSTANCE GrantLedger WITH
    phase <- [g \in Grants |-> grants[g].phase],
    generation <- [g \in Grants |-> grants[g].generation],
    session <- [g \in Grants |-> grants[g].session],
    first <- [g \in Grants |-> grants[g].first],
    given <- answers

\* The handlers keep the promise of GrantLedger: a grant ends for good, moves
\* one generation at a time, and no pair leaves that is not one of its own.
KeepsLedger == Ledger!LedgerSpec
=============================================================================
