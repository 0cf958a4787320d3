---------------------------- MODULE GrantLedger ----------------------------
(***************************************************************************)
(* What the authorization server promises about the grants it carries: a   *)
(* grant is opened once, renewed one generation at a time, ended for good, *)
(* and every pair of tokens it hands out is the pair of some generation of *)
(* that grant.                                                             *)
(***************************************************************************)
EXTENDS Naturals

CONSTANTS Grants, Sessions, None

VARIABLES
    phase,       \* absent, live or revoked
    generation,  \* how often the refresh token was rotated
    session,     \* the session of the current generation
    first,       \* the session the grant was opened with
    given        \* the pairs handed to clients: [grant, generation, session]

ledgerVars == <<phase, generation, session, first, given>>

Pair(g, n, s) == [grant |-> g, generation |-> n, session |-> s]

LedgerInit ==
    /\ phase = [g \in Grants |-> "absent"]
    /\ generation = [g \in Grants |-> 0]
    /\ session = [g \in Grants |-> None]
    /\ first = [g \in Grants |-> None]
    /\ given = {}

Open(g, s) ==
    /\ phase[g] = "absent"
    /\ phase' = [phase EXCEPT ![g] = "live"]
    /\ session' = [session EXCEPT ![g] = s]
    /\ first' = [first EXCEPT ![g] = s]
    /\ UNCHANGED <<generation, given>>

\* A live grant moves on, and whoever moved it holds the new pair.
Renew(g, s) ==
    /\ phase[g] = "live"
    /\ generation' = [generation EXCEPT ![g] = @ + 1]
    /\ session' = [session EXCEPT ![g] = s]
    /\ given' = given \cup {Pair(g, generation[g] + 1, s)}
    /\ UNCHANGED <<phase, first>>

\* The code buys the pair the grant was opened with, once it was opened.
Redeem(g) ==
    /\ phase[g] # "absent"
    /\ given' = given \cup {Pair(g, 0, first[g])}
    /\ UNCHANGED <<phase, generation, session, first>>

\* A refresh that lost a race is told the current pair of a live grant.
Tell(g) ==
    /\ phase[g] = "live"
    /\ given' = given \cup {Pair(g, generation[g], session[g])}
    /\ UNCHANGED <<phase, generation, session, first>>

End(G) ==
    /\ \A g \in G : phase[g] = "live"
    /\ phase' = [g \in Grants |-> IF g \in G THEN "revoked" ELSE phase[g]]
    /\ UNCHANGED <<generation, session, first, given>>

LedgerNext ==
    \/ \E g \in Grants, s \in Sessions : Open(g, s) \/ Renew(g, s)
    \/ \E g \in Grants : Redeem(g) \/ Tell(g)
    \/ \E G \in SUBSET Grants : End(G)

LedgerSpec == LedgerInit /\ [][LedgerNext]_ledgerVars
=============================================================================
