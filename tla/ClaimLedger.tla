---------------------------- MODULE ClaimLedger ----------------------------
(***************************************************************************)
(* What a claim on an owner's paid work promises: a key is granted to a    *)
(* new claim only while no work of that key runs, only the latest claim of *)
(* a key may begin its work, and it may begin it once.                     *)
(***************************************************************************)

CONSTANTS Keys, Tokens, None

VARIABLES
    keyOf,    \* the key a claim was granted for, None before
    latest,   \* the last claim granted for a key
    begun,    \* the claims whose work was begun
    running   \* the claims whose work runs now

ledgerVars == <<keyOf, latest, begun, running>>

Quiet(k) == \A r \in running : keyOf[r] # k

LedgerInit ==
    /\ keyOf = [t \in Tokens |-> None]
    /\ latest = [k \in Keys |-> None]
    /\ begun = {}
    /\ running = {}

Grant(t, k) ==
    /\ keyOf[t] = None
    /\ Quiet(k)
    /\ keyOf' = [keyOf EXCEPT ![t] = k]
    /\ latest' = [latest EXCEPT ![k] = t]
    /\ UNCHANGED <<begun, running>>

Begin(t) ==
    /\ keyOf[t] # None
    /\ latest[keyOf[t]] = t
    /\ t \notin begun
    /\ Quiet(keyOf[t])
    /\ begun' = begun \cup {t}
    /\ running' = running \cup {t}
    /\ UNCHANGED <<keyOf, latest>>

\* Work ends, or its worker does; several may at the same moment.
End(T) ==
    /\ T \subseteq running
    /\ running' = running \ T
    /\ UNCHANGED <<keyOf, latest, begun>>

LedgerNext ==
    \/ \E t \in Tokens, k \in Keys : Grant(t, k)
    \/ \E t \in Tokens : Begin(t)
    \/ \E T \in SUBSET Tokens : End(T)

LedgerSpec == LedgerInit /\ [][LedgerNext]_ledgerVars
=============================================================================
