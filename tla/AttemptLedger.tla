--------------------------- MODULE AttemptLedger ---------------------------
(***************************************************************************)
(* What the evaluation orchestrator promises, with no pool, no clock and   *)
(* no files: for each attempt and instance the ledger holds at most one    *)
(* outcome, an instance is entered for attempt n > 1 only when the critic  *)
(* refused the outcome it has in attempt n - 1, and an outcome once        *)
(* entered is never changed or removed.  The one exception is an entry     *)
(* left unclosed, as a fault in the middle of entering it can: nothing is  *)
(* entered behind it, and it can still be lost.                            *)
(***************************************************************************)
EXTENDS Integers

CONSTANTS
    Instances,      \* the dataset's instances
    MaxAttempts,    \* metadata.max_attempts
    Outcomes,       \* what an evaluation of an instance can produce
    Accepted,       \* the outcomes the critic is content with
    MayCut          \* an entry can be left unclosed

VARIABLES
    ledger,         \* ledger[n][i]: the outcomes entered, at most one
    unclosed        \* <<n, i>>: the entry of i for attempt n is not closed

ledgerVars == <<ledger, unclosed>>

Attempts == 1..MaxAttempts

Init ==
    /\ ledger = [n \in Attempts |-> [i \in Instances |-> {}]]
    /\ unclosed = {}

\* An instance may be entered for attempt n.
Open(n, i) ==
    /\ ledger[n][i] = {}
    /\ n > 1 => ledger[n - 1][i] # {} /\ ledger[n - 1][i] \cap Accepted = {}
    /\ \A j \in Instances : <<n, j>> \notin unclosed

Enter(n, i, o) ==
    /\ Open(n, i)
    /\ ledger' = [ledger EXCEPT ![n][i] = {o}]
    /\ \/ UNCHANGED unclosed
       \/ MayCut /\ unclosed' = unclosed \cup {<<n, i>>}

Lose(n, i) ==
    /\ <<n, i>> \in unclosed
    /\ ledger' = [ledger EXCEPT ![n][i] = {}]
    /\ unclosed' = unclosed \ {<<n, i>>}

Next ==
    \E n \in Attempts, i \in Instances :
        Lose(n, i) \/ \E o \in Outcomes : Enter(n, i, o)

Spec == Init /\ [][Next]_ledgerVars
=============================================================================
