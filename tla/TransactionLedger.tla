-------------------------- MODULE TransactionLedger --------------------------
(***************************************************************************)
(* What the transactions module promises, without processes, messages or   *)
(* failures: a stored transaction starts PENDING; it stays open until it   *)
(* is decided or openly abandoned; it never becomes undecided again.       *)
(* Processing is at least once, so a decided transaction may be reopened   *)
(* and decided anew.                                                       *)
(***************************************************************************)
CONSTANT Tx

VARIABLES
    status,     \* status of each transaction
    open,       \* transactions that are still being looked after
    abandoned   \* transactions the system has given up

ledger == <<status, open, abandoned>>

Final == {"SUCCESS", "FAILED"}

Init ==
    /\ status = [t \in Tx |-> "Absent"]
    /\ open = {}
    /\ abandoned = {}

\* A row is stored, open or, when its request failed, abandoned from the start.
Create(t) ==
    /\ status[t] = "Absent"
    /\ status' = [status EXCEPT ![t] = "PENDING"]
    /\ \/ open' = open \cup {t} /\ UNCHANGED abandoned
       \/ abandoned' = abandoned \cup {t} /\ UNCHANGED open

Decide(t, outcome) ==
    /\ status[t] # "Absent"
    /\ status' = [status EXCEPT ![t] = outcome]
    /\ UNCHANGED <<open, abandoned>>

\* Responsibility changes hands.  What stops being open is decided or abandoned, and so
\* is what is opened again.
Transfer ==
    /\ open' \in SUBSET Tx
    /\ abandoned' \in SUBSET Tx
    /\ abandoned \subseteq abandoned'
    /\ \A t \in (open \ open') \cup (open' \ open) :
         status[t] \in Final \/ t \in abandoned'
    /\ \A t \in open' \cup abandoned' : status[t] # "Absent"
    /\ UNCHANGED status

Next ==
    \/ \E t \in Tx : Create(t)
    \/ \E t \in Tx, outcome \in Final : Decide(t, outcome)
    \/ Transfer

Spec == Init /\ [][Next]_ledger
=============================================================================
