--------------------------- MODULE AttemptLedger ---------------------------
(***************************************************************************)
(* What a resumable collection promises to its readers, over all runs:     *)
(* attempts are added in groups, one for a unit at a time, only for units  *)
(* that are planned and have no final one, and are there for good; the     *)
(* collection is complete, for good, when no such unit is left.            *)
(***************************************************************************)
EXTENDS Naturals, FiniteSets

CONSTANTS
    Filings, Documents, DocumentsOf,  \* pages, and the documents that they name
    TerminalStates                    \* the outcomes that are final

VARIABLES receipts, complete

vars == <<receipts, complete>>

AttemptsOf(unit) == {r \in receipts : r.unit = unit}
Final == {r.unit : r \in {q \in receipts : q.state \in TerminalStates}}

(* The documents are planned when every page has been dealt with. *)
Planned ==
    Filings \cup
    IF Filings \subseteq Final
    THEN UNION {DocumentsOf[f] : f \in {g \in Filings : \E r \in AttemptsOf(g) : r.state = "archived"}}
    ELSE {}

Init == receipts = {} /\ complete = FALSE

Commit ==
    LET new == receipts' \ receipts
    IN  /\ ~complete /\ receipts \subseteq receipts'
        /\ \A r \in new :
              /\ r.unit \in Planned \ Final
              /\ r.number = Cardinality(AttemptsOf(r.unit)) + 1
              /\ \A s \in new : s.unit = r.unit => s = r
        /\ UNCHANGED complete

Finish == Planned \subseteq Final /\ complete' = TRUE /\ UNCHANGED receipts

Next == Commit \/ Finish
Spec == Init /\ [][Next]_vars
=============================================================================
