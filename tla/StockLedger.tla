---------------------------- MODULE StockLedger ----------------------------
(***************************************************************************)
(* What the inventory tables promise, whatever the interleaving of the     *)
(* requests: a business document (a sale, a purchase, an edit of a sale,   *)
(* a transfer...) moves all its lines in one step or none of them, and no  *)
(* product in a warehouse ever goes below zero.                            *)
(***************************************************************************)
EXTENDS Integers, Sequences, FiniteSetsExt

CONSTANTS
    Tx,        \* the documents
    StockRow,  \* the (product, warehouse) pairs
    Document,  \* the sequences of lines a document may have
    Opening    \* the stock the books open with

VARIABLES
    stock,     \* stock[r]: units of r on hand
    outcome    \* outcome[t]: "open", "committed" or "failed"

vars == <<stock, outcome>>

\* What the lines of a document add up to on row r.
Net(doc, r) ==
    MapThenSumSet(LAMBDA i : IF doc[i].row = r THEN doc[i].delta ELSE 0, DOMAIN doc)

Init ==
    /\ stock = Opening
    /\ outcome = [t \in Tx |-> "open"]

Apply(t) ==
    /\ outcome[t] = "open"
    /\ \E doc \in Document :
          stock' = [r \in StockRow |-> stock[r] + Net(doc, r)]
    /\ \A r \in StockRow : stock'[r] >= 0
    /\ outcome' = [outcome EXCEPT ![t] = "committed"]

Reject(t) ==
    /\ outcome[t] = "open"
    /\ outcome' = [outcome EXCEPT ![t] = "failed"]
    /\ UNCHANGED stock

Next == \E t \in Tx : Apply(t) \/ Reject(t)

Spec == Init /\ [][Next]_vars
=============================================================================
