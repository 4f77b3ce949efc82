------------------------------ MODULE SaleLedger ------------------------------
(***************************************************************************)
(* What the point of sale promises about a sale, whatever happens between  *)
(* the till and the server: a sale is rung up once, the server books it    *)
(* (stores the order and takes its stock) at most once, and only if its    *)
(* content is acceptable.  How often the till had to send it, which tab    *)
(* sent it and which answers were lost does not appear here.               *)
(***************************************************************************)
EXTENDS Naturals

CONSTANTS Sales,       \* every sale a till may ring up
          Acceptable   \* the sales that validation lets through and the database can store

VARIABLES rung,     \* the sales rung up so far
          booked    \* booked[s]: how many times s has taken stock at the server

ledgerVars == <<rung, booked>>

Init ==
  /\ rung = {}
  /\ booked = [s \in Sales |-> 0]

RingUp(s) ==
  /\ s \notin rung
  /\ rung' = rung \cup {s}
  /\ UNCHANGED booked

Book(s) ==
  /\ s \in rung \cap Acceptable
  /\ booked[s] = 0
  /\ booked' = [booked EXCEPT ![s] = 1]
  /\ UNCHANGED rung

Next == \E s \in Sales : RingUp(s) \/ Book(s)

Spec == Init /\ [][Next]_ledgerVars
===============================================================================
