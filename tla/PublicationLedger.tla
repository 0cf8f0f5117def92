------------------------- MODULE PublicationLedger -------------------------
(***************************************************************************)
(* What a driver's device owes the office for the publications it applies: *)
(* a publication is taken over, its acknowledgement is owed from then on,  *)
(* and the debt ends only when the office has that very acknowledgement.   *)
(* Deleting the account closes the ledger.  LiveRouteChange implements it. *)
(***************************************************************************)
EXTENDS Naturals

CONSTANTS Generations,    \* assignment generations of the route
          Numbers,        \* the publications' sequence numbers
          None            \* nothing is owed

VARIABLES owed,           \* per generation, the publication whose acknowledgement is owed
          taken,          \* per generation, every publication ever applied here
          sent,           \* acknowledgements that left the device
          received,       \* those the office has
          closed          \* the account was deleted

ledgerVars == <<owed, taken, sent, received, closed>>

Init ==
  /\ owed = [g \in Generations |-> None]
  /\ taken = [g \in Generations |-> {}]
  /\ sent = {}
  /\ received = {}
  /\ closed = FALSE

\* A publication is applied: never while another one is unconfirmed, never an earlier one.
Take(g, n) ==
  /\ ~closed
  /\ owed[g] = None
  /\ \A m \in taken[g] : m <= n
  /\ owed' = [owed EXCEPT ![g] = n]
  /\ taken' = [taken EXCEPT ![g] = @ \cup {n}]
  /\ UNCHANGED <<sent, received, closed>>

\* The acknowledgement of what is owed leaves, as often as it takes.
Send(g) ==
  /\ owed[g] # None
  /\ sent' = sent \cup {<<g, owed[g]>>}
  /\ UNCHANGED <<owed, taken, received, closed>>

Receive(m) ==
  /\ received' = received \cup {m}
  /\ UNCHANGED <<owed, taken, sent, closed>>

Settle(g) ==
  /\ <<g, owed[g]>> \in received
  /\ owed' = [owed EXCEPT ![g] = None]
  /\ UNCHANGED <<taken, sent, received, closed>>

Close ==
  /\ closed' = TRUE
  /\ owed' = [g \in Generations |-> None]
  /\ UNCHANGED <<taken, sent, received>>

Next ==
  \/ \E g \in Generations :
       \/ \E n \in Numbers : Take(g, n)
       \/ Send(g)
       \/ Settle(g)
  \/ \E m \in sent : Receive(m)
  \/ Close

Spec == Init /\ [][Next]_ledgerVars

-----------------------------------------------------------------------------
LedgerTypeOK ==
  /\ owed \in [Generations -> Numbers \cup {None}]
  /\ taken \in [Generations -> SUBSET Numbers]
  /\ sent \in SUBSET (Generations \X Numbers)
  /\ received \in SUBSET (Generations \X Numbers)
  /\ closed \in BOOLEAN

\* The office is never told that the device applied a publication it did not
\* apply ("A retry never claims that a different publication was applied").
OnlyAppliedIsAcknowledged ==
  /\ \A m \in sent : m[2] \in taken[m[1]]
  /\ received \subseteq sent

\* Until the account is deleted, whatever was applied is either confirmed at the
\* office or still owed: no crash, late answer or newer publication drops it.
AppliedIsConfirmedOrOwed ==
  ~closed => \A g \in Generations : \A n \in taken[g] :
               n = owed[g] \/ <<g, n>> \in received

\* Only what was applied is owed, and nothing once the account is deleted.
OwedWasApplied ==
  \A g \in Generations : owed[g] # None => ~closed /\ owed[g] \in taken[g]

LedgerInv == LedgerTypeOK /\ OnlyAppliedIsAcknowledged /\ AppliedIsConfirmedOrOwed /\ OwedWasApplied
=============================================================================
