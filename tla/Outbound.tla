------------------------------ MODULE Outbound ------------------------------
(***************************************************************************)
(* A workspace with everything that spends its credits: one outbound       *)
(* campaign, which is a live_call campaign, dialed by agents (ManualDial), *)
(* or a message campaign, texted by jobs and requests (SmsDispatch), or no *)
(* campaign; and rented numbers (NumberRental).  Calls, texts, callbacks,  *)
(* jobs, sweeps and payments (Outreach) go on beside them.                 *)
(***************************************************************************)
EXTENDS ManualDial, SmsDispatch, NumberRental

CONSTANT Types   \* bound: the types of campaign, "none" for a workspace without one

ASSUME OutboundConstantsOK == Types \subseteq {"none", "live_call", "message"}

VARIABLE type   \* campaign.type

vars == <<outreachVars, dial, smsVars, type, rentalVars>>

TypeOK ==
  /\ type \in Types
  /\ OutreachTypeOK
  /\ DialTypeOK
  /\ SmsTypeOK
  /\ RentalTypeOK

Init ==
  /\ type \in Types
  /\ \/ type = "live_call" /\ \E owner \in [Tabs -> Agents] : DialInit(owner)
     \/ type \in {"none", "message"} /\ DialInit([t \in Tabs |-> NoAgent])
  /\ OutreachInit
  /\ SmsInit
  /\ RentalInit

Next ==
  \/ type = "live_call" /\ DialStep /\ UNCHANGED <<smsVars, type, rentalVars>>
  \/ type = "message" /\ SmsStep /\ UNCHANGED <<dial, type, rentalVars>>
  \/ BillingStep /\ UNCHANGED <<dial, smsVars, type, rentalVars>>
  \/ RentalStep /\ UNCHANGED <<dial, smsVars, type>>

Spec == Init /\ [][Next]_vars

-----------------------------------------------------------------------------
(* Properties of the account they share.                                   *)

\* The balance of the workspace is what it opened with and what the ledger's entries
\* add up to, whatever is redelivered, run again or swept at the same time
\* (apply_ledger_entry_and_sync_credits; workspace.credits is a column of its own).
BalanceIsLedger ==
  credits = OpeningCredits + TopUp * Cardinality(topups)
              - Price * Cardinality(ledger) - Rent * Cardinality(rents)

Rentals == Numbers \X (0..LastCycle)
PriceOf == [k \in Legs \cup Rentals |-> IF k[1] \in Numbers THEN Rent ELSE Price]

A == INSTANCE Account WITH Events <- Legs \cup Rentals, used <- Due \cup RentDue,
                           charged <- ledger \cup rents, Price <- PriceOf

\* Calls, texts, rented numbers, callbacks, jobs, polls and sweeps keep the promises of
\* the workspace's account: a leg is charged only after it used something and a month
\* of a number only once it is due, at most once, and a payment is credited once.
RefinesAccount == A!Spec
=============================================================================
