---------------------------- MODULE NumberRental ----------------------------
(***************************************************************************)
(* Rented numbers: the purchase, the daily sweep (runNumberRentalBilling)  *)
(* that charges a number each month after its first and climbs the ladder  *)
(* warn, suspend, release when it cannot, and the removal of a number.  A  *)
(* sweep reads the workspace's numbers once and then works through them,   *)
(* statement by statement; sweep[s].pc is the next one.                    *)
(***************************************************************************)
EXTENDS Outreach

CONSTANTS
  Numbers,      \* bound: phone numbers on offer, each bought once
  Sweeps,       \* bound: number_rental_billing jobs that run at a time
  NoNumber,
  Rent,         \* NUMBER_RENTAL_MONTHLY_CREDITS
  MaxCatchUp,   \* MAX_CATCHUP_CYCLES
  LastCycle     \* bound: the months a number is kept after its first

ASSUME RentalConstantsOK ==
  /\ NoNumber \notin Numbers
  /\ Numbers \cap Usages = {}
  /\ Rent \in Nat \ {0}
  /\ MaxCatchUp \in Nat \ {0} /\ LastCycle \in Nat \ {0}
  /\ IsFiniteSet(Numbers)

VARIABLES
  number,   \* by number: Twilio's side, the workspace_number row, the requests about it
  sweep,
  rents,    \* <<n, k>> with a DEBIT, k the month of n it is for: 0 the first, paid at purchase
  amiss     \* history: numbers on which a statement of a sweep failed, or was
            \* answered but not acted on

rentalVars == <<number, sweep, rents, amiss>>

\* listed: has a row.  age: the last month that came due, -1 before there was a row.
Number == [held : BOOLEAN, listed : BOOLEAN, age : -1..LastCycle,
           suspended : BOOLEAN,
           buying : {"no", "insert", "debit", "done"},
           removing : {"no", "twilio", "row"}]
OnOffer == [held |-> FALSE, listed |-> FALSE, age |-> -1, suspended |-> FALSE,
            buying |-> "no", removing |-> "no"]

\* seen: the row a sweep works on, as it read and then changed it.  todo: the numbers
\* it read and has not come to.
Seen == [age : -1..LastCycle, suspended : BOOLEAN]
Unseen == [age |-> -1, suspended |-> FALSE]
Sweep == [pc : {"idle", "next", "probe", "balance", "charge", "restore", "ladder", "release", "drop"},
          todo : SUBSET Numbers, seen : [Numbers -> Seen], at : Numbers \cup {NoNumber},
          cycle : 1..LastCycle + 1, billed : 0..LastCycle]
SeenRow(n) == IF number[n].listed THEN [age |-> number[n].age, suspended |-> number[n].suspended]
              ELSE Unseen
Resting == [pc |-> "idle", todo |-> {}, seen |-> [n \in Numbers |-> Unseen],
            at |-> NoNumber, cycle |-> 1, billed |-> 0]

RentalTypeOK ==
  /\ number \in [Numbers -> Number]
  /\ sweep \in [Sweeps -> Sweep]
  /\ rents \subseteq Numbers \X (0..LastCycle)
  /\ amiss \subseteq Numbers

RentalInit ==
  /\ number = [n \in Numbers |-> OnOffer]
  /\ sweep = [s \in Sweeps |-> Resting]
  /\ rents = {}
  /\ amiss = {}

\* What a number owes rent for: its first month and those that came due since.
RentDue == {k \in Numbers \X (0..LastCycle) : k[2] <= number[k[1]].age}

Fails == IF "dberror" \in Faults THEN BOOLEAN ELSE {FALSE}

\* apply_ledger_entry_and_sync_credits, as for a leg.
DebitRent(k) ==
  /\ rents' = rents \cup {k}
  /\ credits' = IF k \in rents THEN credits ELSE credits - Rent

OnlyNumbers == UNCHANGED <<sweep, rents, amiss, credits>>
OnlySweeps == UNCHANGED <<number, rents, amiss, credits>>

-----------------------------------------------------------------------------
(* purchaseWorkspaceNumber.                                                *)

\* Enough credits for the first month; Twilio rents the number out.
Purchase(n) ==
  /\ number[n].buying = "no"
  /\ credits >= Rent
  /\ number' = [number EXCEPT ![n].held = TRUE, ![n].buying = "insert"]
  /\ OnlyNumbers

InsertNumber(n) ==
  /\ number[n].buying = "insert"
  /\ number' = [number EXCEPT ![n].listed = TRUE, ![n].age = 0, ![n].buying = "debit"]
  /\ OnlyNumbers

\* The last statement: by then the balance may be spent.
ChargePurchase(n) ==
  /\ number[n].buying = "debit"
  /\ DebitRent(<<n, 0>>)
  /\ number' = [number EXCEPT ![n].buying = "done"]
  /\ UNCHANGED <<sweep, amiss>>

\* What was done so far stays: a number without a row, or a first month for free.
PurchaseFails(n) ==
  /\ Faults \cap {"kill", "dberror"} # {}
  /\ number[n].buying \in {"insert", "debit"}
  /\ number' = [number EXCEPT ![n].buying = "done"]
  /\ OnlyNumbers

\* A month has passed for the row.
MonthPasses(n) ==
  /\ number[n].listed /\ number[n].age < LastCycle
  /\ number' = [number EXCEPT ![n].age = @ + 1]
  /\ OnlyNumbers

-----------------------------------------------------------------------------
(* removeWorkspacePhoneNumber, for a user.                                 *)

RemoveNumber(n) ==
  /\ number[n].listed /\ number[n].removing = "no"
  /\ number' = [number EXCEPT ![n].removing = "twilio"]
  /\ OnlyNumbers

\* Twilio removes the number, or has none any more, which is an error.
TwilioRemoves(n) ==
  /\ number[n].removing = "twilio"
  /\ \/ /\ number[n].held
        /\ number' = [number EXCEPT ![n].held = FALSE, ![n].removing = "row"]
     \/ /\ ~number[n].held \/ "reject" \in Faults
        /\ number' = [number EXCEPT ![n].removing = "no"]
  /\ OnlyNumbers

Unlisted(r) == [r EXCEPT !.listed = FALSE, !.suspended = FALSE]

DeleteNumber(n) ==
  /\ number[n].removing = "row"
  /\ \E failed \in Fails :
       number' = [number EXCEPT ![n] = [IF failed THEN @ ELSE Unlisted(@) EXCEPT !.removing = "no"]]
  /\ OnlyNumbers

-----------------------------------------------------------------------------
(* runNumberRentalBilling.                                                 *)

StartSweep(s) ==
  /\ sweep[s].pc = "idle"
  /\ sweep' = [sweep EXCEPT ![s].pc = "next",
                            ![s].todo = {n \in Numbers : number[n].listed},
                            ![s].seen = [n \in Numbers |-> SeenRow(n)]]
  /\ OnlySweeps

NextNumber(s) ==
  /\ sweep[s].pc = "next"
  /\ \E n \in sweep[s].todo :
       sweep' = [sweep EXCEPT ![s].pc = "probe", ![s].todo = @ \ {n}, ![s].at = n]
  /\ OnlySweeps

EndSweep(s) ==
  /\ sweep[s].pc = "next" /\ sweep[s].todo = {}
  /\ sweep' = [sweep EXCEPT ![s] = Resting]
  /\ OnlySweeps

Read(s) == sweep[s].seen[sweep[s].at]
Month(s) == <<sweep[s].at, sweep[s].cycle>>

\* elapsedDueDates: the months after the first, the oldest MaxCatchUp of them.
DueDates(age) == 1..(IF age < MaxCatchUp THEN age ELSE MaxCatchUp)
GoTo(s, pc) == [sweep EXCEPT ![s].pc = pc]
NextCycle(w) == [w EXCEPT !.pc = "probe", !.cycle = @ + 1]
CountBilled(w) == [w EXCEPT !.billed = @ + 1]
LeaveNumber(w) == [w EXCEPT !.pc = "next", !.seen[w.at] = Unseen,
                            !.at = NoNumber, !.cycle = 1, !.billed = 0]
Leaves(s) == sweep' = [sweep EXCEPT ![s] = LeaveNumber(@)]

\* Is the month in the ledger already?
Probe(s) ==
  /\ sweep[s].pc = "probe"
  /\ \/ /\ sweep[s].cycle \notin DueDates(Read(s).age)
        /\ sweep' = GoTo(s, "ladder")
     \/ /\ sweep[s].cycle \in DueDates(Read(s).age)
        /\ sweep' = IF Month(s) \in rents
                    THEN [sweep EXCEPT ![s] = NextCycle(CountBilled(@))]
                    ELSE GoTo(s, "balance")
  /\ OnlySweeps

\* A month that cannot be paid ends the loop: no later one could.
ReadBalance(s) ==
  /\ sweep[s].pc = "balance"
  /\ sweep' = GoTo(s, IF credits < Rent THEN "ladder" ELSE "charge")
  /\ OnlySweeps

\* (mutant) Paying does not lift the suspension.
Charge_Forgets(s) ==
  /\ sweep[s].pc = "charge"
  /\ DebitRent(Month(s))
  /\ sweep' = [sweep EXCEPT ![s] = NextCycle(CountBilled(@))]
  /\ UNCHANGED <<number, amiss>>

\* The debit.  An error, before or after the commit, goes on with the next month.
Charge(s) ==
  /\ sweep[s].pc = "charge"
  /\ \/ /\ DebitRent(Month(s))
        /\ sweep' = [sweep EXCEPT ![s] = IF Read(s).suspended
                                         THEN [CountBilled(@) EXCEPT !.pc = "restore"]
                                         ELSE NextCycle(CountBilled(@))]
        /\ UNCHANGED <<number, amiss>>
     \/ /\ "dberror" \in Faults
        /\ DebitRent(Month(s)) \/ UNCHANGED <<rents, credits>>
        /\ sweep' = [sweep EXCEPT ![s] = NextCycle(@)]
        /\ amiss' = amiss \cup {sweep[s].at}
        /\ UNCHANGED number

\* (mutant) The row is restored, but the sweep goes on with the one it read.
Restore_Stale(s) ==
  /\ sweep[s].pc = "restore"
  /\ number' = [number EXCEPT ![sweep[s].at].suspended = FALSE]
  /\ sweep' = [sweep EXCEPT ![s] = NextCycle(@)]
  /\ UNCHANGED <<rents, amiss, credits>>

\* Paying lifts the suspension.
Restore(s) ==
  /\ sweep[s].pc = "restore"
  /\ LET n == sweep[s].at
     IN \/ /\ number' = [number EXCEPT ![n].suspended = FALSE]
           /\ sweep' = [sweep EXCEPT ![s] = [NextCycle(@) EXCEPT !.seen[n].suspended = FALSE]]
           /\ UNCHANGED amiss
        \/ /\ "dberror" \in Faults
           /\ sweep' = [sweep EXCEPT ![s] = NextCycle(@)]
           /\ amiss' = amiss \cup {n}
           /\ UNCHANGED number
  /\ UNCHANGED <<rents, credits>>

\* rentalActionForUnpaidCycles.
RentalAction(unpaid, suspended) ==
  IF unpaid >= 3 /\ suspended THEN "release"
  ELSE IF unpaid >= 2 THEN "suspend"
  ELSE IF unpaid = 1 THEN "warn"
  ELSE "none"

\* (mutant) The month that could not be paid, no more: the loop stops at it.
Unpaid_First(s) ==
  IF sweep[s].billed < Cardinality(DueDates(Read(s).age)) THEN 1 ELSE 0

\* Elapsed months minus those that were billed before or now.
Unpaid(s) == Cardinality(DueDates(Read(s).age)) - sweep[s].billed

Rung(s) == RentalAction(Unpaid(s), Read(s).suspended)
Climbs(s) == sweep[s].pc = "ladder" /\ UNCHANGED <<rents, credits>>

\* applyRentalLifecycleAction.  An UPDATE of a row finds none once the number is removed.
Suspend(s) ==
  /\ Climbs(s) /\ Rung(s) = "suspend" /\ ~Read(s).suspended
  /\ LET n == sweep[s].at
     IN number' = [number EXCEPT ![n].suspended = number[n].listed]
  /\ Leaves(s) /\ UNCHANGED amiss

\* The warning is a mail and a mark that it was sent.
StayOnRung(s) ==
  /\ Climbs(s)
  /\ \/ Rung(s) \in {"none", "warn"}
     \/ Rung(s) = "suspend" /\ Read(s).suspended
     \/ Rung(s) = "release" /\ ~number[sweep[s].at].listed
  /\ Leaves(s) /\ UNCHANGED <<number, amiss>>

Release(s) ==
  /\ Climbs(s) /\ Rung(s) = "release" /\ number[sweep[s].at].listed
  /\ sweep' = GoTo(s, "release")
  /\ UNCHANGED <<number, amiss>>

\* The error is logged, and the next number's turn comes.
RungFails(s) ==
  /\ Climbs(s) /\ Rung(s) \in {"suspend", "release"} /\ "dberror" \in Faults
  /\ Leaves(s)
  /\ amiss' = amiss \cup {sweep[s].at}
  /\ UNCHANGED number

\* removeWorkspacePhoneNumber, for the sweep.
ReleaseNumber(s) ==
  /\ sweep[s].pc = "release"
  /\ LET n == sweep[s].at
     IN \/ /\ number[n].held
           /\ number' = [number EXCEPT ![n].held = FALSE]
           /\ sweep' = GoTo(s, "drop")
        \/ /\ ~number[n].held \/ "reject" \in Faults
           /\ Leaves(s) /\ UNCHANGED number
  /\ UNCHANGED <<rents, amiss, credits>>

DropNumber(s) ==
  /\ sweep[s].pc = "drop"
  /\ \E failed \in Fails :
       number' = IF failed THEN number ELSE [number EXCEPT ![sweep[s].at] = Unlisted(@)]
  /\ Leaves(s)
  /\ UNCHANGED <<rents, amiss, credits>>

\* The worker dies, or a read fails: what is left waits for the next day's sweep.
KillSweep(s) ==
  /\ "kill" \in Faults /\ sweep[s].pc # "idle"
  /\ sweep' = [sweep EXCEPT ![s] = Resting]
  /\ amiss' = IF sweep[s].pc = "restore" THEN amiss \cup {sweep[s].at} ELSE amiss
  /\ UNCHANGED <<number, rents, credits>>

RentalStep ==
  /\ \/ \E n \in Numbers :
          \/ Purchase(n) \/ InsertNumber(n) \/ ChargePurchase(n) \/ PurchaseFails(n)
          \/ MonthPasses(n) \/ RemoveNumber(n) \/ TwilioRemoves(n) \/ DeleteNumber(n)
     \/ \E s \in Sweeps :
          \/ StartSweep(s) \/ NextNumber(s) \/ EndSweep(s)
          \/ Probe(s) \/ ReadBalance(s) \/ Charge(s) \/ Restore(s)
          \/ Suspend(s) \/ StayOnRung(s) \/ Release(s) \/ RungFails(s)
          \/ ReleaseNumber(s) \/ DropNumber(s) \/ KillSweep(s)
  /\ UNCHANGED <<queue, optOut, usage, row, job, ledger, topups, gap>>

-----------------------------------------------------------------------------
(* Properties.                                                             *)

\* What a number owes by the code's own reckoning, which never looks past the oldest
\* MaxCatchUp of its months: nothing that comes due later is owed here.
Owed(n, age) == {k \in DueDates(age) : <<n, k>> \notin rents}
InHand(n) == \E s \in Sweeps : sweep[s].at = n

\* A customer who has paid gets the number back: unless an error cut it short, no
\* sweep leaves a number suspended that owes nothing it was swept for.
RestoredWhenPaid ==
  \A n \in Numbers \ amiss :
    number[n].suspended /\ ~InHand(n) => Owed(n, number[n].age) # {}

\* The irreversible step is earned: a sweep gives a number back to Twilio only while
\* three of its months are unpaid and it stands suspended, whatever was paid in between.
GivenBack(n) ==
  number[n].held /\ ~number'[n].held
    /\ \E s \in Sweeps : sweep[s].at = n /\ sweep[s].pc # sweep'[s].pc
ReleaseEarned ==
  [][\A n \in Numbers \ amiss :
       GivenBack(n) => Cardinality(Owed(n, number[n].age)) >= 3 /\ number[n].suspended]_rentalVars

\* In its first MaxCatchUp months nobody keeps a number for free: when a sweep is done
\* with one that is two of them behind, it is suspended or gone.  Later months are not
\* charged at all, and the property says nothing of them.
DoneWith(s) == sweep[s].at # NoNumber /\ sweep'[s].pc = "next"
BehindIsSuspended ==
  [][\A s \in Sweeps : LET n == sweep[s].at IN
       DoneWith(s) /\ n \notin amiss' /\ number[n].listed
         /\ Cardinality(Owed(n, Read(s).age)) >= 2
         => number'[n].suspended \/ ~number'[n].listed]_rentalVars
=============================================================================
