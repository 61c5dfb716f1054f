------------------------ MODULE NumberRental_proofs ------------------------
(***************************************************************************)
(* Lemmas about NumberRental, for any number of numbers and months.  The   *)
(* theorems they lead to are about Outbound (Outbound_proofs).             *)
(***************************************************************************)
EXTENDS NumberRental, FiniteSetTheorems, TLAPS

-----------------------------------------------------------------------------
(* Types.                                                                  *)

\* A row is rented, has a month and, if it is suspended, exists.
GoodNumber(r) ==
  /\ r.suspended => r.listed
  /\ r.listed \/ r.buying = "debit" => r.age >= 0
  /\ r.buying \notin {"debit", "done"} => ~r.listed /\ r.age = -1 /\ r.removing = "no"
  /\ r.removing = "row" => ~r.held

\* A sweep that has a number in hand is at one of its months; one that has not is at none.
Busy == {"probe", "balance", "charge", "restore", "ladder", "release", "drop"}
GoodSweep(w) ==
  /\ w.at \notin w.todo
  /\ w.pc = "idle" => w.todo = {}
  /\ w.pc \in {"idle", "next"} => w.at = NoNumber /\ w.cycle = 1 /\ w.billed = 0
  /\ w.pc \in Busy =>
       /\ w.at \in Numbers
       /\ \A k \in 1..(w.cycle - 1) : k \in DueDates(w.seen[w.at].age)
       /\ w.billed < w.cycle \/ (w.pc = "restore" /\ w.billed <= w.cycle)
  /\ w.pc \in {"balance", "charge", "restore"} => w.cycle \in DueDates(w.seen[w.at].age)

\* What a sweep read of a number is no later than the number, which has been bought.
Follows(w) ==
  \A n \in Numbers :
    /\ w.seen[n].age <= number[n].age
    /\ n \in w.todo \/ n = w.at => number[n].buying \in {"debit", "done"}

RentalSound ==
  /\ RentalTypeOK
  /\ \A n \in Numbers : GoodNumber(number[n])
  /\ \A s \in Sweeps : GoodSweep(sweep[s]) /\ Follows(sweep[s])

LEMMA RentalSoundInit == RentalInit => RentalSound
BY RentalConstantsOK
   DEF RentalInit, RentalSound, RentalTypeOK, OnOffer, Number, Resting, Sweep, Unseen, Seen,
       GoodNumber, GoodSweep, Follows, Busy

\* The months of a number's age are months of the model.
LEMMA DueMonths ==
  ASSUME NEW a \in -1..LastCycle
  PROVE  /\ DueDates(a) \subseteq 1..LastCycle
         /\ DueDates(a) \subseteq 1..a
         /\ \A k \in Int : k + 1 \in DueDates(a) /\ k >= 1 => k \in DueDates(a)
         /\ \A b \in -1..a : DueDates(b) \subseteq DueDates(a)
BY RentalConstantsOK DEF DueDates

\* One number moves.
LEMMA OneNumber ==
  ASSUME RentalSound, NEW n \in Numbers, NEW r \in Number, GoodNumber(r),
         r.age >= number[n].age,
         number[n].buying \in {"debit", "done"} => r.buying \in {"debit", "done"},
         number' = [number EXCEPT ![n] = r]
  PROVE  /\ number' \in [Numbers -> Number]
         /\ \A m \in Numbers : GoodNumber(number'[m])
         /\ \A w \in Sweep : Follows(w) => Follows(w)'
<1>1. number \in [Numbers -> Number] BY DEF RentalSound, RentalTypeOK
<1>2. \A m \in Numbers : number'[m] = IF m = n THEN r ELSE number[m] BY <1>1
<1>3. number' \in [Numbers -> Number] BY <1>1
<1>4. \A m \in Numbers : GoodNumber(number'[m]) BY <1>2 DEF RentalSound
<1>5. ASSUME NEW w \in Sweep, Follows(w), NEW m \in Numbers
      PROVE  /\ w.seen[m].age <= number'[m].age
             /\ m \in w.todo \/ m = w.at => number'[m].buying \in {"debit", "done"}
  <2>1. w.seen[m].age \in Int /\ number[m].age \in Int /\ r.age \in Int
    BY <1>1, RentalConstantsOK DEF Sweep, Seen, Number
  <2>2. QED BY <1>2, <1>5, <2>1 DEF Follows
<1>6. QED BY <1>3, <1>4, <1>5 DEF Follows

\* One sweep moves, and so may the number it has in hand.
LEMMA OneSweepMoves ==
  ASSUME RentalSound, NEW s \in Sweeps, NEW w \in Sweep, GoodSweep(w), Follows(w)',
         sweep' = [sweep EXCEPT ![s] = w],
         number' \in [Numbers -> Number],
         \A m \in Numbers : GoodNumber(number'[m]),
         \A v \in Sweep : Follows(v) => Follows(v)',
         rents' \subseteq Numbers \X (0..LastCycle), amiss' \subseteq Numbers
  PROVE  RentalSound'
<1>1. sweep \in [Sweeps -> Sweep] BY DEF RentalSound, RentalTypeOK
<1>2. \A t \in Sweeps : sweep'[t] = IF t = s THEN w ELSE sweep[t] BY <1>1
<1>3. \A t \in Sweeps : GoodSweep(sweep'[t]) BY <1>2 DEF RentalSound
<1>4. \A t \in Sweeps : Follows(sweep[t])' BY <1>1, <1>2 DEF RentalSound, Follows
<1>5. RentalTypeOK' BY <1>1 DEF RentalTypeOK
<1>6. QED BY <1>3, <1>4, <1>5 DEF RentalSound

LEMMA UnlistedGood ==
  ASSUME NEW r \in Number, GoodNumber(r), NEW b \in {"no", r.removing}, ~r.held
  PROVE  /\ [Unlisted(r) EXCEPT !.removing = b] \in Number
         /\ GoodNumber([Unlisted(r) EXCEPT !.removing = b])
         /\ [Unlisted(r) EXCEPT !.removing = b].age = r.age
         /\ [Unlisted(r) EXCEPT !.removing = b].buying = r.buying
BY DEF Unlisted, Number, GoodNumber


\* A purchase, a month, a removal: one number moves forward.
NumberStep(n) ==
  \/ Purchase(n) \/ InsertNumber(n) \/ ChargePurchase(n) \/ PurchaseFails(n)
  \/ MonthPasses(n) \/ RemoveNumber(n) \/ TwilioRemoves(n) \/ DeleteNumber(n)

LEMMA NumberMoves ==
  ASSUME RentalSound, NEW n \in Numbers, NumberStep(n)
  PROVE  \E r \in Number :
           /\ number' = [number EXCEPT ![n] = r]
           /\ GoodNumber(r)
           /\ r.age >= number[n].age
           /\ number[n].buying \in {"debit", "done"} => r.buying \in {"debit", "done"}
<1> DEFINE e == number[n]
<1>1. e \in Number /\ GoodNumber(e) BY DEF RentalSound, RentalTypeOK
<1>2. /\ LastCycle \in Nat \ {0}
      /\ e.age \in Int /\ e.age >= -1 /\ e.age <= LastCycle
  BY <1>1, RentalConstantsOK DEF Number
<1>3. CASE Purchase(n)
  <2> DEFINE r == [e EXCEPT !.held = TRUE, !.buying = "insert"]
  <2>1. number' = [number EXCEPT ![n] = r] /\ e.buying = "no" BY <1>3 DEF Purchase
  <2>2. r \in Number BY <1>1, <1>2, <2>1 DEF Number
  <2>3. GoodNumber(r)
    <3>1. ~e.listed /\ ~e.suspended /\ e.removing = "no" /\ e.age = -1
      BY <1>1, <2>1 DEF GoodNumber
    <3>2. r.listed = e.listed /\ r.suspended = e.suspended /\ r.age = e.age
      BY <1>1 DEF Number
    <3>3. r.removing = e.removing /\ r.buying = "insert" BY <1>1 DEF Number
    <3> HIDE DEF r
    <3>4. QED BY <3>1, <3>2, <3>3 DEF GoodNumber
  <2>4. r.age >= e.age BY <1>1, <1>2, <2>1 DEF Number
  <2>5. e.buying \notin {"debit", "done"} BY <2>1
  <2> HIDE DEF r
  <2>6. QED BY <2>1, <2>2, <2>3, <2>4, <2>5
<1>4. CASE InsertNumber(n)
  <2> DEFINE r == [e EXCEPT !.listed = TRUE, !.age = 0, !.buying = "debit"]
  <2>1. number' = [number EXCEPT ![n] = r] /\ e.buying = "insert" BY <1>4 DEF InsertNumber
  <2>2. r \in Number
    <3>1. 0 \in -1..LastCycle BY <1>2
    <3>2. QED BY <1>1, <3>1 DEF Number
  <2>3. GoodNumber(r) BY <1>1, <1>2, <2>1 DEF Number, GoodNumber
  <2>4. r.age >= e.age
    <3>1. e.age = -1 BY <1>1, <2>1 DEF GoodNumber
    <3>2. QED BY <1>1, <3>1 DEF Number
  <2>5. e.buying \notin {"debit", "done"} BY <2>1
  <2> HIDE DEF r
  <2>6. QED BY <2>1, <2>2, <2>3, <2>4, <2>5
<1>5. CASE ChargePurchase(n) \/ PurchaseFails(n)
  <2> DEFINE r == [e EXCEPT !.buying = "done"]
  <2>1. number' = [number EXCEPT ![n] = r] /\ e.buying \in {"insert", "debit"}
    BY <1>5 DEF ChargePurchase, PurchaseFails
  <2>2. r \in Number BY <1>1 DEF Number
  <2>3. GoodNumber(r) BY <1>1, <2>1 DEF Number, GoodNumber
  <2>4. r.age >= e.age BY <1>1, <1>2 DEF Number
  <2>5. r.buying = "done" BY <1>1 DEF Number
  <2> HIDE DEF r
  <2>6. QED BY <2>1, <2>2, <2>3, <2>4, <2>5
<1>6. CASE MonthPasses(n)
  <2> DEFINE r == [e EXCEPT !.age = @ + 1]
  <2>1. number' = [number EXCEPT ![n] = r] /\ e.listed /\ e.age < LastCycle
    BY <1>6 DEF MonthPasses
  <2>2. r \in Number BY <1>1, <1>2, <2>1 DEF Number
  <2>3. GoodNumber(r)
    <3>1. e.buying \in {"debit", "done"} /\ (e.removing = "row" => ~e.held)
      BY <1>1, <2>1 DEF GoodNumber
    <3>2. r.listed = e.listed /\ r.held = e.held /\ r.suspended = e.suspended BY <1>1 DEF Number
    <3>3. r.removing = e.removing /\ r.buying = e.buying BY <1>1 DEF Number
    <3>4. e.age >= 0 /\ r.age = e.age + 1 BY <1>1, <2>1 DEF Number, GoodNumber
    <3>5. r.age >= 0 BY <1>2, <3>4
    <3> HIDE DEF r
    <3>6. QED BY <2>1, <3>1, <3>2, <3>3, <3>5 DEF GoodNumber
  <2>4. r.age >= e.age BY <1>1, <1>2 DEF Number
  <2>5. r.buying = e.buying BY <1>1 DEF Number
  <2> HIDE DEF r
  <2>6. QED BY <2>1, <2>2, <2>3, <2>4, <2>5
<1>7. CASE RemoveNumber(n) \/ TwilioRemoves(n)
  <2>1. PICK h \in BOOLEAN, b \in {"no", "twilio", "row"} :
          /\ number' = [number EXCEPT ![n] = [e EXCEPT !.held = h, !.removing = b]]
          /\ b = "row" => ~h
    <3>1. CASE RemoveNumber(n)
      <4>1. number' = [number EXCEPT ![n] = [e EXCEPT !.held = e.held, !.removing = "twilio"]]
        BY <1>1, <3>1 DEF RemoveNumber, Number
      <4>2. QED BY <1>1, <4>1 DEF Number
    <3>2. CASE TwilioRemoves(n)
      <4>1. CASE number' = [number EXCEPT ![n].held = FALSE, ![n].removing = "row"]
        BY <4>1
      <4>2. CASE number' = [number EXCEPT ![n].removing = "no"]
        <5>1. number' = [number EXCEPT ![n] = [e EXCEPT !.held = e.held, !.removing = "no"]]
          BY <1>1, <4>2 DEF Number
        <5>2. QED BY <1>1, <5>1 DEF Number
      <4>3. QED BY <3>2, <4>1, <4>2 DEF TwilioRemoves
    <3>3. QED BY <1>7, <3>1, <3>2
  <2> DEFINE r == [e EXCEPT !.held = h, !.removing = b]
  <2>0. number' = [number EXCEPT ![n] = r] BY <2>1
  <2>2. r \in Number BY <1>1, <1>2, <2>1 DEF Number
  <2>3. GoodNumber(r)
    <3>1. e.removing = "twilio" \/ e.listed BY <1>7 DEF RemoveNumber, TwilioRemoves
    <3>2. e.buying \in {"debit", "done"} BY <1>1, <3>1 DEF GoodNumber
    <3>3. r.listed = e.listed /\ r.held = h /\ r.suspended = e.suspended /\ r.age = e.age
      BY <1>1 DEF Number
    <3>4. r.removing = b /\ r.buying = e.buying BY <1>1 DEF Number
    <3> HIDE DEF r
    <3>5. QED BY <1>1, <2>1, <3>2, <3>3, <3>4 DEF GoodNumber
  <2>4. r.age >= e.age BY <1>1, <1>2 DEF Number
  <2>5. r.buying = e.buying BY <1>1 DEF Number
  <2> HIDE DEF r
  <2>6. QED BY <2>0, <2>2, <2>3, <2>4, <2>5
<1>8. CASE DeleteNumber(n)
  <2>1. PICK failed \in BOOLEAN :
          number' = [number EXCEPT ![n] = [IF failed THEN e ELSE Unlisted(e) EXCEPT !.removing = "no"]]
    BY <1>8 DEF DeleteNumber, Fails
  <2>2. ~e.held BY <1>1, <1>8 DEF DeleteNumber, GoodNumber
  <2> DEFINE r == [IF failed THEN e ELSE Unlisted(e) EXCEPT !.removing = "no"]
  <2>3. r \in Number /\ GoodNumber(r) /\ r.age = e.age /\ r.buying = e.buying
    <3>1. CASE failed BY <1>1, <3>1 DEF Number, GoodNumber
    <3>2. CASE ~failed
      <4>1. r = [Unlisted(e) EXCEPT !.removing = "no"] BY <3>2
      <4>2. QED BY <1>1, <2>2, <4>1, UnlistedGood
    <3>3. QED BY <3>1, <3>2
  <2>4. r.age >= e.age BY <1>2, <2>3
  <2>5. number' = [number EXCEPT ![n] = r] BY <2>1
  <2> HIDE DEF r
  <2>6. QED BY <2>3, <2>4, <2>5
<1>9. QED BY <1>3, <1>4, <1>5, <1>6, <1>7, <1>8 DEF NumberStep

LEMMA NumberSound == ASSUME RentalSound, NEW n \in Numbers, NumberStep(n) PROVE RentalSound'
<1>1. /\ number' \in [Numbers -> Number]
      /\ \A m \in Numbers : GoodNumber(number'[m])
      /\ \A w \in Sweep : Follows(w) => Follows(w)'
  BY NumberMoves, OneNumber
<1>2. UNCHANGED <<sweep, amiss>>
  BY DEF NumberStep, Purchase, InsertNumber, ChargePurchase, PurchaseFails, MonthPasses,
     RemoveNumber, TwilioRemoves, DeleteNumber, OnlyNumbers
<1>3. rents' \subseteq Numbers \X (0..LastCycle)
  BY RentalConstantsOK
     DEF NumberStep, Purchase, InsertNumber, ChargePurchase, PurchaseFails, MonthPasses,
       RemoveNumber, TwilioRemoves, DeleteNumber, OnlyNumbers, DebitRent, RentalSound, RentalTypeOK
<1>4. \A s \in Sweeps : sweep[s] \in Sweep BY DEF RentalSound, RentalTypeOK
<1>5. QED BY <1>1, <1>2, <1>3, <1>4 DEF RentalSound, RentalTypeOK, Follows


\* What a step of a sweep may do to the number it has in hand.
MayChange(n, r) ==
  /\ number' = [number EXCEPT ![n] = r]
  /\ r \in Number /\ GoodNumber(r)
  /\ r.age = number[n].age /\ r.buying = number[n].buying

LEMMA SweepMoves ==
  ASSUME RentalSound, NEW s \in Sweeps, NEW w \in Sweep, GoodSweep(w), Follows(w),
         sweep' = [sweep EXCEPT ![s] = w],
         UNCHANGED number \/ \E n \in Numbers : \E r : MayChange(n, r),
         rents' \subseteq Numbers \X (0..LastCycle), amiss' \subseteq Numbers
  PROVE  RentalSound'
<1>1. CASE UNCHANGED number
  BY <1>1, OneSweepMoves DEF RentalSound, RentalTypeOK, Follows
<1>2. ASSUME NEW n \in Numbers, NEW r, MayChange(n, r) PROVE RentalSound'
  <2>1. number[n] \in Number BY DEF RentalSound, RentalTypeOK
  <2>2. r.age >= number[n].age BY <1>2, <2>1, RentalConstantsOK DEF MayChange, Number
  <2>3. /\ number' \in [Numbers -> Number]
        /\ \A m \in Numbers : GoodNumber(number'[m])
        /\ \A v \in Sweep : Follows(v) => Follows(v)'
    BY <1>2, <2>2, OneNumber DEF MayChange
  <2>4. Follows(w)' BY <2>3
  <2>5. QED BY <2>3, <2>4, OneSweepMoves
<1>3. QED BY <1>1, <1>2

LEMMA SweepFields ==
  ASSUME NEW w \in Sweep
  PROVE  /\ w.todo \subseteq Numbers /\ w.at \in Numbers \cup {NoNumber}
         /\ w.cycle \in Nat /\ w.cycle >= 1 /\ w.cycle <= LastCycle + 1
         /\ w.billed \in Nat /\ w.billed <= LastCycle
         /\ w.seen \in [Numbers -> Seen]
         /\ \A n \in Numbers : w.seen[n] \in Seen /\ w.seen[n].age \in -1..LastCycle
                               /\ w.seen[n].suspended \in BOOLEAN
BY RentalConstantsOK DEF Sweep, Seen

\* The next statement for the same number and month.
LEMMA GoesGood ==
  ASSUME NEW w \in Sweep, GoodSweep(w), Follows(w), w.pc \in Busy \ {"restore"},
         NEW p \in Busy \ {"restore"},
         p \in {"balance", "charge"} => w.cycle \in DueDates(w.seen[w.at].age)
  PROVE  /\ [w EXCEPT !.pc = p] \in Sweep
         /\ GoodSweep([w EXCEPT !.pc = p])
         /\ Follows([w EXCEPT !.pc = p])
<1> DEFINE v == [w EXCEPT !.pc = p]
<1>1. v \in Sweep BY DEF Sweep, Busy
<1>2. /\ v.pc = p /\ v.at = w.at /\ v.todo = w.todo /\ v.seen = w.seen
      /\ v.cycle = w.cycle /\ v.billed = w.billed
  BY DEF Sweep
<1> HIDE DEF v
<1>3. GoodSweep(v) BY <1>2 DEF GoodSweep, Busy
<1>4. Follows(v) BY <1>2 DEF Follows
<1>5. QED BY <1>1, <1>3, <1>4 DEF v

\* The next month: billed counts this one or not.
LEMMA CycleGood ==
  ASSUME NEW w \in Sweep, GoodSweep(w), Follows(w),
         w.pc \in {"probe", "balance", "charge", "restore"},
         w.cycle \in DueDates(w.seen[w.at].age)
  PROVE  /\ NextCycle(w) \in Sweep /\ GoodSweep(NextCycle(w)) /\ Follows(NextCycle(w))
         /\ w.pc # "restore" =>
              /\ NextCycle(CountBilled(w)) \in Sweep
              /\ GoodSweep(NextCycle(CountBilled(w)))
              /\ Follows(NextCycle(CountBilled(w)))
<1>1. /\ w.cycle \in Nat /\ w.cycle <= LastCycle /\ w.billed \in Nat /\ w.billed <= w.cycle
      /\ w.pc # "restore" => w.billed < w.cycle
      /\ w.at \in Numbers /\ LastCycle \in Nat /\ w.billed <= LastCycle
      /\ \A k \in 1..w.cycle : k \in DueDates(w.seen[w.at].age)
  <2>1. w.at \in Numbers BY DEF GoodSweep, Busy
  <2>2. w.cycle \in 1..LastCycle BY <2>1, SweepFields, DueMonths
  <2>3. \A k \in 1..w.cycle : k \in 1..(w.cycle - 1) \/ k = w.cycle BY <2>2
  <2>4. \A k \in 1..(w.cycle - 1) : k \in DueDates(w.seen[w.at].age) BY DEF GoodSweep, Busy
  <2>5. /\ w.billed < w.cycle \/ (w.pc = "restore" /\ w.billed <= w.cycle)
    BY DEF GoodSweep, Busy
  <2>6. QED BY <2>1, <2>2, <2>3, <2>4, <2>5, SweepFields, RentalConstantsOK
<1>2. ASSUME NEW b \in {w.billed, w.billed + 1}, b = w.billed \/ w.pc # "restore", NEW v,
             v = [w EXCEPT !.pc = "probe", !.cycle = w.cycle + 1, !.billed = b]
      PROVE  v \in Sweep /\ GoodSweep(v) /\ Follows(v)
  <2>1. b \in 0..LastCycle /\ b < w.cycle + 1 /\ w.cycle + 1 \in 1..(LastCycle + 1) BY <1>1, <1>2
  <2>2. v \in Sweep BY <1>2, <2>1 DEF Sweep
  <2>3. /\ v.pc = "probe" /\ v.at = w.at /\ v.todo = w.todo /\ v.seen = w.seen
        /\ v.cycle = w.cycle + 1 /\ v.billed = b
    BY <1>2 DEF Sweep
  <2>4. v.cycle - 1 = w.cycle BY <1>1, <2>3
  <2>5. GoodSweep(v)
    <3>1. v.billed < v.cycle BY <2>1, <2>3
    <3>2. \A k \in 1..(v.cycle - 1) : k \in DueDates(v.seen[v.at].age) BY <1>1, <2>3, <2>4
    <3>3. v.at \notin v.todo BY <2>3 DEF GoodSweep
    <3>4. QED BY <1>1, <2>3, <3>1, <3>2, <3>3 DEF GoodSweep, Busy
  <2>6. Follows(v) BY <2>3 DEF Follows
  <2>7. QED BY <2>2, <2>5, <2>6
<1>3. NextCycle(w) = [w EXCEPT !.pc = "probe", !.cycle = w.cycle + 1, !.billed = w.billed]
  BY DEF NextCycle, Sweep
<1>4. NextCycle(CountBilled(w)) = [w EXCEPT !.pc = "probe", !.cycle = w.cycle + 1, !.billed = w.billed + 1]
  BY DEF NextCycle, CountBilled, Sweep
<1>5. QED BY <1>2, <1>3, <1>4

LEMMA LeaveGood ==
  ASSUME NEW w \in Sweep, GoodSweep(w), Follows(w), w.pc \in Busy,
         \A n \in Numbers : number[n].age >= -1
  PROVE  /\ LeaveNumber(w) \in Sweep
         /\ GoodSweep(LeaveNumber(w))
         /\ Follows(LeaveNumber(w))
<1> DEFINE v == LeaveNumber(w)
<1>0. w.at \in Numbers /\ 1 \in 1..(LastCycle + 1) /\ 0 \in 0..LastCycle /\ Unseen \in Seen
  BY RentalConstantsOK DEF GoodSweep, Unseen, Seen
<1>1. /\ v.pc = "next" /\ v.at = NoNumber /\ v.todo = w.todo
      /\ v.seen = [w.seen EXCEPT ![w.at] = Unseen] /\ v.cycle = 1 /\ v.billed = 0
  BY DEF LeaveNumber, Sweep
<1>2. v \in Sweep
  <2>1. [w.seen EXCEPT ![w.at] = Unseen] \in [Numbers -> Seen] BY <1>0, SweepFields
  <2>2. v = [w EXCEPT !.pc = "next", !.seen = [w.seen EXCEPT ![w.at] = Unseen],
                      !.at = NoNumber, !.cycle = 1, !.billed = 0]
    BY DEF LeaveNumber, Sweep
  <2> HIDE DEF v
  <2>3. QED BY <1>0, <2>1, <2>2 DEF Sweep
<1> HIDE DEF v
<1>3. NoNumber \notin Numbers /\ w.todo \subseteq Numbers BY RentalConstantsOK, SweepFields
<1>4. GoodSweep(v) BY <1>1, <1>3 DEF GoodSweep, Busy
<1>5. Follows(v)
  <2>1. \A n \in Numbers : v.seen[n] = IF n = w.at THEN Unseen ELSE w.seen[n]
    BY <1>0, <1>1, SweepFields
  <2>2. Unseen.age = -1 BY DEF Unseen
  <2>3. QED BY <1>1, <1>3, <2>1, <2>2 DEF Follows
<1>6. QED BY <1>2, <1>4, <1>5 DEF v


\* A sweep begins, takes its next number, ends or is killed.
LEMMA TurnSound ==
  ASSUME RentalSound, NEW s \in Sweeps,
         StartSweep(s) \/ NextNumber(s) \/ EndSweep(s) \/ KillSweep(s)
  PROVE  RentalSound'
<1> DEFINE b == sweep[s]
<1>1. b \in Sweep /\ GoodSweep(b) /\ Follows(b) BY DEF RentalSound, RentalTypeOK
<1>2. /\ UNCHANGED number /\ rents' = rents /\ rents \subseteq Numbers \X (0..LastCycle)
      /\ amiss' \subseteq Numbers
  <2>1. CASE KillSweep(s)
    <3>1. b.pc = "restore" => b.at \in Numbers BY <1>1 DEF GoodSweep, Busy
    <3>2. amiss \subseteq Numbers BY DEF RentalSound, RentalTypeOK
    <3>3. QED BY <2>1, <3>1, <3>2 DEF KillSweep, RentalSound, RentalTypeOK
  <2>2. QED BY <2>1 DEF StartSweep, NextNumber, EndSweep, OnlySweeps, RentalSound, RentalTypeOK
<1>3. \A n \in Numbers : number[n] \in Number /\ GoodNumber(number[n])
                          /\ number[n].age \in -1..LastCycle
  BY DEF RentalSound, RentalTypeOK, Number
<1>4. Unseen \in Seen /\ Unseen.age = -1 BY RentalConstantsOK DEF Unseen, Seen
<1>5. CASE StartSweep(s)
  <2> DEFINE T == {n \in Numbers : number[n].listed}
             S == [n \in Numbers |-> SeenRow(n)]
  <2>1. b.pc = "idle" /\ sweep' = [sweep EXCEPT ![s] = [b EXCEPT !.pc = "next", !.todo = T, !.seen = S]]
    BY <1>5 DEF StartSweep
  <2>2. \A n \in Numbers : SeenRow(n) \in Seen /\ SeenRow(n).age <= number[n].age
    BY <1>3, <1>4, RentalConstantsOK DEF SeenRow, Seen, Number
  <2>3. S \in [Numbers -> Seen] /\ \A n \in Numbers : S[n].age <= number[n].age BY <2>2
  <2>4. T \subseteq Numbers /\ \A n \in T : number[n].buying \in {"debit", "done"}
    BY <1>3 DEF GoodNumber
  <2>5. NoNumber \notin Numbers BY RentalConstantsOK
  <2> DEFINE w == [b EXCEPT !.pc = "next", !.todo = T, !.seen = S]
  <2> HIDE DEF T, S
  <2>6. w \in Sweep BY <1>1, <2>3, <2>4 DEF Sweep
  <2>7. /\ w.pc = "next" /\ w.todo = T /\ w.seen = S /\ w.at = b.at
        /\ w.cycle = b.cycle /\ w.billed = b.billed
    BY <1>1 DEF Sweep
  <2>8. b.at = NoNumber /\ b.cycle = 1 /\ b.billed = 0 BY <1>1, <2>1 DEF GoodSweep
  <2>9. sweep' = [sweep EXCEPT ![s] = w] BY <2>1
  <2> HIDE DEF w
  <2>10. GoodSweep(w) BY <2>4, <2>5, <2>7, <2>8 DEF GoodSweep, Busy
  <2>11. Follows(w) BY <2>3, <2>4, <2>5, <2>7, <2>8 DEF Follows
  <2>12. QED BY <1>2, <2>6, <2>9, <2>10, <2>11, SweepMoves
<1>6. CASE NextNumber(s)
  <2>1. PICK n \in b.todo :
          sweep' = [sweep EXCEPT ![s] = [b EXCEPT !.pc = "probe", !.todo = b.todo \ {n}, !.at = n]]
    BY <1>6 DEF NextNumber
  <2> DEFINE w == [b EXCEPT !.pc = "probe", !.todo = b.todo \ {n}, !.at = n]
  <2>2. b.pc = "next" /\ b.cycle = 1 /\ b.billed = 0 BY <1>1, <1>6 DEF NextNumber, GoodSweep
  <2>3. n \in Numbers BY <1>1, SweepFields
  <2>4. w \in Sweep BY <1>1, <2>3 DEF Sweep
  <2>5. /\ w.pc = "probe" /\ w.todo = b.todo \ {n} /\ w.seen = b.seen /\ w.at = n
        /\ w.cycle = b.cycle /\ w.billed = b.billed
    BY <1>1 DEF Sweep
  <2>6. sweep' = [sweep EXCEPT ![s] = w] BY <2>1
  <2> HIDE DEF w
  <2>7. GoodSweep(w) BY <2>2, <2>3, <2>5 DEF GoodSweep, Busy
  <2>8. Follows(w) BY <1>1, <2>5 DEF Follows
  <2>9. QED BY <1>2, <2>4, <2>6, <2>7, <2>8, SweepMoves
<1>7. CASE EndSweep(s) \/ KillSweep(s)
  <2>1. sweep' = [sweep EXCEPT ![s] = Resting] BY <1>7 DEF EndSweep, KillSweep
  <2>2. Resting \in Sweep BY <1>4, RentalConstantsOK DEF Resting, Sweep
  <2>3. GoodSweep(Resting) BY DEF Resting, GoodSweep, Busy
  <2>4. Follows(Resting) BY <1>3, <1>4, RentalConstantsOK DEF Resting, Follows
  <2>5. QED BY <1>2, <2>1, <2>2, <2>3, <2>4, SweepMoves
<1>8. QED BY <1>5, <1>6, <1>7


\* A step that leaves the numbers alone.
LEMMA OnlySweepSound ==
  ASSUME RentalSound, NEW s \in Sweeps, NEW w \in Sweep, GoodSweep(w), Follows(w),
         sweep' = [sweep EXCEPT ![s] = w], UNCHANGED <<number, rents>>,
         UNCHANGED amiss \/ amiss' = amiss \cup {sweep[s].at}, sweep[s].at \in Numbers
  PROVE  RentalSound'
<1>1. rents' \subseteq Numbers \X (0..LastCycle) /\ amiss' \subseteq Numbers
  BY DEF RentalSound, RentalTypeOK
<1>2. QED BY <1>1, SweepMoves

LEMMA GoesTo ==
  ASSUME NEW s \in Sweeps, NEW p, sweep \in [Sweeps -> Sweep]
  PROVE  GoTo(s, p) = [sweep EXCEPT ![s] = [sweep[s] EXCEPT !.pc = p]]
BY DEF GoTo

LEMMA MonthIn ==
  ASSUME RentalSound, NEW s \in Sweeps, sweep[s].pc \in {"balance", "charge", "restore"}
  PROVE  Month(s) \in Numbers \X (0..LastCycle) /\ sweep[s].at \in Numbers /\ Month(s) \in RentDue
<1> DEFINE b == sweep[s]
<1>1. b \in Sweep /\ GoodSweep(b) /\ Follows(b) BY DEF RentalSound, RentalTypeOK
<1>2. b.at \in Numbers /\ b.cycle \in DueDates(b.seen[b.at].age) BY <1>1 DEF GoodSweep, Busy
<1>3. b.cycle \in 1..LastCycle /\ b.cycle \in 1..b.seen[b.at].age
  BY <1>1, <1>2, SweepFields, DueMonths
<1>4. b.seen[b.at].age <= number[b.at].age BY <1>1, <1>2 DEF Follows
<1>5. /\ b.seen[b.at].age \in Int /\ number[b.at].age \in Int /\ LastCycle \in Nat
  BY <1>1, <1>2, SweepFields, RentalConstantsOK DEF RentalSound, RentalTypeOK, Number
<1>6. b.cycle \in 0..LastCycle /\ b.cycle <= number[b.at].age BY <1>3, <1>4, <1>5
<1>7. QED BY <1>2, <1>6 DEF Month, RentDue

\* The loop over the months of one number.
LEMMA MonthSound ==
  ASSUME RentalSound, NEW s \in Sweeps,
         Probe(s) \/ ReadBalance(s) \/ Charge(s) \/ Restore(s)
  PROVE  RentalSound'
<1> DEFINE b == sweep[s]
<1>1. b \in Sweep /\ GoodSweep(b) /\ Follows(b) /\ sweep \in [Sweeps -> Sweep]
  BY DEF RentalSound, RentalTypeOK
<1>2. b.pc \in {"probe", "balance", "charge", "restore"} BY DEF Probe, ReadBalance, Charge, Restore
<1>3. b.at \in Numbers BY <1>1, <1>2 DEF GoodSweep, Busy
<1>4. rents \subseteq Numbers \X (0..LastCycle) /\ amiss \subseteq Numbers
  BY DEF RentalSound, RentalTypeOK
<1>5. CASE Probe(s)
  <2>1. UNCHANGED <<number, rents, amiss>> /\ b.pc = "probe" BY <1>5 DEF Probe, OnlySweeps
  <2>2. CASE sweep' = GoTo(s, "ladder")
    BY <1>1, <1>3, <2>1, <2>2, GoesTo, GoesGood, OnlySweepSound DEF Busy
  <2>3. CASE b.cycle \in DueDates(Read(s).age) /\ sweep' = GoTo(s, "balance")
    BY <1>1, <1>3, <2>1, <2>3, GoesTo, GoesGood, OnlySweepSound DEF Busy, Read
  <2>4. CASE /\ b.cycle \in DueDates(Read(s).age)
             /\ sweep' = [sweep EXCEPT ![s] = NextCycle(CountBilled(@))]
    BY <1>1, <1>3, <2>1, <2>4, CycleGood, OnlySweepSound DEF Read
  <2>5. QED BY <1>5, <2>2, <2>3, <2>4 DEF Probe
<1>6. CASE ReadBalance(s)
  <2>1. UNCHANGED <<number, rents, amiss>> /\ b.pc = "balance" BY <1>6 DEF ReadBalance, OnlySweeps
  <2>2. b.cycle \in DueDates(b.seen[b.at].age) BY <1>1, <2>1 DEF GoodSweep
  <2>3. PICK p \in {"ladder", "charge"} : sweep' = GoTo(s, p) BY <1>6 DEF ReadBalance
  <2>4. QED BY <1>1, <1>3, <2>1, <2>2, <2>3, GoesTo, GoesGood, OnlySweepSound DEF Busy
<1>7. CASE Charge(s)
  <2>1. b.pc = "charge" /\ UNCHANGED number /\ amiss' \subseteq Numbers
    BY <1>3, <1>4, <1>7 DEF Charge
  <2>2. b.cycle \in DueDates(b.seen[b.at].age) BY <1>1, <2>1 DEF GoodSweep
  <2>3. rents' \subseteq Numbers \X (0..LastCycle)
    BY <1>4, <1>7, <2>1, MonthIn DEF Charge, DebitRent
  <2>4. CASE sweep' = [sweep EXCEPT ![s] = NextCycle(@)]
    BY <1>1, <2>1, <2>2, <2>3, <2>4, CycleGood, SweepMoves
  <2>5. CASE sweep' = [sweep EXCEPT ![s] = NextCycle(CountBilled(@))]
    BY <1>1, <2>1, <2>2, <2>3, <2>5, CycleGood, SweepMoves
  <2>6. CASE sweep' = [sweep EXCEPT ![s] = [CountBilled(@) EXCEPT !.pc = "restore"]]
    <3> DEFINE w == [b EXCEPT !.pc = "restore", !.billed = b.billed + 1]
    <3>1. sweep' = [sweep EXCEPT ![s] = w] BY <2>6 DEF CountBilled
    <3>2. /\ w.pc = "restore" /\ w.at = b.at /\ w.todo = b.todo /\ w.seen = b.seen
          /\ w.cycle = b.cycle /\ w.billed = b.billed + 1
      BY <1>1 DEF Sweep
    <3>3. b.billed < b.cycle BY <1>1, <2>1 DEF GoodSweep, Busy
    <3>4. b.cycle \in 1..LastCycle BY <1>1, <1>3, <2>2, SweepFields, DueMonths
    <3>5. b.billed + 1 <= b.cycle /\ b.billed + 1 \in 0..LastCycle
      BY <1>1, <3>3, <3>4, SweepFields, RentalConstantsOK
    <3>6. w \in Sweep BY <1>1, <3>5 DEF Sweep
    <3> HIDE DEF w
    <3>7. GoodSweep(w)
      <4>1. \A k \in 1..(b.cycle - 1) : k \in DueDates(b.seen[b.at].age)
        BY <1>1, <2>1 DEF GoodSweep, Busy
      <4>2. b.at \notin b.todo BY <1>1 DEF GoodSweep
      <4>3. QED BY <1>3, <2>2, <3>2, <3>5, <4>1, <4>2 DEF GoodSweep, Busy
    <3>8. Follows(w) BY <1>1, <3>2 DEF Follows
    <3>9. QED BY <2>1, <2>3, <3>1, <3>6, <3>7, <3>8, SweepMoves
  <2>7. QED BY <1>7, <2>4, <2>5, <2>6 DEF Charge
<1>8. CASE Restore(s)
  <2>1. b.pc = "restore" /\ rents' = rents /\ amiss' \subseteq Numbers
    BY <1>3, <1>4, <1>8 DEF Restore
  <2>2. b.cycle \in DueDates(b.seen[b.at].age) BY <1>1, <2>1 DEF GoodSweep
  <2> DEFINE v == NextCycle(b)
  <2>3. v \in Sweep /\ GoodSweep(v) /\ Follows(v) BY <1>1, <2>1, <2>2, CycleGood
  <2>4. CASE UNCHANGED number /\ sweep' = [sweep EXCEPT ![s] = NextCycle(@)]
    BY <1>4, <2>1, <2>3, <2>4, SweepMoves
  <2>5. CASE /\ number' = [number EXCEPT ![b.at].suspended = FALSE]
             /\ sweep' = [sweep EXCEPT ![s] = [v EXCEPT !.seen[b.at].suspended = FALSE]]
    <3> DEFINE w == [v EXCEPT !.seen[b.at].suspended = FALSE]
               r == [number[b.at] EXCEPT !.suspended = FALSE]
    <3>0. v.at = b.at BY <1>1 DEF NextCycle, Sweep
    <3> HIDE DEF v
    <3>1. /\ w.pc = v.pc /\ w.at = v.at /\ w.todo = v.todo /\ w.cycle = v.cycle /\ w.billed = v.billed
          /\ w.seen = [v.seen EXCEPT ![b.at].suspended = FALSE]
      BY <2>3 DEF Sweep
    <3>2. w.seen \in [Numbers -> Seen] /\ \A n \in Numbers : w.seen[n].age = v.seen[n].age
      <4> DEFINE x == [v.seen[b.at] EXCEPT !.suspended = FALSE]
      <4>1. v.seen \in [Numbers -> Seen] BY <2>3, SweepFields
      <4>2. x \in Seen /\ x.age = v.seen[b.at].age BY <1>3, <4>1 DEF Seen
      <4>3. w.seen = [v.seen EXCEPT ![b.at] = x] BY <3>1
      <4> HIDE DEF x
      <4>4. QED BY <1>3, <4>1, <4>2, <4>3
    <3>3. w \in Sweep
      <4>1. w = [v EXCEPT !.seen = [v.seen EXCEPT ![b.at].suspended = FALSE]] OBVIOUS
      <4>2. QED BY <2>3, <3>1, <3>2, <4>1 DEF Sweep
    <3> HIDE DEF w
    <3>4. GoodSweep(w)
      BY <1>3, <2>3, <3>0, <3>1, <3>2 DEF GoodSweep
    <3>5. Follows(w) BY <2>3, <3>1, <3>2 DEF Follows
    <3>6. number[b.at] \in Number /\ GoodNumber(number[b.at]) BY <1>3 DEF RentalSound, RentalTypeOK
    <3>7. MayChange(b.at, r)
      <4>1. number' = [number EXCEPT ![b.at] = r] BY <2>5
      <4>2. r \in Number BY <3>6 DEF Number
      <4>3. GoodNumber(r) BY <3>6 DEF Number, GoodNumber
      <4>4. r.age = number[b.at].age /\ r.buying = number[b.at].buying BY <3>6 DEF Number
      <4>5. QED BY <4>1, <4>2, <4>3, <4>4 DEF MayChange
    <3>8. sweep' = [sweep EXCEPT ![s] = w] BY <2>5 DEF w
    <3>9. QED BY <1>3, <1>4, <2>1, <3>3, <3>4, <3>5, <3>7, <3>8, SweepMoves
  <2>6. QED BY <1>8, <2>4, <2>5 DEF Restore
<1>9. QED BY <1>5, <1>6, <1>7, <1>8


\* The rung a sweep takes, and the number that is given back.
LEMMA LadderSound ==
  ASSUME RentalSound, NEW s \in Sweeps,
         \/ Suspend(s) \/ StayOnRung(s) \/ Release(s) \/ RungFails(s)
         \/ ReleaseNumber(s) \/ DropNumber(s)
  PROVE  RentalSound'
<1> DEFINE b == sweep[s]
           n == b.at
<1>1. b \in Sweep /\ GoodSweep(b) /\ Follows(b) /\ sweep \in [Sweeps -> Sweep]
  BY DEF RentalSound, RentalTypeOK
<1>2. b.pc \in {"ladder", "release", "drop"}
  BY DEF Climbs, Suspend, StayOnRung, Release, RungFails, ReleaseNumber, DropNumber
<1>3. n \in Numbers BY <1>1, <1>2 DEF GoodSweep, Busy
<1>4. rents' = rents /\ rents \subseteq Numbers \X (0..LastCycle) /\ amiss' \subseteq Numbers
  BY <1>3 DEF RentalSound, RentalTypeOK, Climbs, Suspend, StayOnRung, Release, RungFails,
       ReleaseNumber, DropNumber
<1>5. LeaveNumber(b) \in Sweep /\ GoodSweep(LeaveNumber(b)) /\ Follows(LeaveNumber(b))
  <2>1. \A m \in Numbers : number[m].age >= -1
    BY RentalConstantsOK DEF RentalSound, RentalTypeOK, Number
  <2>2. QED BY <1>1, <1>2, <2>1, LeaveGood DEF Busy
<1>6. number[n] \in Number /\ GoodNumber(number[n]) BY <1>3 DEF RentalSound, RentalTypeOK
<1>7. ASSUME NEW p \in {"release", "drop"}, sweep' = GoTo(s, p),
             UNCHANGED number \/ \E r : MayChange(n, r)
      PROVE  RentalSound'
  BY <1>1, <1>2, <1>3, <1>4, <1>7, GoesTo, GoesGood, SweepMoves DEF Busy
<1>8. ASSUME Leaves(s), UNCHANGED number \/ \E r : MayChange(n, r) PROVE RentalSound'
  BY <1>3, <1>4, <1>5, <1>8, SweepMoves DEF Leaves
<1>9. CASE StayOnRung(s) \/ RungFails(s) BY <1>8, <1>9 DEF StayOnRung, RungFails
<1>10. CASE Release(s) BY <1>7, <1>10 DEF Release
<1>11. CASE Suspend(s)
  <2>1. CASE number[n].listed
    <3> DEFINE r == [number[n] EXCEPT !.suspended = TRUE]
    <3>1. number' = [number EXCEPT ![n] = r] BY <1>6, <1>11, <2>1 DEF Suspend, Number
    <3>2. r \in Number BY <1>6 DEF Number
    <3>3. GoodNumber(r) BY <1>6, <2>1 DEF Number, GoodNumber
    <3>4. r.age = number[n].age /\ r.buying = number[n].buying BY <1>6 DEF Number
    <3>5. MayChange(n, r) BY <3>1, <3>2, <3>3, <3>4 DEF MayChange
    <3>6. QED BY <1>8, <1>11, <3>5 DEF Suspend
  <2>2. CASE ~number[n].listed
    <3> DEFINE r == [number[n] EXCEPT !.suspended = FALSE]
    <3>1. number' = [number EXCEPT ![n] = r] BY <1>6, <1>11, <2>2 DEF Suspend, Number
    <3>2. r \in Number BY <1>6 DEF Number
    <3>3. GoodNumber(r) BY <1>6 DEF Number, GoodNumber
    <3>4. r.age = number[n].age /\ r.buying = number[n].buying BY <1>6 DEF Number
    <3>5. MayChange(n, r) BY <3>1, <3>2, <3>3, <3>4 DEF MayChange
    <3>6. QED BY <1>8, <1>11, <3>5 DEF Suspend
  <2>3. QED BY <2>1, <2>2
<1>12. CASE ReleaseNumber(s)
  <2>1. CASE Leaves(s) /\ UNCHANGED number BY <1>8, <2>1
  <2>2. CASE sweep' = GoTo(s, "drop") /\ number' = [number EXCEPT ![n].held = FALSE]
    <3> DEFINE r == [number[n] EXCEPT !.held = FALSE]
    <3>1. number' = [number EXCEPT ![n] = r] BY <2>2
    <3>2. r \in Number BY <1>6 DEF Number
    <3>3. GoodNumber(r) BY <1>6 DEF Number, GoodNumber
    <3>4. r.age = number[n].age /\ r.buying = number[n].buying BY <1>6 DEF Number
    <3>5. MayChange(n, r) BY <3>1, <3>2, <3>3, <3>4 DEF MayChange
    <3>6. QED BY <1>7, <2>2, <3>5
  <2>3. QED BY <1>12, <2>1, <2>2 DEF ReleaseNumber
<1>13. CASE DropNumber(s)
  <2>1. PICK failed \in BOOLEAN :
          number' = IF failed THEN number ELSE [number EXCEPT ![n] = Unlisted(@)]
    BY <1>13 DEF DropNumber, Fails
  <2>2. CASE failed BY <1>8, <1>13, <2>1, <2>2 DEF DropNumber
  <2>3. CASE ~failed
    <3> DEFINE r == [number[n] EXCEPT !.listed = FALSE, !.suspended = FALSE]
    <3>1. number' = [number EXCEPT ![n] = r] BY <2>1, <2>3 DEF Unlisted
    <3>2. r \in Number BY <1>6 DEF Number
    <3>3. GoodNumber(r) BY <1>6 DEF Number, GoodNumber
    <3>4. r.age = number[n].age /\ r.buying = number[n].buying BY <1>6 DEF Number
    <3>5. MayChange(n, r) BY <3>1, <3>2, <3>3, <3>4 DEF MayChange
    <3>6. QED BY <1>8, <1>13, <3>5 DEF DropNumber
  <2>4. QED BY <2>2, <2>3
<1>14. QED BY <1>9, <1>10, <1>11, <1>12, <1>13

LEMMA RentalStepSound == ASSUME RentalSound, RentalStep PROVE RentalSound'
BY NumberSound, TurnSound, MonthSound, LadderSound DEF RentalStep, NumberStep

\* Whatever else the workspace does leaves the numbers alone.
LEMMA RentalKept == ASSUME RentalSound, UNCHANGED rentalVars PROVE RentalSound'
BY DEF rentalVars, RentalSound, RentalTypeOK, Follows

-----------------------------------------------------------------------------
(* What numbers do to the account.                                         *)

\* A number's steps use months and charge one that is due, at the most.
LEMMA RentalDebits ==
  ASSUME RentalSound, RentalStep
  PROVE  /\ RentDue \subseteq RentDue'
         /\ \/ UNCHANGED <<rents, credits>>
            \/ RentDue' = RentDue /\ \E k \in RentDue : DebitRent(k)
<1>1. number \in [Numbers -> Number] /\ number' \in [Numbers -> Number]
      /\ \A n \in Numbers : number[n].age \in Int /\ number'[n].age \in Int
  BY RentalStepSound, RentalConstantsOK DEF RentalSound, RentalTypeOK, Number
<1>2. ASSUME NEW n \in Numbers, NumberStep(n)
      PROVE  /\ \A m \in Numbers : number[m].age <= number'[m].age
             /\ \/ UNCHANGED <<rents, credits>>
                \/ (\A m \in Numbers : number'[m].age = number[m].age) /\ DebitRent(<<n, 0>>) /\ <<n, 0>> \in RentDue
  <2>1. \A m \in Numbers : number[m].age <= number'[m].age
    <3>1. PICK r \in Number : number' = [number EXCEPT ![n] = r] /\ r.age >= number[n].age
      BY <1>2, NumberMoves
    <3>2. QED BY <1>1, <3>1
  <2>2. CASE ChargePurchase(n)
    <3>1. \A m \in Numbers : number'[m].age = number[m].age
      BY <1>1, <2>2 DEF ChargePurchase, Number
    <3>2. number[n].age >= 0 BY <2>2 DEF ChargePurchase, RentalSound, GoodNumber
    <3>3. <<n, 0>> \in RentDue BY <1>1, <3>2, RentalConstantsOK DEF RentDue
    <3>4. QED BY <2>1, <2>2, <3>1, <3>3 DEF ChargePurchase
  <2>3. CASE ~ChargePurchase(n)
    BY <1>2, <2>1, <2>3 DEF NumberStep, Purchase, InsertNumber, PurchaseFails, MonthPasses,
       RemoveNumber, TwilioRemoves, DeleteNumber, OnlyNumbers
  <2>4. QED BY <2>2, <2>3
<1>3. ASSUME NEW s \in Sweeps, Charge(s)
      PROVE  UNCHANGED number /\ (UNCHANGED <<rents, credits>> \/ (DebitRent(Month(s)) /\ Month(s) \in RentDue))
  BY <1>3, MonthIn DEF Charge
<1>4. ASSUME NEW s \in Sweeps,
             \/ StartSweep(s) \/ NextNumber(s) \/ EndSweep(s) \/ Probe(s) \/ ReadBalance(s)
             \/ Restore(s) \/ Suspend(s) \/ StayOnRung(s) \/ Release(s) \/ RungFails(s)
             \/ ReleaseNumber(s) \/ DropNumber(s) \/ KillSweep(s)
      PROVE  /\ UNCHANGED <<rents, credits>>
             /\ \A m \in Numbers : number'[m].age = number[m].age
  <2>1. UNCHANGED <<rents, credits>>
    BY <1>4, ZenonT(60) DEF StartSweep, NextNumber, EndSweep, Probe, ReadBalance, Restore, Suspend, StayOnRung,
       Release, RungFails, ReleaseNumber, DropNumber, KillSweep, OnlySweeps, Climbs
  <2>2. \/ UNCHANGED number
        \/ number' = [number EXCEPT ![sweep[s].at].suspended = FALSE]
        \/ number' = [number EXCEPT ![sweep[s].at].suspended = number[sweep[s].at].listed]
        \/ number' = [number EXCEPT ![sweep[s].at].held = FALSE]
        \/ number' = [number EXCEPT ![sweep[s].at] = Unlisted(@)]
    BY <1>4 DEF StartSweep, NextNumber, EndSweep, Probe, ReadBalance, Restore, Suspend, StayOnRung,
       Release, RungFails, ReleaseNumber, DropNumber, KillSweep, OnlySweeps, Climbs
  <2>3. ASSUME NEW m \in Numbers PROVE number'[m].age = number[m].age
    <3> DEFINE at == sweep[s].at
    <3>1. number[m] \in Number /\ number \in [Numbers -> Number] BY <1>1
    <3>2. CASE UNCHANGED number
      BY <3>2
    <3>3. ASSUME NEW x, number' = [number EXCEPT ![at].suspended = x]
          PROVE  number'[m].age = number[m].age
      BY <3>1, <3>3 DEF Number
    <3>4. CASE number' = [number EXCEPT ![at].held = FALSE]
      BY <3>1, <3>4 DEF Number
    <3>5. CASE number' = [number EXCEPT ![at] = Unlisted(@)]
      BY <3>1, <3>5 DEF Number, Unlisted
    <3>6. QED BY <2>2, <3>2, <3>3, <3>4, <3>5
  <2>4. QED BY <2>1, <2>3
<1>5. (\A m \in Numbers : number[m].age <= number'[m].age) => RentDue \subseteq RentDue'
  BY <1>1 DEF RentDue
<1>6. (\A m \in Numbers : number[m].age = number'[m].age) => RentDue = RentDue'
  BY DEF RentDue
<1>7. CASE \E n \in Numbers : NumberStep(n)
  BY <1>2, <1>5, <1>6, <1>7
<1>8. CASE \E s \in Sweeps : Charge(s)
  BY <1>3, <1>6, <1>8
<1>9. CASE \E s \in Sweeps :
             \/ StartSweep(s) \/ NextNumber(s) \/ EndSweep(s) \/ Probe(s) \/ ReadBalance(s)
             \/ Restore(s) \/ Suspend(s) \/ StayOnRung(s) \/ Release(s) \/ RungFails(s)
             \/ ReleaseNumber(s) \/ DropNumber(s) \/ KillSweep(s)
  BY <1>4, <1>6, <1>9
<1>10. QED BY <1>7, <1>8, <1>9 DEF RentalStep, NumberStep
-----------------------------------------------------------------------------
(* What a sweep knows of the number it has in hand, while there is one     *)
(* sweep at a time: nothing, of a number that went amiss.                  *)

OneSweep == \A s, t \in Sweeps : s = t

\* Months are paid in their order, since the loop ends at the first it cannot pay.
PaidInOrder ==
  \A n \in Numbers \ amiss, k \in 1..LastCycle, j \in 1..LastCycle :
    j <= k /\ <<n, k>> \in rents => <<n, j>> \in rents

\* billed is the number of months that are paid, so subtraction counts those that are not.
Counted(w) ==
  w.at \in Numbers \ amiss =>
    /\ w.pc \in {"probe", "balance", "charge"} =>
         w.billed = w.cycle - 1 /\ \A j \in 1..(w.cycle - 1) : <<w.at, j>> \in rents
    /\ w.pc = "restore" => w.billed = w.cycle /\ \A j \in 1..w.cycle : <<w.at, j>> \in rents
    /\ w.pc \in {"balance", "charge"} => <<w.at, w.cycle>> \notin rents
    /\ w.pc \in {"ladder", "release", "drop"} =>
         \A k \in DueDates(w.seen[w.at].age) : <<w.at, k>> \in rents <=> k <= w.billed

\* The suspension a sweep read is still the row's.
Agrees(w) ==
  \A n \in Numbers :
    (n \in w.todo \/ n = w.at) /\ number[n].listed => number[n].suspended = w.seen[n].suspended

\* A number on its way out stood suspended and three months behind.
Sentenced(w) ==
  w.pc \in {"release", "drop"} =>
    /\ w.seen[w.at].suspended
    /\ Cardinality(DueDates(w.seen[w.at].age)) - w.billed >= 3
    /\ w.pc = "release" /\ number[w.at].held => number[w.at].listed

Restoring(n) == \E s \in Sweeps : sweep[s].at = n /\ sweep[s].pc = "restore"
InDebt ==
  \A n \in Numbers \ amiss :
    number[n].suspended /\ ~Restoring(n) => Owed(n, number[n].age) # {}

SweepLaw(s) == Counted(sweep[s]) /\ Agrees(sweep[s]) /\ Sentenced(sweep[s])
RentalLaw == PaidInOrder /\ InDebt /\ \A s \in Sweeps : SweepLaw(s)

LEMMA LawInit == RentalInit => RentalLaw
<1> SUFFICES ASSUME RentalInit PROVE RentalLaw
  OBVIOUS
<1>1. NoNumber \notin Numbers BY RentalConstantsOK
<1>2. PaidInOrder BY DEF RentalInit, PaidInOrder
<1>3. InDebt BY DEF RentalInit, InDebt, OnOffer
<1>4. ASSUME NEW s \in Sweeps PROVE SweepLaw(s)
  <2>1. sweep[s] = Resting BY DEF RentalInit
  <2>2. Counted(Resting) /\ Agrees(Resting) /\ Sentenced(Resting)
    BY <1>1 DEF Resting, Counted, Agrees, Sentenced
  <2>3. QED BY <2>1, <2>2 DEF SweepLaw
<1>5. QED BY <1>2, <1>3, <1>4 DEF RentalLaw

\* The months due by an age are the first so many.
LEMMA DueCount ==
  ASSUME NEW a \in -1..LastCycle
  PROVE  \E m \in 0..LastCycle : DueDates(a) = 1..m /\ Cardinality(DueDates(a)) = m
<1>1. PICK m \in 0..LastCycle : DueDates(a) = 1..m
  <2> DEFINE m == IF a < MaxCatchUp THEN a ELSE MaxCatchUp
  <2>1. LastCycle \in Nat /\ MaxCatchUp \in Nat BY RentalConstantsOK
  <2>2. CASE m = -1
    <3>1. 1..(-1) = 1..0 OBVIOUS
    <3>2. QED BY <2>1, <2>2, <3>1 DEF DueDates
  <2>3. CASE m # -1
    <3>1. m \in 0..LastCycle BY <2>1, <2>3
    <3>2. QED BY <3>1 DEF DueDates
  <2>4. QED BY <2>2, <2>3
<1>2. Cardinality(1..m) = m BY <1>1, FS_Interval
<1>3. QED BY <1>1, <1>2

\* What the ladder subtracts is what is owed, by what was read.
LEMMA OwedCount ==
  ASSUME NEW w \in Sweep, GoodSweep(w), Counted(w), w.at \in Numbers \ amiss,
         w.pc \in {"ladder", "release", "drop"}
  PROVE  /\ Cardinality(Owed(w.at, w.seen[w.at].age))
              = Cardinality(DueDates(w.seen[w.at].age)) - w.billed
         /\ IsFiniteSet(Owed(w.at, w.seen[w.at].age))
<1> DEFINE a == w.seen[w.at].age
           b == w.billed
<1>1. PICK m \in 0..LastCycle : DueDates(a) = 1..m /\ Cardinality(DueDates(a)) = m
  BY DueCount, SweepFields
<1>2. LastCycle \in Nat /\ b \in Nat /\ w.cycle \in Nat /\ w.cycle >= 1
  BY RentalConstantsOK, SweepFields
<1>3. b < w.cycle /\ \A k \in 1..(w.cycle - 1) : k \in 1..m
  BY <1>1 DEF GoodSweep, Busy
<1>4. b <= m
  <2>1. CASE b = 0 BY <1>1, <2>1
  <2>2. CASE b # 0 BY <1>1, <1>2, <1>3, <2>2
  <2>3. QED BY <2>1, <2>2
<1>5. \A k \in DueDates(a) : <<w.at, k>> \in rents <=> k <= b BY DEF Counted
<1> HIDE DEF a, b
<1>6. {k \in DueDates(a) : <<w.at, k>> \notin rents} = (b + 1)..m
  <2>1. {k \in DueDates(a) : <<w.at, k>> \notin rents} = {k \in 1..m : ~(k <= b)}
    BY <1>1, <1>5
  <2>2. {k \in 1..m : ~(k <= b)} = (b + 1)..m BY <1>1, <1>2
  <2>3. QED BY <2>1, <2>2
<1>7. Cardinality((b + 1)..m) = m - b /\ IsFiniteSet((b + 1)..m)
  <2>1. b + 1 \in Int /\ m \in Int BY <1>1, <1>2
  <2>2. /\ IsFiniteSet((b + 1)..m)
        /\ Cardinality((b + 1)..m) = IF b + 1 > m THEN 0 ELSE m - (b + 1) + 1
    BY <2>1, FS_Interval
  <2>3. QED BY <1>2, <1>4, <2>1, <2>2
<1>8. QED BY <1>1, <1>6, <1>7 DEF Owed, a, b

\* The months owed by what was read are owed by now.
LEMMA OwedGrows ==
  ASSUME NEW n \in Numbers, NEW a \in -1..LastCycle, NEW b \in -1..a
  PROVE  /\ Owed(n, b) \subseteq Owed(n, a)
         /\ IsFiniteSet(Owed(n, a)) /\ IsFiniteSet(Owed(n, b))
         /\ Cardinality(Owed(n, b)) <= Cardinality(Owed(n, a))
<1>1. b \in -1..LastCycle BY RentalConstantsOK
<1>2. Owed(n, b) \subseteq Owed(n, a) BY DueMonths DEF Owed
<1>3. Owed(n, a) \subseteq 1..LastCycle BY DueMonths DEF Owed
<1>4. IsFiniteSet(1..LastCycle) BY RentalConstantsOK, FS_Interval
<1>5. IsFiniteSet(Owed(n, a)) BY <1>3, <1>4, FS_Subset
<1>6. QED BY <1>2, <1>5, FS_Subset

\* What the law asks of a step of the sweep.
LEMMA LawKept ==
  ASSUME OneSweep, NEW s \in Sweeps, PaidInOrder', InDebt', SweepLaw(s)'
  PROVE  RentalLaw'
BY DEF RentalLaw, OneSweep

LEMMA SweepOf ==
  ASSUME RentalSound, NEW s \in Sweeps
  PROVE  /\ sweep[s] \in Sweep /\ GoodSweep(sweep[s]) /\ Follows(sweep[s])
         /\ sweep \in [Sweeps -> Sweep] /\ number \in [Numbers -> Number]
         /\ \A n \in Numbers : number[n] \in Number /\ GoodNumber(number[n])
                               /\ number[n].age \in -1..LastCycle
         /\ rents \subseteq Numbers \X (0..LastCycle)
BY DEF RentalSound, RentalTypeOK, Number

\* What a purchase, a month or a removal changes of a number.
Spares(e, f) ==
  /\ f.suspended => e.suspended
  /\ e.age <= f.age /\ f.age \in -1..LastCycle
  /\ e.buying \in {"debit", "done"} =>
       /\ f.listed => e.listed /\ f.suspended = e.suspended
       /\ f.held => e.held /\ (e.listed => f.listed)

LEMMA NumberSpares ==
  ASSUME RentalSound, NEW n \in Numbers, NumberStep(n)
  PROVE  /\ \A m \in Numbers : Spares(number[m], number'[m])
         /\ UNCHANGED <<sweep, amiss>> /\ (UNCHANGED rents \/ rents' = rents \cup {<<n, 0>>})
<1> DEFINE e == number[n]
<1>1. /\ number \in [Numbers -> Number] /\ LastCycle \in Nat
      /\ \A m \in Numbers : number[m].age \in -1..LastCycle /\ GoodNumber(number[m])
      /\ e \in Number
  BY RentalConstantsOK DEF RentalSound, RentalTypeOK, Number
<1>2. UNCHANGED <<sweep, amiss>> /\ (UNCHANGED rents \/ rents' = rents \cup {<<n, 0>>})
  BY DEF NumberStep, Purchase, InsertNumber, ChargePurchase, PurchaseFails, MonthPasses,
     RemoveNumber, TwilioRemoves, DeleteNumber, OnlyNumbers, DebitRent
<1>3. PICK f \in Number : number' = [number EXCEPT ![n] = f] /\ e.age <= f.age
  BY <1>1, NumberMoves, RentalConstantsOK DEF Number
<1>4. Spares(e, number'[n])
  <2>1. f.age \in -1..LastCycle /\ number'[n] = f BY <1>1, <1>3 DEF Number
  <2>2. CASE Purchase(n)
    BY <1>1, <1>3, <2>1, <2>2 DEF Purchase, Spares, Number
  <2>3. CASE InsertNumber(n)
    BY <1>1, <1>3, <2>1, <2>3 DEF InsertNumber, Spares, Number
  <2>4. CASE ChargePurchase(n) \/ PurchaseFails(n)
    BY <1>1, <1>3, <2>1, <2>4 DEF ChargePurchase, PurchaseFails, Spares, Number
  <2>5. CASE MonthPasses(n)
    BY <1>1, <1>3, <2>1, <2>5 DEF MonthPasses, Spares, Number
  <2>6. CASE RemoveNumber(n)
    BY <1>1, <1>3, <2>1, <2>6 DEF RemoveNumber, Spares, Number
  <2>7. CASE TwilioRemoves(n)
    BY <1>1, <1>3, <2>1, <2>7 DEF TwilioRemoves, Spares, Number
  <2>8. CASE DeleteNumber(n)
    <3>1. ~e.held BY <1>1, <2>8 DEF DeleteNumber, GoodNumber
    <3>2. PICK failed \in BOOLEAN :
            number' = [number EXCEPT ![n] = [IF failed THEN e ELSE Unlisted(e) EXCEPT !.removing = "no"]]
      BY <2>8 DEF DeleteNumber, Fails
    <3>3. CASE failed BY <1>1, <1>3, <2>1, <3>2, <3>3 DEF Spares, Number
    <3>4. CASE ~failed
      <4>1. number'[n] = [e EXCEPT !.listed = FALSE, !.suspended = FALSE, !.removing = "no"]
        BY <1>1, <3>2, <3>4 DEF Unlisted
      <4>2. ~number'[n].listed /\ ~number'[n].suspended /\ number'[n].held = e.held
        BY <1>1, <4>1 DEF Number
      <4>3. e.age <= number'[n].age /\ number'[n].age \in -1..LastCycle BY <1>3, <2>1
      <4>4. QED BY <3>1, <4>2, <4>3 DEF Spares
    <3>5. QED BY <3>3, <3>4
  <2>9. QED BY <2>2, <2>3, <2>4, <2>5, <2>6, <2>7, <2>8 DEF NumberStep
<1>5. ASSUME NEW m \in Numbers, m # n PROVE Spares(number[m], number'[m])
  BY <1>1, <1>3, <1>5 DEF Spares
<1>6. QED BY <1>2, <1>4, <1>5

LEMMA LawByNumber ==
  ASSUME RentalSound, RentalLaw, NEW n \in Numbers, NumberStep(n)
  PROVE  RentalLaw'
<1>1. /\ \A m \in Numbers : Spares(number[m], number'[m])
      /\ UNCHANGED <<sweep, amiss>> /\ (UNCHANGED rents \/ rents' = rents \cup {<<n, 0>>})
  BY NumberSpares
<1>2. \A m \in Numbers, k \in Int : k >= 1 => (<<m, k>> \in rents' <=> <<m, k>> \in rents)
  BY <1>1
<1>3. PaidInOrder'
  BY <1>1, <1>2, RentalConstantsOK DEF PaidInOrder, RentalLaw
<1>4. InDebt'
  <2> SUFFICES ASSUME NEW m \in Numbers \ amiss', number'[m].suspended, ~Restoring(m)'
               PROVE  Owed(m, number[m].age)' # {}
    BY DEF InDebt
  <2>1. number[m].suspended /\ ~Restoring(m) /\ m \notin amiss
    BY <1>1 DEF Spares, Restoring
  <2>2. Owed(m, number[m].age) # {} BY <2>1 DEF RentalLaw, InDebt
  <2>3. number[m].age \in -1..LastCycle /\ number'[m].age \in -1..LastCycle
        /\ number[m].age <= number'[m].age
    BY <1>1 DEF RentalSound, RentalTypeOK, Number, Spares
  <2>4. Owed(m, number'[m].age) # {} BY <2>2, <2>3, OwedGrows, RentalConstantsOK
  <2>5. \A k \in DueDates(number'[m].age) : k \in Int /\ k >= 1 BY <2>3, DueMonths
  <2>6. QED BY <1>2, <2>4, <2>5 DEF Owed
<1>5. ASSUME NEW s \in Sweeps PROVE SweepLaw(s)'
  <2> DEFINE w == sweep[s]
  <2>1. w \in Sweep /\ GoodSweep(w) /\ Follows(w) BY SweepOf
  <2>2. w' = w /\ Counted(w) /\ Agrees(w) /\ Sentenced(w) BY <1>1 DEF RentalLaw, SweepLaw
  <2>3. Counted(w)'
    <3>1. w.cycle \in Nat /\ w.cycle >= 1 BY <2>1, SweepFields
    <3>2. w.at \in Numbers => \A k \in DueDates(w.seen[w.at].age) : k \in Int /\ k >= 1
      BY <2>1, SweepFields, DueMonths
    <3> HIDE DEF w
    <3>3. QED BY <1>1, <1>2, <2>2, <3>1, <3>2 DEF Counted
  <2>4. Agrees(w)'
    BY <1>1, <2>1, <2>2 DEF Agrees, Spares, Follows
  <2>5. Sentenced(w)'
    <3>1. w.pc = "release" => w.at \in Numbers /\ number[w.at].buying \in {"debit", "done"}
      BY <2>1 DEF GoodSweep, Follows, Busy
    <3>2. QED BY <1>1, <2>2, <3>1 DEF Sentenced, Spares
  <2>6. QED BY <2>3, <2>4, <2>5 DEF SweepLaw
<1>6. QED BY <1>3, <1>4, <1>5 DEF RentalLaw

\* The sweep as the next statement finds it.
LEMMA NextFields ==
  ASSUME NEW w \in Sweep
  PROVE  /\ LET v == NextCycle(w)
            IN v.pc = "probe" /\ v.at = w.at /\ v.todo = w.todo /\ v.seen = w.seen
               /\ v.cycle = w.cycle + 1 /\ v.billed = w.billed
         /\ LET v == NextCycle(CountBilled(w))
            IN v.pc = "probe" /\ v.at = w.at /\ v.todo = w.todo /\ v.seen = w.seen
               /\ v.cycle = w.cycle + 1 /\ v.billed = w.billed + 1
         /\ LET v == [CountBilled(w) EXCEPT !.pc = "restore"]
            IN v.pc = "restore" /\ v.at = w.at /\ v.todo = w.todo /\ v.seen = w.seen
               /\ v.cycle = w.cycle /\ v.billed = w.billed + 1
         /\ LET v == LeaveNumber(w)
            IN v.pc = "next" /\ v.at = NoNumber /\ v.todo = w.todo
               /\ v.seen = [w.seen EXCEPT ![w.at] = Unseen]
BY DEF NextCycle, CountBilled, LeaveNumber, Sweep

\* No row changes and nothing is paid; what was not restored went amiss.
LEMMA LawStill ==
  ASSUME RentalLaw, OneSweep, NEW s \in Sweeps, UNCHANGED <<number, rents>>, amiss \subseteq amiss',
         sweep[s].pc = "restore" => sweep[s].at \in amiss'
  PROVE  PaidInOrder' /\ InDebt'
<1>1. PaidInOrder' BY DEF RentalLaw, PaidInOrder
<1>2. \A n : n \notin amiss' => ~Restoring(n) BY DEF OneSweep, Restoring
<1>3. InDebt' BY <1>2 DEF RentalLaw, InDebt, Owed
<1>4. QED BY <1>1, <1>3

\* A sweep without a number in hand.
LEMMA LawBlank ==
  ASSUME NEW s \in Sweeps, (sweep[s].at = NoNumber)', (sweep[s].pc \in {"idle", "next"})',
         Agrees(sweep[s])'
  PROVE  SweepLaw(s)'
BY RentalConstantsOK DEF SweepLaw, Counted, Sentenced

LEMMA LawByTurn ==
  ASSUME RentalSound, RentalLaw, OneSweep, NEW s \in Sweeps,
         StartSweep(s) \/ EndSweep(s) \/ KillSweep(s)
  PROVE  RentalLaw'
<1>1. NoNumber \notin Numbers BY RentalConstantsOK
<1>2. PaidInOrder' /\ InDebt'
  <2>1. UNCHANGED <<number, rents>> /\ amiss \subseteq amiss'
    BY DEF StartSweep, EndSweep, KillSweep, OnlySweeps
  <2>2. sweep[s].pc = "restore" => sweep[s].at \in amiss' BY DEF StartSweep, EndSweep, KillSweep
  <2>3. QED BY <2>1, <2>2, LawStill
<1>3. CASE StartSweep(s)
  <2>1. sweep[s] \in Sweep /\ GoodSweep(sweep[s]) /\ sweep \in [Sweeps -> Sweep] BY SweepOf
  <2>2. /\ sweep'[s].pc = "next" /\ sweep'[s].at = sweep[s].at
        /\ sweep'[s].seen = [n \in Numbers |-> SeenRow(n)]
    BY <1>3, <2>1 DEF StartSweep, Sweep
  <2>3. sweep'[s].at = NoNumber BY <1>3, <2>1, <2>2 DEF StartSweep, GoodSweep
  <2>4. \A n \in Numbers : number[n].listed => SeenRow(n).suspended = number[n].suspended
    BY DEF SeenRow
  <2>5. UNCHANGED number BY <1>3 DEF StartSweep, OnlySweeps
  <2>6. Agrees(sweep[s])' BY <2>2, <2>4, <2>5 DEF Agrees
  <2>7. QED BY <1>2, <2>2, <2>3, <2>6, LawBlank, LawKept
<1>4. CASE EndSweep(s) \/ KillSweep(s)
  <2>1. sweep'[s] = Resting BY <1>4, SweepOf DEF EndSweep, KillSweep
  <2>2. Agrees(sweep[s])' BY <1>1, <2>1 DEF Agrees, Resting
  <2>3. QED BY <1>2, <2>1, <2>2, LawBlank, LawKept DEF Resting
<1>5. QED BY <1>3, <1>4

LEMMA LawByNext ==
  ASSUME RentalSound, RentalLaw, OneSweep, NEW s \in Sweeps, NextNumber(s)
  PROVE  RentalLaw'
<1> DEFINE w == sweep[s]
<1>1. w \in Sweep /\ GoodSweep(w) /\ sweep \in [Sweeps -> Sweep] BY SweepOf
<1>2. PICK n \in w.todo :
        sweep' = [sweep EXCEPT ![s] = [w EXCEPT !.pc = "probe", !.todo = w.todo \ {n}, !.at = n]]
  BY DEF NextNumber
<1>3. /\ sweep'[s].pc = "probe" /\ sweep'[s].at = n /\ sweep'[s].todo = w.todo \ {n}
      /\ sweep'[s].seen = w.seen /\ sweep'[s].cycle = w.cycle /\ sweep'[s].billed = w.billed
  BY <1>1, <1>2 DEF Sweep
<1>4. w.pc = "next" /\ w.cycle = 1 /\ w.billed = 0 BY <1>1 DEF NextNumber, GoodSweep
<1>5. UNCHANGED <<number, rents, amiss>> BY DEF NextNumber, OnlySweeps
<1>6. PaidInOrder' /\ InDebt' BY <1>4, <1>5, LawStill
<1>7. Counted(sweep[s])' BY <1>3, <1>4 DEF Counted
<1>8. Agrees(sweep[s])'
  <2>1. Agrees(w) BY DEF RentalLaw, SweepLaw
  <2>2. QED BY <1>3, <1>5, <2>1 DEF Agrees
<1>9. Sentenced(sweep[s])' BY <1>3 DEF Sentenced
<1>10. QED BY <1>6, <1>7, <1>8, <1>9, LawKept DEF SweepLaw

LEMMA LawByProbe ==
  ASSUME RentalSound, RentalLaw, OneSweep, NEW s \in Sweeps, Probe(s) \/ ReadBalance(s)
  PROVE  RentalLaw'
<1> DEFINE w == sweep[s]
           n == w.at
<1>1. w \in Sweep /\ GoodSweep(w) /\ sweep \in [Sweeps -> Sweep] BY SweepOf
<1>2. w.pc \in {"probe", "balance"} /\ n \in Numbers
  BY <1>1 DEF Probe, ReadBalance, GoodSweep, Busy
<1>3. UNCHANGED <<number, rents, amiss>> BY DEF Probe, ReadBalance, OnlySweeps
<1>4. PaidInOrder' /\ InDebt' BY <1>2, <1>3, LawStill
<1>5. PaidInOrder /\ Counted(w) /\ Agrees(w) BY DEF RentalLaw, SweepLaw
<1>6. /\ w.cycle \in Nat /\ w.cycle >= 1 /\ w.billed \in Nat
      /\ w.seen[n].age \in -1..LastCycle
  BY <1>1, <1>2, SweepFields
<1>7. PICK m \in 0..LastCycle : DueDates(w.seen[n].age) = 1..m BY <1>6, DueCount
<1>8. CASE sweep' = [sweep EXCEPT ![s] = NextCycle(CountBilled(@))] /\ Month(s) \in rents
  <2>1. /\ sweep'[s].pc = "probe" /\ sweep'[s].at = n /\ sweep'[s].todo = w.todo
        /\ sweep'[s].seen = w.seen /\ sweep'[s].cycle = w.cycle + 1
        /\ sweep'[s].billed = w.billed + 1
    BY <1>1, <1>8, NextFields
  <2>2. w.pc = "probe" BY <1>2, <1>8, <1>1, <2>1 DEF Probe, ReadBalance, GoTo, Sweep
  <2>3. \A j \in 1..w.cycle : j \in 1..(w.cycle - 1) \/ j = w.cycle BY <1>6
  <2>4. w.cycle + 1 - 1 = w.cycle BY <1>6
  <2>5. Counted(sweep[s])'
    BY <1>3, <1>5, <1>6, <1>8, <2>1, <2>2, <2>3, <2>4 DEF Counted, Month
  <2>6. Agrees(sweep[s])' BY <1>3, <1>5, <2>1 DEF Agrees
  <2>7. Sentenced(sweep[s])' BY <2>1 DEF Sentenced
  <2>8. QED BY <1>4, <2>5, <2>6, <2>7, LawKept DEF SweepLaw
<1>9. ASSUME NEW p \in {"balance", "charge", "ladder"}, sweep' = GoTo(s, p),
             n \notin amiss =>
               /\ p \in {"balance", "charge"} => <<n, w.cycle>> \notin rents
               /\ p = "ladder" => \A k \in 1..m : <<n, k>> \in rents <=> k <= w.billed
      PROVE  RentalLaw'
  <2>1. /\ sweep'[s].pc = p /\ sweep'[s].at = n /\ sweep'[s].todo = w.todo
        /\ sweep'[s].seen = w.seen /\ sweep'[s].cycle = w.cycle /\ sweep'[s].billed = w.billed
    BY <1>1, <1>9 DEF GoTo, Sweep
  <2>2. Counted(sweep[s])' BY <1>2, <1>3, <1>5, <1>7, <1>9, <2>1 DEF Counted
  <2>3. Agrees(sweep[s])' BY <1>3, <1>5, <2>1 DEF Agrees
  <2>4. Sentenced(sweep[s])' BY <1>9, <2>1 DEF Sentenced
  <2>5. QED BY <1>4, <2>2, <2>3, <2>4, LawKept DEF SweepLaw
<1>10. CASE Probe(s) /\ sweep' = GoTo(s, "ladder") /\ w.cycle \notin DueDates(w.seen[n].age)
  <2>1. w.pc = "probe" BY <1>10 DEF Probe
  <2>2. ASSUME n \notin amiss, NEW k \in 1..m PROVE <<n, k>> \in rents /\ k <= w.billed
    <3>1. w.billed = w.cycle - 1 /\ \A j \in 1..(w.cycle - 1) : <<n, j>> \in rents
      BY <1>2, <1>5, <2>1, <2>2 DEF Counted
    <3>2. k <= w.cycle - 1 BY <1>6, <1>7, <1>10, <2>2
    <3>3. QED BY <1>6, <3>1, <3>2
  <2>3. QED BY <1>9, <1>10, <2>2
<1>11. CASE Probe(s) /\ sweep' = GoTo(s, "balance") /\ Month(s) \notin rents
  BY <1>9, <1>11 DEF Month
<1>12. CASE ReadBalance(s)
  <2>1. w.pc = "balance" /\ (sweep' = GoTo(s, "ladder") \/ sweep' = GoTo(s, "charge"))
    BY <1>12 DEF ReadBalance
  <2>2. n \notin amiss =>
          /\ w.billed = w.cycle - 1 /\ \A j \in 1..(w.cycle - 1) : <<n, j>> \in rents
          /\ <<n, w.cycle>> \notin rents
    BY <1>2, <1>5, <2>1 DEF Counted
  <2>3. ASSUME n \notin amiss, NEW k \in 1..m PROVE <<n, k>> \in rents <=> k <= w.billed
    <3>1. w.cycle \in 1..m BY <1>1, <1>7, <2>1 DEF GoodSweep
    <3>2. k \in 1..LastCycle /\ w.cycle \in 1..LastCycle BY <1>7, <3>1, RentalConstantsOK
    <3>3. k >= w.cycle => <<n, k>> \notin rents
      BY <1>2, <1>5, <2>2, <2>3, <3>2 DEF PaidInOrder
    <3>4. QED BY <1>6, <2>2, <2>3, <3>2, <3>3
  <2>4. QED BY <1>9, <2>1, <2>2, <2>3
<1>13. QED BY <1>8, <1>10, <1>11, <1>12 DEF Probe, Read

LEMMA LawByCharge ==
  ASSUME RentalSound, RentalLaw, OneSweep, NEW s \in Sweeps, Charge(s)
  PROVE  RentalLaw'
<1> DEFINE w == sweep[s]
           n == w.at
<1>1. w \in Sweep /\ GoodSweep(w) /\ sweep \in [Sweeps -> Sweep] BY SweepOf
<1>2. w.pc = "charge" /\ n \in Numbers /\ w.cycle \in DueDates(w.seen[n].age)
  BY <1>1 DEF Charge, GoodSweep, Busy
<1>3. PaidInOrder /\ InDebt /\ Counted(w) /\ Agrees(w) BY DEF RentalLaw, SweepLaw
<1>4. w.cycle \in 1..LastCycle /\ w.billed \in Nat BY <1>1, <1>2, SweepFields, DueMonths
<1>5. UNCHANGED number BY DEF Charge
<1>6. \A m : ~Restoring(m) BY <1>2 DEF Restoring, OneSweep
<1>7. rents' = rents \/ rents' = rents \cup {<<n, w.cycle>>} BY DEF Charge, DebitRent, Month
<1>8. \A m \in Numbers : \A k : m # n => (<<m, k>> \in rents' <=> <<m, k>> \in rents) BY <1>7
<1>9. ASSUME NEW m \in Numbers \ amiss, m # n, number[m].suspended
      PROVE  Owed(m, number[m].age)' # {}
  BY <1>3, <1>5, <1>6, <1>8, <1>9 DEF InDebt, Owed
<1>10. CASE amiss' = amiss \cup {n} /\ sweep' = [sweep EXCEPT ![s] = NextCycle(@)]
  <2>1. /\ sweep'[s].pc = "probe" /\ sweep'[s].at = n /\ sweep'[s].todo = w.todo
        /\ sweep'[s].seen = w.seen
    BY <1>1, <1>10, NextFields
  <2>2. PaidInOrder' BY <1>3, <1>8, <1>10 DEF PaidInOrder
  <2>3. InDebt' BY <1>5, <1>9, <1>10 DEF InDebt
  <2>4. Counted(sweep[s])' BY <1>10, <2>1 DEF Counted
  <2>5. Agrees(sweep[s])' BY <1>3, <1>5, <2>1 DEF Agrees
  <2>6. Sentenced(sweep[s])' BY <2>1 DEF Sentenced
  <2>7. QED BY <2>2, <2>3, <2>4, <2>5, <2>6, LawKept DEF SweepLaw
<1>11. ASSUME DebitRent(Month(s)), amiss' = amiss,
              sweep' = [sweep EXCEPT ![s] = IF Read(s).suspended
                                            THEN [CountBilled(@) EXCEPT !.pc = "restore"]
                                            ELSE NextCycle(CountBilled(@))]
       PROVE  RentalLaw'
  <2>1. rents' = rents \cup {<<n, w.cycle>>} BY <1>11 DEF DebitRent, Month
  <2>2. /\ sweep'[s].pc = IF w.seen[n].suspended THEN "restore" ELSE "probe"
        /\ sweep'[s].cycle = IF w.seen[n].suspended THEN w.cycle ELSE w.cycle + 1
        /\ sweep'[s].at = n /\ sweep'[s].todo = w.todo /\ sweep'[s].seen = w.seen
        /\ sweep'[s].billed = w.billed + 1
    <3>1. CASE w.seen[n].suspended
      <4>1. sweep'[s] = [CountBilled(w) EXCEPT !.pc = "restore"] BY <1>1, <1>11, <3>1 DEF Read
      <4>2. /\ sweep'[s].pc = "restore" /\ sweep'[s].at = n /\ sweep'[s].todo = w.todo
            /\ sweep'[s].seen = w.seen /\ sweep'[s].cycle = w.cycle
            /\ sweep'[s].billed = w.billed + 1
        BY <1>1, <4>1 DEF NextCycle, CountBilled, Sweep
      <4>3. QED BY <3>1, <4>2
    <3>2. CASE ~w.seen[n].suspended
      <4>1. sweep'[s] = NextCycle(CountBilled(w)) BY <1>1, <1>11, <3>2 DEF Read
      <4>2. /\ sweep'[s].pc = "probe" /\ sweep'[s].at = n /\ sweep'[s].todo = w.todo
            /\ sweep'[s].seen = w.seen /\ sweep'[s].cycle = w.cycle + 1
            /\ sweep'[s].billed = w.billed + 1
        BY <1>1, <4>1 DEF NextCycle, CountBilled, Sweep
      <4>3. QED BY <3>2, <4>2
    <3>3. QED BY <3>1, <3>2
  <2>3. n \notin amiss =>
          w.billed = w.cycle - 1 /\ \A j \in 1..(w.cycle - 1) : <<n, j>> \in rents
    BY <1>2, <1>3 DEF Counted
  <2>4. n \notin amiss => \A j \in 1..w.cycle : <<n, j>> \in rents'
    BY <1>4, <2>1, <2>3
  <2>5. PaidInOrder'
    <3> SUFFICES ASSUME NEW m \in Numbers \ amiss, NEW k \in 1..LastCycle, NEW j \in 1..LastCycle,
                        j <= k, <<m, k>> \in rents'
                 PROVE  <<m, j>> \in rents'
      BY <1>11 DEF PaidInOrder
    <3>1. CASE <<m, k>> \in rents BY <1>3, <2>1, <3>1 DEF PaidInOrder
    <3>2. CASE m = n /\ k = w.cycle BY <2>4, <3>2, RentalConstantsOK
    <3>3. QED BY <2>1, <3>1, <3>2
  <2>6. InDebt'
    <3> SUFFICES ASSUME NEW m \in Numbers \ amiss, number[m].suspended, ~Restoring(m)'
                 PROVE  Owed(m, number[m].age)' # {}
      BY <1>5, <1>11 DEF InDebt
    <3>1. CASE m # n BY <1>9, <3>1
    <3>2. CASE m = n
      <4>1. number[n].listed BY <1>2, <3>2, SweepOf DEF GoodNumber
      <4>2. w.seen[n].suspended BY <1>2, <1>3, <3>2, <4>1 DEF Agrees
      <4>3. sweep'[s].at = m /\ sweep'[s].pc = "restore" BY <2>2, <3>2, <4>2
      <4>4. Restoring(m)' BY <4>3 DEF Restoring
      <4>5. QED BY <4>4
    <3>3. QED BY <3>1, <3>2
  <2>7. Counted(sweep[s])'
    <3>1. n \notin amiss => sweep'[s].billed = w.cycle BY <1>4, <2>2, <2>3
    <3>2. CASE w.seen[n].suspended BY <1>11, <2>2, <2>4, <3>1, <3>2 DEF Counted
    <3>3. CASE ~w.seen[n].suspended
      <4>1. sweep'[s].pc = "probe" /\ sweep'[s].cycle - 1 = w.cycle BY <1>4, <2>2, <3>3
      <4>2. QED BY <1>11, <2>2, <2>4, <3>1, <4>1 DEF Counted
    <3>4. QED BY <3>2, <3>3
  <2>8. Agrees(sweep[s])' BY <1>3, <1>5, <2>2 DEF Agrees
  <2>9. Sentenced(sweep[s])' BY <2>2 DEF Sentenced
  <2>10. QED BY <2>5, <2>6, <2>7, <2>8, <2>9, LawKept DEF SweepLaw
<1>12. QED BY <1>10, <1>11 DEF Charge

LEMMA LawByRestore ==
  ASSUME RentalSound, RentalLaw, OneSweep, NEW s \in Sweeps, Restore(s)
  PROVE  RentalLaw'
<1> DEFINE w == sweep[s]
           n == w.at
<1>1. w \in Sweep /\ GoodSweep(w) /\ sweep \in [Sweeps -> Sweep]
      /\ number \in [Numbers -> Number] /\ \A m \in Numbers : number[m] \in Number
  BY SweepOf
<1>2. w.pc = "restore" /\ n \in Numbers BY <1>1 DEF Restore, GoodSweep, Busy
<1>3. PaidInOrder /\ InDebt /\ Counted(w) /\ Agrees(w) BY DEF RentalLaw, SweepLaw
<1>4. w.cycle \in Nat /\ w.cycle >= 1 /\ w.seen \in [Numbers -> Seen] BY <1>1, SweepFields
<1>5. rents' = rents BY DEF Restore
<1>6. CASE /\ amiss' = amiss \cup {n} /\ UNCHANGED number
           /\ sweep' = [sweep EXCEPT ![s] = NextCycle(@)]
  <2>1. /\ sweep'[s].pc = "probe" /\ sweep'[s].at = n /\ sweep'[s].todo = w.todo
        /\ sweep'[s].seen = w.seen
    BY <1>1, <1>6, NextFields
  <2>2. PaidInOrder' /\ InDebt' BY <1>5, <1>6, LawStill
  <2>3. Counted(sweep[s])' BY <1>6, <2>1 DEF Counted
  <2>4. Agrees(sweep[s])' BY <1>3, <1>6, <2>1 DEF Agrees
  <2>5. Sentenced(sweep[s])' BY <2>1 DEF Sentenced
  <2>6. QED BY <2>2, <2>3, <2>4, <2>5, LawKept DEF SweepLaw
<1>7. CASE /\ amiss' = amiss /\ number' = [number EXCEPT ![n].suspended = FALSE]
           /\ sweep' = [sweep EXCEPT ![s] = [NextCycle(@) EXCEPT !.seen[n].suspended = FALSE]]
  <2>1. /\ sweep'[s].pc = "probe" /\ sweep'[s].at = n /\ sweep'[s].todo = w.todo
        /\ sweep'[s].seen = [w.seen EXCEPT ![n].suspended = FALSE]
        /\ sweep'[s].cycle = w.cycle + 1 /\ sweep'[s].billed = w.billed
    <3> DEFINE v == NextCycle(w)
    <3>1. sweep'[s] = [v EXCEPT !.seen[n].suspended = FALSE] BY <1>1, <1>7
    <3>2. /\ v.pc = "probe" /\ v.at = n /\ v.todo = w.todo /\ v.seen = w.seen
          /\ v.cycle = w.cycle + 1 /\ v.billed = w.billed
      BY <1>1, NextFields
    <3>3. v \in Sweep BY <1>1, <1>2, SweepOf, CycleGood DEF GoodSweep
    <3> HIDE DEF v
    <3>4. QED BY <3>1, <3>2, <3>3 DEF Sweep
  <2>2. /\ ~sweep'[s].seen[n].suspended
        /\ \A m \in Numbers : m # n => sweep'[s].seen[m] = w.seen[m]
    BY <1>2, <1>4, <2>1 DEF Seen
  <2>3. /\ ~number'[n].suspended /\ number'[n].age = number[n].age
        /\ \A m \in Numbers : m # n => number'[m] = number[m]
        /\ number'[n].listed = number[n].listed
    BY <1>1, <1>2, <1>7 DEF Number
  <2>4. PaidInOrder' BY <1>3, <1>5, <1>7 DEF PaidInOrder
  <2>5. InDebt'
    <3>1. \A m : m # n => ~Restoring(m) BY DEF OneSweep, Restoring
    <3>2. QED BY <1>3, <1>5, <1>7, <2>3, <3>1 DEF InDebt, Owed
  <2>6. Counted(sweep[s])'
    <3>1. sweep'[s].cycle - 1 = w.cycle BY <1>4, <2>1
    <3>2. n \notin amiss => w.billed = w.cycle /\ \A j \in 1..w.cycle : <<n, j>> \in rents
      BY <1>2, <1>3 DEF Counted
    <3>3. QED BY <1>5, <1>7, <2>1, <3>1, <3>2 DEF Counted
  <2>7. Agrees(sweep[s])'
    <3>1. ASSUME NEW m \in Numbers, m \in w.todo \/ m = n, number'[m].listed
          PROVE  number'[m].suspended = sweep'[s].seen[m].suspended
      <4>1. CASE m = n
        <5>1. number'[n].suspended = FALSE BY <1>1, <1>2, <1>7 DEF Number
        <5>2. sweep'[s].seen[n].suspended = FALSE BY <1>2, <1>4, <2>1 DEF Seen
        <5>3. QED BY <4>1, <5>1, <5>2
      <4>2. CASE m # n BY <1>3, <2>2, <2>3, <3>1, <4>2 DEF Agrees
      <4>3. QED BY <4>1, <4>2
    <3>2. QED BY <2>1, <3>1 DEF Agrees
  <2>8. Sentenced(sweep[s])' BY <2>1 DEF Sentenced
  <2>9. QED BY <2>4, <2>5, <2>6, <2>7, <2>8, LawKept DEF SweepLaw
<1>8. QED BY <1>6, <1>7 DEF Restore

\* What a sweep on the ladder knows, of a number that did not go amiss.
LEMMA OnLadder ==
  ASSUME RentalSound, RentalLaw, NEW s \in Sweeps,
         sweep[s].pc \in {"ladder", "release", "drop"}
  PROVE  LET n == sweep[s].at IN
         /\ n \in Numbers /\ n \notin sweep[s].todo
         /\ number[n].listed => number[n].suspended = Read(s).suspended
         /\ n \notin amiss =>
              /\ Cardinality(Owed(n, Read(s).age)) = Unpaid(s)
              /\ Unpaid(s) \in Int
              /\ Unpaid(s) <= Cardinality(Owed(n, number[n].age))
              /\ Cardinality(Owed(n, number[n].age)) \in Nat
              /\ Unpaid(s) > 0 => Owed(n, number[n].age) # {}
<1> DEFINE w == sweep[s]
           n == w.at
<1>1. w \in Sweep /\ GoodSweep(w) /\ Follows(w) BY SweepOf
<1>2. Counted(w) /\ Agrees(w) BY DEF RentalLaw, SweepLaw
<1>3. n \in Numbers /\ n \notin w.todo BY <1>1 DEF GoodSweep, Busy
<1>4. number[n].listed => number[n].suspended = Read(s).suspended BY <1>2, <1>3 DEF Agrees, Read
<1>5. ASSUME n \notin amiss
      PROVE  /\ Cardinality(Owed(n, Read(s).age)) = Unpaid(s)
             /\ Unpaid(s) \in Int
             /\ Unpaid(s) <= Cardinality(Owed(n, number[n].age))
             /\ Cardinality(Owed(n, number[n].age)) \in Nat
             /\ Unpaid(s) > 0 => Owed(n, number[n].age) # {}
  <2>1. Cardinality(Owed(n, Read(s).age)) = Unpaid(s) BY <1>1, <1>2, <1>3, <1>5, OwedCount DEF Unpaid, Read
  <2>2. Read(s).age \in -1..number[n].age /\ number[n].age \in -1..LastCycle
    <3>1. Read(s).age \in -1..LastCycle BY <1>1, <1>3, SweepFields DEF Read
    <3>2. number[n].age \in -1..LastCycle BY <1>3, SweepOf
    <3>3. Read(s).age <= number[n].age BY <1>1, <1>3 DEF Follows, Read
    <3>4. QED BY <3>1, <3>2, <3>3
  <2>3. /\ Owed(n, Read(s).age) \subseteq Owed(n, number[n].age)
        /\ IsFiniteSet(Owed(n, number[n].age)) /\ IsFiniteSet(Owed(n, Read(s).age))
        /\ Cardinality(Owed(n, Read(s).age)) <= Cardinality(Owed(n, number[n].age))
    BY <1>3, <2>2, OwedGrows
  <2>4. /\ Cardinality(Owed(n, Read(s).age)) \in Nat
        /\ Cardinality(Owed(n, number[n].age)) \in Nat
    BY <2>3, FS_CardinalityType
  <2>5. Unpaid(s) > 0 => Owed(n, number[n].age) # {}
    <3>1. Cardinality({}) = 0 BY FS_EmptySet
    <3>2. QED BY <2>1, <2>3, <2>4, <3>1
  <2>6. QED BY <2>1, <2>3, <2>4, <2>5
<1>6. QED BY <1>3, <1>4, <1>5

\* The sweep is done with the number.
LEMMA LawLeaves ==
  ASSUME RentalSound, RentalLaw, OneSweep, NEW s \in Sweeps, Leaves(s),
         sweep[s].pc \in {"ladder", "release", "drop"},
         rents' = rents, amiss \subseteq amiss',
         \A m \in Numbers : m # sweep[s].at => number'[m] = number[m],
         number'[sweep[s].at].age = number[sweep[s].at].age,
         sweep[s].at \notin amiss' /\ number'[sweep[s].at].suspended =>
           number[sweep[s].at].suspended \/ Unpaid(s) > 0
  PROVE  RentalLaw'
<1> DEFINE w == sweep[s]
           n == w.at
<1>1. w \in Sweep /\ GoodSweep(w) /\ sweep \in [Sweeps -> Sweep] BY SweepOf
<1>2. /\ n \in Numbers /\ n \notin w.todo /\ w.todo \subseteq Numbers /\ NoNumber \notin Numbers
      /\ w.seen \in [Numbers -> Seen]
  BY <1>1, OnLadder, SweepFields, RentalConstantsOK
<1>3. /\ sweep'[s].pc = "next" /\ sweep'[s].at = NoNumber /\ sweep'[s].todo = w.todo
      /\ sweep'[s].seen = [w.seen EXCEPT ![n] = Unseen]
  BY <1>1 DEF Leaves, LeaveNumber, Sweep
<1>4. \A m : ~Restoring(m) BY DEF OneSweep, Restoring
<1>5. PaidInOrder' BY DEF RentalLaw, PaidInOrder
<1>6. InDebt'
  <2> SUFFICES ASSUME NEW m \in Numbers \ amiss', number'[m].suspended
               PROVE  Owed(m, number[m].age) # {} /\ number'[m].age = number[m].age
    BY DEF InDebt, Owed
  <2>1. CASE number[m].suspended
    BY <1>4, <2>1 DEF RentalLaw, InDebt
  <2>2. CASE ~number[m].suspended
    <3>1. m = n BY <2>2
    <3>2. Unpaid(s) > 0 BY <2>2, <3>1
    <3>3. QED BY <3>1, <3>2, OnLadder
  <2>3. QED BY <2>1, <2>2
<1>7. Agrees(sweep[s])'
  <2>1. Agrees(w) BY DEF RentalLaw, SweepLaw
  <2>2. \A m \in w.todo : sweep'[s].seen[m] = w.seen[m] /\ number'[m] = number[m]
    BY <1>2, <1>3
  <2>3. QED BY <1>2, <1>3, <2>1, <2>2 DEF Agrees
<1>8. QED BY <1>3, <1>5, <1>6, <1>7, LawBlank, LawKept

LEMMA LawByLadder ==
  ASSUME RentalSound, RentalLaw, OneSweep, NEW s \in Sweeps,
         \/ Suspend(s) \/ StayOnRung(s) \/ Release(s) \/ RungFails(s)
         \/ ReleaseNumber(s) \/ DropNumber(s)
  PROVE  RentalLaw'
<1> DEFINE w == sweep[s]
           n == w.at
<1>1. w \in Sweep /\ GoodSweep(w) /\ sweep \in [Sweeps -> Sweep]
      /\ number \in [Numbers -> Number] /\ \A m \in Numbers : number[m] \in Number
  BY SweepOf
<1>2. w.pc \in {"ladder", "release", "drop"}
  BY DEF Climbs, Suspend, StayOnRung, Release, RungFails, ReleaseNumber, DropNumber
<1>3. n \in Numbers BY <1>2, OnLadder
<1>4. rents' = rents /\ amiss \subseteq amiss'
  BY DEF Climbs, Suspend, StayOnRung, Release, RungFails, ReleaseNumber, DropNumber
<1>5. CASE Leaves(s) /\ UNCHANGED number
  BY <1>2, <1>4, <1>5, LawLeaves
<1>6. CASE Suspend(s)
  <2>1. number' = [number EXCEPT ![n].suspended = number[n].listed] /\ Leaves(s)
    BY <1>6 DEF Suspend
  <2>2. /\ number'[n].age = number[n].age
        /\ \A m \in Numbers : m # n => number'[m] = number[m]
    BY <1>1, <1>3, <2>1 DEF Number
  <2>3. n \notin amiss => Unpaid(s) > 0
    <3>1. n \notin amiss => Unpaid(s) \in Int BY <1>2, OnLadder
    <3>2. Rung(s) = "suspend" BY <1>6 DEF Suspend
    <3>3. QED BY <3>1, <3>2 DEF Rung, RentalAction
  <2>4. n \notin amiss' => n \notin amiss BY <1>4
  <2>5. QED BY <1>2, <1>4, <2>1, <2>2, <2>3, <2>4, LawLeaves
<1>7. CASE DropNumber(s)
  <2>1. PICK failed \in BOOLEAN :
          number' = IF failed THEN number ELSE [number EXCEPT ![n] = Unlisted(@)]
    BY <1>7 DEF DropNumber, Fails
  <2>2. Leaves(s) BY <1>7 DEF DropNumber
  <2>3. CASE failed BY <1>5, <2>1, <2>2, <2>3
  <2>4. CASE ~failed
    <3>1. number' = [number EXCEPT ![n] = [number[n] EXCEPT !.listed = FALSE, !.suspended = FALSE]]
      BY <2>1, <2>4 DEF Unlisted
    <3>2. /\ number'[n].age = number[n].age /\ ~number'[n].suspended
          /\ \A m \in Numbers : m # n => number'[m] = number[m]
      BY <1>1, <1>3, <3>1 DEF Number
    <3>3. QED BY <1>2, <1>4, <2>2, <3>2, LawLeaves
  <2>5. QED BY <2>3, <2>4
<1>8. ASSUME NEW p \in {"release", "drop"}, sweep' = GoTo(s, p), amiss' = amiss,
             UNCHANGED number \/ (p = "drop" /\ number' = [number EXCEPT ![n].held = FALSE]),
             Read(s).suspended, Cardinality(DueDates(Read(s).age)) - w.billed >= 3,
             p = "release" => number[n].listed
      PROVE  RentalLaw'
  <2>1. /\ sweep'[s].pc = p /\ sweep'[s].at = n /\ sweep'[s].todo = w.todo
        /\ sweep'[s].seen = w.seen /\ sweep'[s].cycle = w.cycle /\ sweep'[s].billed = w.billed
    BY <1>1, <1>8 DEF GoTo, Sweep
  <2>2. \A m \in Numbers : /\ number'[m].listed = number[m].listed
                           /\ number'[m].suspended = number[m].suspended
                           /\ number'[m].age = number[m].age
    BY <1>1, <1>3, <1>8 DEF Number
  <2>3. PaidInOrder' BY <1>4, <1>8 DEF RentalLaw, PaidInOrder
  <2>4. \A m : ~Restoring(m) BY <1>2 DEF OneSweep, Restoring
  <2>5. InDebt' BY <1>4, <1>8, <2>2, <2>4 DEF RentalLaw, InDebt, Owed
  <2>6. Counted(w) /\ Agrees(w) BY DEF RentalLaw, SweepLaw
  <2>7. Counted(sweep[s])' BY <1>2, <1>4, <1>8, <2>1, <2>6 DEF Counted
  <2>8. Agrees(sweep[s])' BY <2>1, <2>2, <2>6 DEF Agrees
  <2>9. Sentenced(sweep[s])' BY <1>3, <1>8, <2>1, <2>2 DEF Sentenced, Read
  <2>10. QED BY <2>3, <2>5, <2>7, <2>8, <2>9, LawKept DEF SweepLaw
<1>9. CASE Release(s)
  <2>1. Rung(s) = "release" /\ number[n].listed /\ sweep' = GoTo(s, "release")
        /\ UNCHANGED <<number, amiss>>
    BY <1>9 DEF Release
  <2>2. Read(s).suspended /\ Unpaid(s) >= 3 BY <2>1 DEF Rung, RentalAction
  <2>3. QED BY <1>8, <2>1, <2>2 DEF Unpaid
<1>10. CASE ReleaseNumber(s)
  <2>1. w.pc = "release" /\ amiss' = amiss BY <1>10 DEF ReleaseNumber
  <2>2. Sentenced(w) BY DEF RentalLaw, SweepLaw
  <2>3. Read(s).suspended /\ Cardinality(DueDates(Read(s).age)) - w.billed >= 3
    BY <2>1, <2>2 DEF Sentenced, Read
  <2>4. \/ Leaves(s) /\ UNCHANGED number
        \/ sweep' = GoTo(s, "drop") /\ number' = [number EXCEPT ![n].held = FALSE]
    BY <1>10 DEF ReleaseNumber
  <2>5. QED BY <1>5, <1>8, <2>1, <2>3, <2>4
<1>11. QED BY <1>5, <1>6, <1>7, <1>9, <1>10 DEF StayOnRung, RungFails

LEMMA LawStep == ASSUME RentalSound, RentalLaw, OneSweep, RentalStep PROVE RentalLaw'
BY LawByNumber, LawByTurn, LawByNext, LawByProbe, LawByCharge, LawByRestore, LawByLadder
   DEF RentalStep, NumberStep

LEMMA LawStays == ASSUME RentalLaw, UNCHANGED rentalVars PROVE RentalLaw'
BY DEF rentalVars, RentalLaw, SweepLaw, PaidInOrder, InDebt, Restoring, Owed, Counted, Agrees, Sentenced

\* What the properties say follows.
LEMMA LawRestores == ASSUME RentalLaw PROVE RestoredWhenPaid
BY DEF RentalLaw, InDebt, Restoring, RestoredWhenPaid, InHand

\* Which step gives a number back, and what it goes by.
LEMMA LawReleases ==
  ASSUME RentalSound, RentalLaw, OneSweep, RentalStep, NEW n \in Numbers \ amiss, GivenBack(n)
  PROVE  Cardinality(Owed(n, number[n].age)) >= 3 /\ number[n].suspended
<1>1. /\ sweep \in [Sweeps -> Sweep] /\ number \in [Numbers -> Number] /\ number[n] \in Number
      /\ \A s \in Sweeps : sweep[s].at = n => number[sweep[s].at] \in Number
  BY SweepOf DEF RentalSound, RentalTypeOK
<1>2. PICK s \in Sweeps : sweep[s].at = n /\ sweep[s].pc # sweep'[s].pc
  BY DEF GivenBack
<1>3. number[n].held /\ ~number'[n].held BY DEF GivenBack
<1>4. ~\E m \in Numbers : NumberStep(m) BY <1>2, NumberSpares
<1>5. PICK t \in Sweeps :
        \/ StartSweep(t) \/ NextNumber(t) \/ EndSweep(t) \/ Probe(t) \/ ReadBalance(t) \/ Charge(t)
        \/ Restore(t) \/ Suspend(t) \/ StayOnRung(t) \/ Release(t) \/ RungFails(t)
        \/ ReleaseNumber(t) \/ DropNumber(t) \/ KillSweep(t)
  BY <1>4 DEF RentalStep, NumberStep
<1>6. t = s BY DEF OneSweep
<1>7. \/ UNCHANGED number
      \/ number' = [number EXCEPT ![n].suspended = FALSE]
      \/ number' = [number EXCEPT ![n].suspended = number[n].listed]
      \/ DropNumber(s) \/ ReleaseNumber(s)
  BY <1>2, <1>5, <1>6 DEF StartSweep, NextNumber, EndSweep, Probe, ReadBalance, Charge, Restore,
     Suspend, StayOnRung, Release, RungFails, KillSweep, OnlySweeps
<1>8. ~UNCHANGED number BY <1>3
<1>9. /\ number' # [number EXCEPT ![n].suspended = FALSE]
      /\ number' # [number EXCEPT ![n].suspended = number[n].listed]
  BY <1>1, <1>3 DEF Number
<1>10. ASSUME DropNumber(s) PROVE FALSE
  <2>1. PICK failed \in BOOLEAN :
          number' = IF failed THEN number ELSE [number EXCEPT ![n] = Unlisted(@)]
    BY <1>2, <1>10 DEF DropNumber, Fails
  <2>2. number' = [number EXCEPT ![n] = [number[n] EXCEPT !.listed = FALSE, !.suspended = FALSE]]
    BY <1>8, <2>1 DEF Unlisted
  <2>3. number'[n].held = number[n].held BY <1>1, <2>2 DEF Number
  <2>4. QED BY <1>3, <2>3
<1>11. ReleaseNumber(s) BY <1>7, <1>8, <1>9, <1>10
<1>12. sweep[s].pc = "release" BY <1>11 DEF ReleaseNumber
<1>13. Sentenced(sweep[s]) BY DEF RentalLaw, SweepLaw
<1>14. Read(s).suspended /\ Unpaid(s) >= 3 /\ number[n].listed
  BY <1>2, <1>3, <1>12, <1>13 DEF Sentenced, Read, Unpaid
<1>15. /\ number[n].suspended = Read(s).suspended
       /\ Unpaid(s) \in Int /\ Unpaid(s) <= Cardinality(Owed(n, number[n].age))
       /\ Cardinality(Owed(n, number[n].age)) \in Nat
  BY <1>2, <1>12, <1>14, OnLadder
<1>16. QED BY <1>14, <1>15

\* How a sweep may be done with a number that is two months behind.
LEMMA LawSuspends ==
  ASSUME RentalSound, RentalLaw, OneSweep, RentalStep, NEW s \in Sweeps, DoneWith(s),
         sweep[s].at \notin amiss', number[sweep[s].at].listed,
         Cardinality(Owed(sweep[s].at, Read(s).age)) >= 2
  PROVE  number'[sweep[s].at].suspended \/ ~number'[sweep[s].at].listed
<1> DEFINE w == sweep[s]
           n == w.at
<1>1. /\ w \in Sweep /\ GoodSweep(w) /\ sweep \in [Sweeps -> Sweep]
      /\ number \in [Numbers -> Number]
  BY SweepOf
<1>2. n # NoNumber /\ sweep'[s].pc = "next" BY DEF DoneWith
<1>3. w.pc \notin {"idle", "next"} BY <1>1, <1>2 DEF GoodSweep
<1>4. ~\E m \in Numbers : NumberStep(m) BY <1>2, <1>3, NumberSpares
<1>5. PICK t \in Sweeps :
        \/ StartSweep(t) \/ NextNumber(t) \/ EndSweep(t) \/ Probe(t) \/ ReadBalance(t) \/ Charge(t)
        \/ Restore(t) \/ Suspend(t) \/ StayOnRung(t) \/ Release(t) \/ RungFails(t)
        \/ ReleaseNumber(t) \/ DropNumber(t) \/ KillSweep(t)
  BY <1>4 DEF RentalStep, NumberStep
<1>6. t = s BY DEF OneSweep
<1>7. ~(StartSweep(s) \/ NextNumber(s) \/ EndSweep(s) \/ KillSweep(s))
  <2>1. ~(StartSweep(s) \/ NextNumber(s) \/ EndSweep(s))
    BY <1>3 DEF StartSweep, NextNumber, EndSweep
  <2>2. ASSUME KillSweep(s) PROVE FALSE
    <3>1. sweep'[s] = Resting BY <1>1, <2>2 DEF KillSweep
    <3>2. QED BY <1>2, <3>1 DEF Resting
  <2>3. QED BY <2>1, <2>2
<1>8. ~(Probe(s) \/ ReadBalance(s) \/ Release(s))
  <2>1. DOMAIN sweep = Sweeps /\ s \in Sweeps BY <1>1
  <2>2. \A pc : sweep' = GoTo(s, pc) => sweep'[s].pc = pc
    BY <1>1 DEF GoTo, Sweep
  <2>3. ~(ReadBalance(s) \/ Release(s)) BY <1>2, <2>2 DEF ReadBalance, Release
  <2>4. NextCycle(CountBilled(w)).pc = "probe" BY <1>1 DEF NextCycle, CountBilled, Sweep
  <2>5. ASSUME Probe(s) PROVE FALSE
    <3>1. \/ sweep' = GoTo(s, "ladder") \/ sweep' = GoTo(s, "balance")
          \/ sweep' = [sweep EXCEPT ![s] = NextCycle(CountBilled(sweep[s]))]
      BY <2>5 DEF Probe
    <3>2. sweep'[s] = NextCycle(CountBilled(w)) BY <1>2, <2>1, <2>2, <3>1
    <3>3. QED BY <1>2, <2>4, <3>2
  <2>6. QED BY <2>3, <2>5
<1>9. ~(Charge(s) \/ Restore(s))
  <2>1. ASSUME Charge(s) PROVE FALSE
    <3>1. \/ sweep'[s] = [CountBilled(w) EXCEPT !.pc = "restore"]
          \/ sweep'[s] = NextCycle(CountBilled(w))
          \/ sweep'[s] = NextCycle(w)
      BY <1>1, <2>1 DEF Charge
    <3>2. [CountBilled(w) EXCEPT !.pc = "restore"].pc = "restore"
      BY <1>1 DEF CountBilled, Sweep
    <3>3. NextCycle(CountBilled(w)).pc = "probe" /\ NextCycle(w).pc = "probe"
      BY <1>1 DEF NextCycle, CountBilled, Sweep
    <3>4. QED BY <1>2, <3>1, <3>2, <3>3
  <2>2. ASSUME Restore(s) PROVE FALSE
    <3>1. \/ sweep'[s] = NextCycle(w)
          \/ sweep'[s] = [NextCycle(w) EXCEPT !.seen[n].suspended = FALSE]
      BY <1>1, <2>2 DEF Restore
    <3>2. w.cycle \in DueDates(w.seen[n].age) BY <1>1, <2>2 DEF Restore, GoodSweep
    <3>3. NextCycle(w) \in Sweep BY <1>1, <2>2, <3>2, SweepOf, CycleGood DEF Restore
    <3>4. NextCycle(w).pc = "probe" BY <1>1 DEF NextCycle, Sweep
    <3>5. QED BY <1>2, <3>1, <3>3, <3>4 DEF Sweep
  <2>3. QED BY <2>1, <2>2
<1>10. w.pc \in {"ladder", "release", "drop"}
  BY <1>5, <1>6, <1>7, <1>8, <1>9
     DEF Climbs, Suspend, StayOnRung, RungFails, ReleaseNumber, DropNumber
<1>11. n \in Numbers /\ number[n] \in Number /\ number[n].suspended = Read(s).suspended
  BY <1>10, OnLadder, SweepOf
<1>12. amiss \subseteq amiss'
  BY <1>5, <1>6, <1>7, <1>8, <1>9 DEF Suspend, StayOnRung, RungFails, ReleaseNumber, DropNumber
<1>13. Unpaid(s) \in Int /\ Unpaid(s) >= 2 BY <1>10, <1>12, OnLadder
<1>14. Sentenced(w) BY DEF RentalLaw, SweepLaw
<1>15. CASE Suspend(s)
  <2>1. number' = [number EXCEPT ![n].suspended = number[n].listed] BY <1>15 DEF Suspend
  <2>2. QED BY <1>1, <1>11, <2>1 DEF Number
<1>16. CASE StayOnRung(s)
  <2>1. Rung(s) \notin {"none", "warn"} BY <1>13 DEF Rung, RentalAction
  <2>2. Read(s).suspended BY <1>16, <2>1 DEF StayOnRung
  <2>3. QED BY <1>11, <1>16, <2>2 DEF StayOnRung
<1>17. ~RungFails(s) BY DEF RungFails
<1>18. CASE ReleaseNumber(s)
  <2>1. w.pc = "release" BY <1>18 DEF ReleaseNumber
  <2>2. Read(s).suspended BY <1>14, <2>1 DEF Sentenced, Read
  <2>3. UNCHANGED number BY <1>1, <1>2, <1>18 DEF ReleaseNumber, GoTo, Sweep
  <2>4. QED BY <1>11, <2>2, <2>3
<1>19. CASE DropNumber(s)
  <2>1. w.pc = "drop" BY <1>19 DEF DropNumber
  <2>2. Read(s).suspended BY <1>14, <2>1 DEF Sentenced, Read
  <2>3. PICK failed \in BOOLEAN :
          number' = IF failed THEN number ELSE [number EXCEPT ![n] = Unlisted(@)]
    BY <1>19 DEF DropNumber, Fails
  <2>4. CASE failed BY <1>11, <2>2, <2>3, <2>4
  <2>5. CASE ~failed
    <3>1. number'[n] = [number[n] EXCEPT !.listed = FALSE, !.suspended = FALSE]
      BY <1>1, <1>11, <2>3, <2>5 DEF Unlisted
    <3>2. QED BY <1>11, <3>1 DEF Number
  <2>6. QED BY <2>4, <2>5
<1>20. QED BY <1>5, <1>6, <1>7, <1>8, <1>9, <1>15, <1>16, <1>17, <1>18, <1>19
=============================================================================
