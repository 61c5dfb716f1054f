----------------------- MODULE PredictiveDialer_proofs -----------------------
(***************************************************************************)
(* Theorems about PredictiveDialer, for any number of agents, contacts and *)
(* calls.                                                                  *)
(***************************************************************************)
EXTENDS PredictiveDialer, TLAPS

-----------------------------------------------------------------------------
(* The rows.                                                               *)

GoodRow(e) == e \in Entry /\ (e.state = "assigned" <=> e.holder # NoAgent)
GoodTable(q) == q \in [Contacts -> Entry] /\ \A c \in Contacts : GoodRow(q[c])

\* A finished row stays finished, and a young claim is kept or finished.
Shelters(e, new) ==
  /\ Finished(e) => Finished(new)
  /\ e.state = "assigned" /\ e.claim = "fresh" => new = e \/ Finished(new)

LEMMA FreshRow == GoodRow(Fresh)
BY QueueConstantsOK DEF GoodRow, Fresh, Entry

LEMMA ReleasedRow == ASSUME NEW e, GoodRow(e) PROVE GoodRow(Released(e))
BY DEF GoodRow, Released, Entry

LEMMA DequeuedRow ==
  ASSUME NEW e, GoodRow(e)
  PROVE  GoodRow(Dequeued(e)) /\ Finished(Dequeued(e)) /\ Shelters(e, Dequeued(e))
BY DEF GoodRow, Dequeued, Entry, Finished, Shelters

LEMMA ClaimedRow ==
  ASSUME NEW e, GoodRow(e), NEW a \in Agents
  PROVE  /\ GoodRow(Claimed(e, a))
         /\ Claimed(e, a).state = "assigned" /\ Claimed(e, a).claim = "fresh"
         /\ Claimed(e, a).holder = a
<1> DEFINE n == IF Exhausted(e) THEN e.tries ELSE e.tries + 1
<1>1. n \in 0..MaxAttempts
  BY QueueConstantsOK DEF GoodRow, Entry, Exhausted
<1>2. Claimed(e, a) = [e EXCEPT !.state = "assigned", !.holder = a, !.claim = "fresh", !.tries = n]
  BY DEF Claimed
<1> HIDE DEF n
<1>3. QED BY <1>1, <1>2, QueueConstantsOK DEF GoodRow, Entry

LEMMA FailedRow ==
  ASSUME NEW q, GoodTable(q)
  PROVE  /\ GoodTable(FailExhausted(q))
         /\ \A c \in Contacts : Shelters(q[c], FailExhausted(q)[c])
<1>1. ASSUME NEW c \in Contacts
      PROVE  GoodRow(FailExhausted(q)[c]) /\ Shelters(q[c], FailExhausted(q)[c])
  <2>1. CASE q[c].state \in {"queued", "assigned"} /\ Exhausted(q[c])
    BY <2>1 DEF FailExhausted, GoodTable, GoodRow, Entry, Shelters, Finished
  <2>2. CASE ~(q[c].state \in {"queued", "assigned"} /\ Exhausted(q[c]))
    BY <2>2 DEF FailExhausted, GoodTable, Shelters
  <2>3. QED BY <2>1, <2>2
<1>2. FailExhausted(q) = [c \in Contacts |-> FailExhausted(q)[c]]
  BY DEF FailExhausted
<1>3. QED BY <1>1, <1>2 DEF GoodTable, GoodRow

LEMMA ResetRow ==
  ASSUME NEW q, GoodTable(q)
  PROVE  /\ GoodTable(ResetStale(q))
         /\ \A c \in Contacts : Shelters(q[c], ResetStale(q)[c])
<1>1. ASSUME NEW c \in Contacts
      PROVE  GoodRow(ResetStale(q)[c]) /\ Shelters(q[c], ResetStale(q)[c])
  <2> DEFINE e == FailExhausted(q)[c]
  <2>1. GoodRow(e) /\ Shelters(q[c], e) BY FailedRow DEF GoodTable
  <2>2. ResetStale(q)[c] = IF e.state = "assigned" /\ e.claim = "stale"
          THEN [e EXCEPT !.state = "queued", !.holder = NoAgent, !.claim = "unset"] ELSE e
    BY DEF ResetStale
  <2> HIDE DEF e
  <2>3. CASE e.state = "assigned" /\ e.claim = "stale"
    BY <2>1, <2>2, <2>3 DEF GoodRow, Entry, Shelters, Finished
  <2>4. CASE ~(e.state = "assigned" /\ e.claim = "stale") BY <2>1, <2>2, <2>4
  <2>5. QED BY <2>3, <2>4
<1>2. ResetStale(q) = [c \in Contacts |-> ResetStale(q)[c]]
  BY DEF ResetStale
<1>3. QED BY <1>1, <1>2 DEF GoodTable, GoodRow

LEMMA DequeuedTable ==
  ASSUME NEW q, GoodTable(q), NEW c, NEW fanOut, NEW a
  PROVE  /\ GoodTable(DequeueContact(q, c, fanOut, a))
         /\ \A d \in Contacts : Shelters(q[d], DequeueContact(q, c, fanOut, a)[d])
<1> DEFINE new == DequeueContact(q, c, fanOut, a)
<1>1. ASSUME NEW d \in Contacts PROVE GoodRow(new[d]) /\ Shelters(q[d], new[d])
  <2>1. new[d] = Dequeued(q[d]) \/ new[d] = q[d] BY DEF DequeueContact
  <2>2. GoodRow(q[d]) BY DEF GoodTable
  <2>3. QED BY <2>1, <2>2, DequeuedRow DEF Shelters
<1>2. new = [d \in Contacts |-> new[d]] BY DEF DequeueContact
<1> HIDE DEF new
<1>3. QED BY <1>1, <1>2 DEF GoodTable, GoodRow, new

\* Who holds a row, or finds it finished, dequeues it for certain.
LEMMA HolderDequeues ==
  ASSUME NEW q, GoodTable(q), NEW c \in Contacts, NEW fanOut, NEW a \in Agents,
         Finished(q[c]) \/ (q[c].state = "assigned" /\ q[c].holder = a)
  PROVE  Finished(DequeueContact(q, c, fanOut, a)[c])
<1>1. DequeueContact(q, c, fanOut, a)[c] = IF MayDequeue(q[c], a) THEN Dequeued(q[c]) ELSE q[c]
  BY DEF DequeueContact
<1>2. GoodRow(q[c]) BY DEF GoodTable
<1>3. QED BY <1>1, <1>2, DequeuedRow, QueueConstantsOK DEF MayDequeue, Finished

\* Changing one row for a good one.
LEMMA RowSet ==
  ASSUME NEW q, GoodTable(q), NEW c \in Contacts, NEW e, GoodRow(e)
  PROVE  /\ GoodTable([q EXCEPT ![c] = e])
         /\ [q EXCEPT ![c] = e][c] = e
         /\ \A d \in Contacts \ {c} : [q EXCEPT ![c] = e][d] = q[d]
BY DEF GoodTable, GoodRow

-----------------------------------------------------------------------------
(* The legs.                                                               *)

\* What is true of every leg on its own: a turn or a call has a room, who
\* claims or calls has a contact, a call is placed exactly when the turn gets to
\* the retirement, only a call that is over is settled, a contact that had opted
\* out when claimed does not pass the check, only a saved call, which its turn has
\* left, is answered, and a turn that looks for a contact has none.
LegOK(r) ==
  /\ r \in Leg
  /\ r.pc # "idle" \/ r.phone # "none" => r.room \in Rooms
  /\ r.pc \in {"check", "window", "prep", "dial"} \/ r.phone # "none" => r.contact \in Contacts
  /\ r.phone # "none" => r.pc \in {"idle", "retire", "save"}
  /\ r.pc \in {"retire", "save"} => r.phone # "none"
  /\ r.settled # "no" => r.phone \in {"completed", "noanswer"}
  /\ r.pc \in {"window", "prep", "dial"} => ~r.late
  /\ r.saved => r.pc = "idle" /\ r.phone # "none"
  /\ r.pc \in {"start", "sweep", "claim", "hangup", "finish"} => r.contact = NoContact
  /\ r.phone \in {"answered", "voicemail"} => r.saved

\* A leg that attends to its room, or whose status callback may yet run the
\* room's next turn.  This is what only one leg of a room does at a time:
\* whether a leg attends is not inductive, the callback is what links two legs.
Engages(r) ==
  \/ r.pc \in TurnPC \ {"retire", "save"}
  \/ r.phone \in {"ringing", "answered"}
  \/ r.phone = "noanswer" /\ r.settled # "done"

Engaged ==
  \A k, l \in Legs :
    k # l /\ Engages(leg[k]) /\ Engages(leg[l]) => leg[k].room # leg[l].room

\* A leg at the opt-out check remembers whether the contact had opted out.
Remembers ==
  \A l \in Legs : leg[l].pc = "check" /\ leg[l].late => optOut[leg[l].contact] # "no"

LegsInv ==
  /\ leg \in [Legs -> Leg] /\ \A l \in Legs : LegOK(leg[l])
  /\ Engaged /\ Remembers

\* How a leg changes, except by a claim: it does not become engaged.
Yields(r, new) ==
  /\ LegOK(new) /\ new.pc # "check"
  /\ Engages(new) => Engages(r) /\ new.room = r.room

\* STOP is never taken back.
OptOutGrows == \A c \in Contacts : optOut[c] # "no" => optOut'[c] # "no"

LEMMA UserAgent == \A q \in Rooms : User(q) \in Agents
BY DEF Rooms, User

LEMMA NoRoomOut == NoRoom \notin Rooms
BY QueueConstantsOK DEF NoRoom, Rooms

LEMMA NoLegOK == LegOK(NoLeg) /\ ~Engages(NoLeg)
BY DEF LegOK, NoLeg, Leg, Engages, TurnPC

LEMMA BegunOK == ASSUME NEW q \in Rooms PROVE LegOK(Begun(q)) /\ Begun(q).room = q /\ Begun(q).pc = "start"
BY DEF LegOK, Begun, NoLeg, Leg, TurnPC

LEMMA EndedYields == ASSUME NEW r, LegOK(r) PROVE Yields(r, Ended(r))
<1>1. CASE r.phone = "none" BY <1>1, NoLegOK DEF Ended, Yields, NoLeg
<1>2. CASE r.phone # "none" BY <1>2 DEF Ended, Yields, LegOK, Leg, Engages, TurnPC
<1>3. QED BY <1>1, <1>2

\* Legs yield.
LEMMA YieldAll ==
  ASSUME LegsInv, OptOutGrows, leg' \in [Legs -> Leg],
         \A k \in Legs : leg'[k] = leg[k] \/ Yields(leg[k], leg'[k])
  PROVE  LegsInv'
<1>1. \A k \in Legs : LegOK(leg'[k]) BY DEF LegsInv, Yields
<1>2. Engaged'
  <2> SUFFICES ASSUME NEW j \in Legs, NEW k \in Legs, j # k, Engages(leg'[j]), Engages(leg'[k])
               PROVE  leg'[j].room # leg'[k].room
    BY DEF Engaged
  <2>1. \A i \in Legs : Engages(leg'[i]) => Engages(leg[i]) /\ leg'[i].room = leg[i].room
    BY DEF Yields
  <2>2. QED BY <2>1 DEF LegsInv, Engaged
<1>3. Remembers'
  <2> SUFFICES ASSUME NEW k \in Legs, leg'[k].pc = "check", leg'[k].late
               PROVE  optOut'[leg'[k].contact] # "no"
    BY DEF Remembers
  <2>1. leg'[k] = leg[k] BY DEF Yields
  <2>2. leg[k].contact \in Contacts BY <2>1 DEF LegsInv, LegOK
  <2>3. QED BY <2>1, <2>2 DEF LegsInv, Remembers, OptOutGrows
<1>4. QED BY <1>1, <1>2, <1>3 DEF LegsInv

\* One leg yields.
LEMMA YieldStep ==
  ASSUME LegsInv, NEW l \in Legs, NEW r, Yields(leg[l], r), OptOutGrows,
         leg' = [leg EXCEPT ![l] = r]
  PROVE  LegsInv'
<1>1. leg'[l] = r /\ \A k \in Legs \ {l} : leg'[k] = leg[k]
  BY DEF LegsInv
<1>2. leg' \in [Legs -> Leg] BY <1>1 DEF LegsInv, Yields, LegOK
<1>3. QED BY <1>1, <1>2, YieldAll

\* How a leg changes when a conference ends: whoever is in it leaves.
Parts(r, new) == r.phone = "answered" /\ new = [r EXCEPT !.phone = "completed"]

LEMMA PartedLeg == \A q, r : Parted(q, r) = r \/ Parts(r, Parted(q, r))
BY DEF Parted, Parts

LEMMA PartsYields ==
  ASSUME NEW r, LegOK(r), NEW new, Parts(r, new)
  PROVE  /\ Yields(r, new) /\ r.pc = "idle" /\ r.saved
         /\ new.pc = r.pc /\ new.contact = r.contact /\ new.room = r.room
         /\ new.saved = r.saved /\ new.phone = "completed" /\ new.settled = r.settled
BY DEF Parts, Yields, LegOK, Leg, Engages, TurnPC

\* The room's hang-up: the turn goes on, and whoever was in the conference leaves.
LEMMA RoomHangsUp ==
  ASSUME LegsInv, NEW l \in Legs, HangUpRoom(l)
  PROVE  /\ leg[l].pc = "hangup" /\ leg' \in [Legs -> Leg]
         /\ leg'[l] = [leg[l] EXCEPT !.pc = "finish"]
         /\ \A k \in Legs \ {l} : leg'[k] = leg[k] \/ Parts(leg[k], leg'[k])
<1> DEFINE legs == [leg EXCEPT ![l].pc = "finish"]
<1>1. leg[l].pc = "hangup" /\ leg' = [k \in Legs |-> Parted(leg[l].room, legs[k])]
  BY DEF HangUpRoom, EndConference
<1>2. LegOK(leg[l]) BY DEF LegsInv
<1>3. leg[l].phone = "none" BY <1>1, <1>2 DEF LegOK
<1>4. legs[l] = [leg[l] EXCEPT !.pc = "finish"] /\ legs[l].phone = "none"
  BY <1>2, <1>3 DEF LegsInv, LegOK, Leg
<1>5. \A k \in Legs \ {l} : legs[k] = leg[k] BY DEF LegsInv
<1> HIDE DEF legs
<1>6. leg'[l] = [leg[l] EXCEPT !.pc = "finish"] BY <1>1, <1>4 DEF Parted
<1>7. ASSUME NEW k \in Legs \ {l} PROVE leg'[k] = leg[k] \/ Parts(leg[k], leg'[k])
  BY <1>1, <1>5, PartedLeg
<1>8. [leg[l] EXCEPT !.pc = "finish"] \in Leg BY <1>2 DEF LegOK, Leg, TurnPC
<1>9. ASSUME NEW k \in Legs PROVE leg'[k] \in Leg
  BY <1>6, <1>7, <1>8, PartsYields DEF LegsInv, Yields, LegOK
<1>10. QED BY <1>1, <1>6, <1>7, <1>9

\* A contact's hang-up: whoever was in the same conference leaves as well.
LEMMA ContactHangsUp ==
  ASSUME LegsInv, NEW l \in Legs, leg[l].phone = "answered",
         EndConference(leg[l].room, leg)
  PROVE  /\ leg' \in [Legs -> Leg] /\ Parts(leg[l], leg'[l])
         /\ \A k \in Legs : leg'[k] = leg[k] \/ Parts(leg[k], leg'[k])
<1>1. leg' = [k \in Legs |-> Parted(leg[l].room, leg[k])] BY DEF EndConference
<1>2. leg[l].room \in Rooms BY DEF LegsInv, LegOK
<1>3. leg[l].room \in Conference(leg[l].room) BY <1>2 DEF Conference
<1>4. Parts(leg[l], leg'[l]) BY <1>1, <1>3 DEF Parted, Parts
<1>5. \A k \in Legs : leg'[k] = leg[k] \/ Parts(leg[k], leg'[k]) BY <1>1, PartedLeg
<1>6. \A k \in Legs : leg'[k] \in Leg BY <1>5, PartsYields DEF LegsInv, Yields, LegOK
<1>7. QED BY <1>1, <1>4, <1>5, <1>6

\* A webhook of an engaged leg that ceases to be runs its agent's next turn.
LEMMA TurnStarts ==
  ASSUME LegsInv, NEW l \in Legs, NEW r, LegOK(r), r.pc # "check", r.phone # "none",
         ~Engages(r), Engages(leg[l]), leg[l].room \in Rooms, OptOutGrows,
         RunTurn(leg[l].room, [leg EXCEPT ![l] = r])
  PROVE  LegsInv'
<1> DEFINE q == leg[l].room
<1> DEFINE legs == [leg EXCEPT ![l] = r]
<1>1. PICK k \in Legs : legs[k] = NoLeg /\ leg' = [legs EXCEPT ![k] = Begun(q)]
  BY DEF RunTurn
<1>2. legs \in [Legs -> Leg] /\ legs[l] = r /\ \A i \in Legs \ {l} : legs[i] = leg[i]
  BY DEF LegsInv, LegOK
<1>3. k # l BY <1>1, <1>2 DEF NoLeg
<1> HIDE DEF legs
<1>4. /\ leg'[l] = r /\ leg'[k] = Begun(q)
      /\ \A i \in Legs \ {k, l} : leg'[i] = leg[i]
  BY <1>1, <1>2, <1>3
<1>5. LegOK(Begun(q)) /\ Begun(q).room = q /\ Begun(q).pc = "start" BY BegunOK
<1> HIDE DEF q
<1>6. leg' \in [Legs -> Leg] /\ \A i \in Legs : LegOK(leg'[i])
  BY <1>1, <1>2, <1>4, <1>5 DEF LegsInv, LegOK
<1>7. Engaged'
  <2> SUFFICES ASSUME NEW i \in Legs, NEW j \in Legs, i # j, Engages(leg'[i]), Engages(leg'[j])
               PROVE  leg'[i].room # leg'[j].room
    BY DEF Engaged
  <2>1. i # l /\ j # l BY <1>4
  <2>2. \A x \in Legs \ {l} : Engages(leg[x]) => leg[x].room # q
    BY DEF LegsInv, Engaged, q
  <2>3. CASE i # k /\ j # k BY <1>4, <2>1, <2>3 DEF LegsInv, Engaged
  <2>4. CASE i = k BY <1>4, <1>5, <2>1, <2>2, <2>4
  <2>5. CASE j = k BY <1>4, <1>5, <2>1, <2>2, <2>5
  <2>6. QED BY <2>3, <2>4, <2>5
<1>8. Remembers'
  <2> SUFFICES ASSUME NEW i \in Legs, leg'[i].pc = "check", leg'[i].late
               PROVE  optOut'[leg'[i].contact] # "no"
    BY DEF Remembers
  <2>1. i \notin {k, l} /\ leg'[i] = leg[i] BY <1>4, <1>5
  <2>2. leg[i].contact \in Contacts BY <2>1 DEF LegsInv, LegOK
  <2>3. QED BY <2>1, <2>2 DEF LegsInv, Remembers, OptOutGrows
<1>9. QED BY <1>6, <1>7, <1>8 DEF LegsInv

\* A step that leaves the legs alone.
LEMMA LegsStay ==
  ASSUME LegsInv, OptOutGrows, leg' = leg
  PROVE  LegsInv'
<1>1. Remembers' BY DEF LegsInv, LegOK, Remembers, OptOutGrows
<1>2. QED BY <1>1 DEF LegsInv, Engaged
-----------------------------------------------------------------------------
(* Every step preserves the types.                                         *)

Rest ==
  /\ ahead \subseteq Contacts \X Contacts
  /\ optOut \in [Contacts -> {"no", "set", "done"}]
  /\ room \in [Rooms -> {"none", "opening", "open"}]
  /\ status \in {"running", "complete"}
  /\ edits \in Nat
  /\ tried \subseteq Contacts

TypeInv == GoodTable(row) /\ LegsInv /\ Rest

LEMMA Typed == TypeInv => TypeOK
BY DEF TypeInv, GoodTable, GoodRow, LegsInv, Rest, TypeOK

LEMMA InitTyped == Init => TypeInv
<1> SUFFICES ASSUME Init PROVE TypeInv
  OBVIOUS
<1>1. GoodRow([Fresh EXCEPT !.state = "absent"])
  BY QueueConstantsOK DEF GoodRow, Fresh, Entry
<1>2. GoodTable(row)
  <2>1. \A c \in Contacts : GoodRow(row[c]) BY <1>1, FreshRow DEF Init
  <2>2. row = [c \in Contacts |-> row[c]] BY DEF Init
  <2>3. QED BY <2>1, <2>2 DEF GoodTable, GoodRow
<1>3. LegsInv
  <2>1. \A l \in Legs : leg[l] = NoLeg BY DEF Init
  <2>2. \A l \in Legs : LegOK(leg[l]) /\ ~Engages(leg[l]) BY <2>1, NoLegOK
  <2>3. leg \in [Legs -> Leg] BY NoLegOK DEF Init, LegOK
  <2>4. Remembers BY <2>1 DEF Remembers, NoLeg
  <2>5. QED BY <2>2, <2>3, <2>4 DEF LegsInv, Engaged
<1>4. Rest BY DEF Init, Rest
<1>5. QED BY <1>2, <1>3, <1>4 DEF TypeInv

\* The turn goes on to its next statement.
LEMMA GotoYields ==
  ASSUME NEW r, LegOK(r), r.pc # "idle", NEW pc \in TurnPC \ {"start", "check"},
         pc \in {"sweep", "claim", "hangup", "finish"} =>
           r.pc \in {"start", "sweep", "claim", "hangup"},
         pc \in {"retire", "save"} <=> r.pc \in {"retire", "save"},
         pc \in {"window", "prep", "dial"} =>
           r.pc \in {"check", "window", "prep", "dial"} /\ ~r.late
  PROVE  Yields(r, [r EXCEPT !.pc = pc])
BY DEF Yields, LegOK, Leg, Engages, TurnPC

\* A claim that comes to nothing: the turn looks for another contact.
LEMMA AgainYields ==
  ASSUME NEW r, LegOK(r), r.pc \in {"check", "window"}, NEW pc \in {"claim", "hangup"},
         NEW n \in Nat, NEW skipped \in SUBSET Contacts
  PROVE  /\ Yields(r, [r EXCEPT !.contact = NoContact, !.late = FALSE, !.refused = n, !.pc = pc])
         /\ Yields(r, [r EXCEPT !.contact = NoContact, !.late = FALSE, !.refused = n,
                                !.skipped = skipped, !.pc = pc])
BY DEF Yields, LegOK, Leg, Engages, TurnPC

LEMMA PlacedYields ==
  ASSUME NEW r, LegOK(r), r.pc = "dial"
  PROVE  /\ Yields(r, [[r EXCEPT !.phone = "ringing"] EXCEPT !.pc = "retire"])
         /\ Yields(r, Ended([r EXCEPT !.phone = "ringing"]))
<1>1. Yields(r, [[r EXCEPT !.phone = "ringing"] EXCEPT !.pc = "retire"])
  BY DEF Yields, LegOK, Leg, Engages, TurnPC
<1>2. [r EXCEPT !.phone = "ringing"].phone = "ringing"
  BY DEF LegOK, Leg
<1>3. Ended([r EXCEPT !.phone = "ringing"]) = [[r EXCEPT !.phone = "ringing"] EXCEPT !.pc = "idle"]
  BY <1>2 DEF Ended
<1>4. Yields(r, [[r EXCEPT !.phone = "ringing"] EXCEPT !.pc = "idle"])
  BY DEF Yields, LegOK, Leg, Engages, TurnPC
<1>5. QED BY <1>1, <1>3, <1>4

\* What the call does: it is answered or not, ends, is settled.
LEMMA CallYields ==
  ASSUME NEW r, LegOK(r), r.phone # "none"
  PROVE  /\ r.phone = "ringing" =>
              /\ Yields(r, [r EXCEPT !.phone = "completed"])
              /\ Yields(r, [r EXCEPT !.phone = "noanswer"])
         /\ r.phone = "ringing" /\ r.saved =>
              /\ Yields(r, [r EXCEPT !.phone = "answered"])
              /\ Yields(r, [r EXCEPT !.phone = "voicemail"])
         /\ r.phone \in {"answered", "voicemail"} => Yields(r, [r EXCEPT !.phone = "completed"])
         /\ r.phone \in {"completed", "noanswer"} => Yields(r, [r EXCEPT !.settled = "done"])
         /\ r.phone \in {"completed", "noanswer"} /\ r.settled = "no" =>
              Yields(r, [r EXCEPT !.settled = "claimed"])
BY DEF Yields, LegOK, Leg, Engages, TurnPC

LEMMA PutType ==
  ASSUME TypeInv, NEW l \in Legs, NEW r, Put(l, r), Yields(leg[l], r),
         GoodTable(row'), Rest', UNCHANGED optOut
  PROVE  TypeInv'
<1>1. OptOutGrows BY DEF OptOutGrows
<1>2. LegsInv' BY <1>1, YieldStep DEF Put, TypeInv
<1>3. QED BY <1>2 DEF TypeInv

LEMMA TurnType ==
  ASSUME TypeInv, NEW l \in Legs, TurnStep(l)
  PROVE  TypeInv'
<1> DEFINE r == leg[l]
<1>0. LegOK(r) /\ GoodTable(row) BY DEF TypeInv, LegsInv
<1>e. Yields(r, Ended(r)) BY <1>0, EndedYields
<1>c. ASSUME r.contact \in Contacts
      PROVE  GoodTable([row EXCEPT ![r.contact] = Released(row[r.contact])])
  BY <1>0, <1>c, RowSet, ReleasedRow DEF GoodTable
<1>1. CASE StartTurn(l)
  <2>1. r.pc = "start" /\ UNCHANGED <<row, optOut>> /\ Rest'
    BY <1>1 DEF StartTurn, TypeInv, Rest
  <2>2. CASE Goto(l, "sweep")
    <3>1. Yields(r, [r EXCEPT !.pc = "sweep"]) BY <1>0, <2>1, GotoYields DEF TurnPC
    <3>2. QED BY <1>0, <2>1, <2>2, <3>1, PutType DEF Goto
  <2>3. CASE EndTurn(l) BY <1>0, <1>e, <2>1, <2>3, PutType DEF EndTurn
  <2>4. QED BY <1>1, <2>2, <2>3 DEF StartTurn
<1>2. CASE Sweep(l)
  <2>1. r.pc = "sweep" /\ UNCHANGED optOut /\ Rest' /\ Goto(l, "claim")
    BY <1>2 DEF Sweep, TypeInv, Rest
  <2>2. GoodTable(row') BY <1>0, <1>2, ResetRow DEF Sweep, Attempted
  <2>3. Yields(r, [r EXCEPT !.pc = "claim"]) BY <1>0, <2>1, GotoYields DEF TurnPC
  <2>4. QED BY <2>1, <2>2, <2>3, PutType DEF Goto
<1>4. CASE ClaimNothing(l)
  <2>1. r.pc = "claim" /\ UNCHANGED <<row, optOut>> /\ Rest' /\ Goto(l, "hangup")
    BY <1>4 DEF ClaimNothing, TypeInv, Rest
  <2>2. Yields(r, [r EXCEPT !.pc = "hangup"]) BY <1>0, <2>1, GotoYields DEF TurnPC
  <2>3. QED BY <1>0, <2>1, <2>2, PutType DEF Goto
<1>5. CASE CheckOptOut(l)
  <2>1. r.pc = "check" /\ UNCHANGED optOut /\ Rest' /\ r.contact \in Contacts
    BY <1>0, <1>5 DEF CheckOptOut, TypeInv, Rest, LegOK
  <2>2. CASE optOut[r.contact] = "no"
    <3>1. Goto(l, "window") /\ UNCHANGED row BY <1>5, <2>2 DEF CheckOptOut
    <3>2. ~r.late BY <1>0, <2>1, <2>2 DEF TypeInv, LegsInv, Remembers, LegOK, Leg
    <3>3. Yields(r, [r EXCEPT !.pc = "window"]) BY <1>0, <2>1, <3>2, GotoYields DEF TurnPC
    <3>4. QED BY <1>0, <2>1, <3>1, <3>3, PutType DEF Goto
  <2>3. CASE optOut[r.contact] # "no"
    <3> DEFINE n == r.refused + 1
    <3> DEFINE pc == IF n < MaxOptOutSkips THEN "claim" ELSE "hangup"
    <3> DEFINE new == [r EXCEPT !.contact = NoContact, !.late = FALSE, !.refused = n, !.pc = pc]
    <3>1. n \in Nat /\ pc \in {"claim", "hangup"} BY <1>0 DEF LegOK, Leg
    <3>2. Put(l, new) /\ SetRow(r.contact, Dequeued(row[r.contact]))
      BY <1>5, <2>3 DEF CheckOptOut
    <3> HIDE DEF n, pc
    <3>3. Yields(r, new) BY <1>0, <2>1, <3>1, AgainYields
    <3>4. GoodTable(row')
      BY <1>0, <2>1, <3>2, RowSet, DequeuedRow DEF GoodTable, SetRow
    <3>5. QED BY <2>1, <3>2, <3>3, <3>4, PutType
  <2>4. QED BY <2>2, <2>3
<1>6. CASE CheckWindow(l)
  <2>1. r.pc = "window" /\ UNCHANGED optOut /\ Rest' /\ r.contact \in Contacts /\ ~r.late
    BY <1>0, <1>6 DEF CheckWindow, TypeInv, Rest, LegOK
  <2>2. CASE r.contact \notin Night
    <3>1. Goto(l, "prep") /\ UNCHANGED row BY <1>6, <2>2 DEF CheckWindow
    <3>2. Yields(r, [r EXCEPT !.pc = "prep"]) BY <1>0, <2>1, GotoYields DEF TurnPC
    <3>3. QED BY <1>0, <2>1, <3>1, <3>2, PutType DEF Goto
  <2>3. CASE r.contact \in Night
    <3> DEFINE skipped == r.skipped \cup {r.contact}
    <3> DEFINE stop == r.contact \in r.skipped \/ Cardinality(skipped) >= MaxWindowSkips
    <3> DEFINE pc == IF stop THEN "hangup" ELSE "claim"
    <3> DEFINE new == [r EXCEPT !.contact = NoContact, !.late = FALSE, !.refused = 0,
                                !.skipped = skipped, !.pc = pc]
    <3>1. skipped \in SUBSET Contacts /\ pc \in {"claim", "hangup"}
      BY <1>0, <2>1 DEF LegOK, Leg
    <3>2. Put(l, new) /\ SetRow(r.contact, Released(row[r.contact]))
      BY <1>6, <2>3 DEF CheckWindow
    <3> HIDE DEF skipped, stop, pc
    <3>3. Yields(r, new) BY <1>0, <2>1, <3>1, AgainYields
    <3>4. GoodTable(row') BY <1>c, <2>1, <3>2 DEF SetRow
    <3>5. QED BY <2>1, <3>2, <3>3, <3>4, PutType
  <2>4. QED BY <2>2, <2>3
<1>7. CASE Prepare(l)
  <2>1. r.pc = "prep" /\ UNCHANGED optOut /\ Rest' /\ r.contact \in Contacts /\ ~r.late
    BY <1>0, <1>7 DEF Prepare, TypeInv, Rest, LegOK
  <2>2. CASE Goto(l, "dial") /\ UNCHANGED row
    <3>1. Yields(r, [r EXCEPT !.pc = "dial"]) BY <1>0, <2>1, GotoYields DEF TurnPC
    <3>2. QED BY <1>0, <2>1, <2>2, <3>1, PutType DEF Goto
  <2>3. CASE EndTurn(l) /\ Revert(r.contact)
    <3>1. GoodTable(row') BY <1>0, <1>c, <2>1, <2>3 DEF Revert, Attempted
    <3>2. QED BY <1>e, <2>1, <2>3, <3>1, PutType DEF EndTurn
  <2>4. QED BY <1>7, <2>2, <2>3 DEF Prepare
<1>8. CASE Dial(l)
  <2>1. r.pc = "dial" /\ UNCHANGED optOut /\ r.contact \in Contacts
    BY <1>0, <1>8 DEF Dial, LegOK
  <2>2. Rest' BY <1>8, <2>1 DEF Dial, TypeInv, Rest
  <2>3. /\ Yields(r, [[r EXCEPT !.phone = "ringing"] EXCEPT !.pc = "retire"])
        /\ Yields(r, Ended([r EXCEPT !.phone = "ringing"]))
    BY <1>0, <2>1, PlacedYields
  <2>4. CASE Put(l, [Placed(l) EXCEPT !.pc = "retire"]) /\ UNCHANGED row
    BY <1>0, <2>1, <2>2, <2>3, <2>4, PutType DEF Placed
  <2>5. CASE EndTurn(l) /\ Revert(r.contact)
    <3>1. GoodTable(row') BY <1>0, <1>c, <2>1, <2>5 DEF Revert, Attempted
    <3>2. QED BY <1>e, <2>1, <2>2, <2>5, <3>1, PutType DEF EndTurn
  <2>6. CASE DialUnclear(l)
    <3>1. GoodTable(row') BY <1>0, <2>6, DequeuedTable DEF DialUnclear, Attempted
    <3>2. Put(l, Ended(Placed(l))) \/ EndTurn(l) BY <2>6 DEF DialUnclear
    <3>3. QED BY <1>e, <2>1, <2>2, <2>3, <3>1, <3>2, PutType DEF EndTurn, Placed
  <2>7. QED BY <1>8, <2>4, <2>5, <2>6 DEF Dial
<1>9. CASE Retire(l)
  <2>1. r.pc = "retire" /\ UNCHANGED optOut /\ Rest' /\ Goto(l, "save")
    BY <1>9 DEF Retire, TypeInv, Rest
  <2>2. GoodTable(row') BY <1>0, <1>9, DequeuedTable DEF Retire
  <2>3. Yields(r, [r EXCEPT !.pc = "save"]) BY <1>0, <2>1, GotoYields DEF TurnPC
  <2>4. QED BY <2>1, <2>2, <2>3, PutType DEF Goto
<1>10. CASE Save(l)
  <2>1. r.pc = "save" /\ UNCHANGED <<row, optOut>> /\ Rest'
        /\ Put(l, [r EXCEPT !.pc = "idle", !.saved = TRUE])
    BY <1>10 DEF Save, TypeInv, Rest
  <2>2. Yields(r, [r EXCEPT !.pc = "idle", !.saved = TRUE])
    BY <1>0, <2>1 DEF Yields, LegOK, Leg, Engages, TurnPC
  <2>3. QED BY <1>0, <2>1, <2>2, PutType
<1>11. CASE HangUpRoom(l)
  <2>1. UNCHANGED <<row, optOut>> BY <1>11 DEF HangUpRoom
  <2>2. Rest' BY <1>11 DEF HangUpRoom, EndConference, TypeInv, Rest
  <2>3. r.pc = "hangup" /\ leg' \in [Legs -> Leg] /\ leg'[l] = [r EXCEPT !.pc = "finish"]
        /\ \A k \in Legs \ {l} : leg'[k] = leg[k] \/ Parts(leg[k], leg'[k])
    BY <1>11, RoomHangsUp DEF TypeInv
  <2>4. Yields(r, leg'[l]) BY <1>0, <2>3, GotoYields DEF TurnPC
  <2>5. \A k \in Legs : leg'[k] = leg[k] \/ Yields(leg[k], leg'[k])
    BY <2>3, <2>4, PartsYields DEF TypeInv, LegsInv
  <2>6. OptOutGrows BY <2>1 DEF OptOutGrows
  <2>7. LegsInv' BY <2>3, <2>5, <2>6, YieldAll DEF TypeInv
  <2>8. QED BY <1>0, <2>1, <2>2, <2>7 DEF TypeInv
<1>12. CASE Finish(l)
  <2>1. UNCHANGED <<row, optOut>> /\ EndTurn(l) BY <1>12 DEF Finish
  <2>2. Rest' BY <1>12 DEF Finish, TypeInv, Rest
  <2>3. QED BY <1>0, <1>e, <2>1, <2>2, PutType DEF EndTurn
<1>13. CASE Raise(l)
  <2>1. UNCHANGED <<row, optOut>> /\ EndTurn(l) /\ Rest' BY <1>13 DEF Raise, TypeInv, Rest
  <2>2. QED BY <1>0, <1>e, <2>1, PutType DEF EndTurn
<1>3. CASE Claim(l)
  <2>1. PICK c \in Contacts :
          /\ SetRow(c, Claimed(row[c], User(r.room)))
          /\ Put(l, [r EXCEPT !.pc = "check", !.contact = c, !.late = optOut[c] # "no"])
    BY <1>3 DEF Claim
  <2>2. r.pc = "claim" /\ UNCHANGED optOut /\ Rest' /\ r.room \in Rooms /\ r.phone = "none"
    BY <1>0, <1>3 DEF Claim, TypeInv, Rest, LegOK
  <2>3. GoodTable(row') BY <1>0, <2>1, <2>2, RowSet, ClaimedRow, UserAgent DEF GoodTable, SetRow
  <2> DEFINE late == optOut[c] # "no"
  <2> DEFINE new == [r EXCEPT !.pc = "check", !.contact = c, !.late = late]
  <2>4. late \in BOOLEAN OBVIOUS
  <2>5. leg' = [leg EXCEPT ![l] = new] BY <2>1 DEF Put
  <2> HIDE DEF late
  <2>6. LegOK(new) /\ new.room = r.room /\ new.pc = "check" /\ new.contact = c /\ new.late = late
    BY <1>0, <2>2, <2>4 DEF LegOK, Leg, TurnPC
  <2> HIDE DEF new
  <2>7. leg'[l] = new /\ \A k \in Legs \ {l} : leg'[k] = leg[k] BY <2>5 DEF TypeInv, LegsInv
  <2>8. leg' \in [Legs -> Leg] /\ \A k \in Legs : LegOK(leg'[k])
    BY <2>5, <2>6, <2>7 DEF TypeInv, LegsInv, LegOK
  <2>9. Engaged'
    <3>1. Engages(r) BY <2>2 DEF Engages, TurnPC
    <3>2. \A k \in Legs : Engages(leg'[k]) => Engages(leg[k]) /\ leg'[k].room = leg[k].room
      BY <2>6, <2>7, <3>1
    <3>3. QED BY <3>2 DEF TypeInv, LegsInv, Engaged
  <2>10. Remembers'
    BY <2>2, <2>6, <2>7 DEF TypeInv, LegsInv, Remembers, late
  <2>11. QED BY <2>2, <2>3, <2>8, <2>9, <2>10 DEF TypeInv, LegsInv
<1>14. QED BY <1>1, <1>2, <1>3, <1>4, <1>5, <1>6, <1>7, <1>8, <1>9, <1>10, <1>11, <1>12, <1>13
       DEF TurnStep

LEMMA CallType ==
  ASSUME TypeInv, NEW l \in Legs, CallStep(l)
  PROVE  TypeInv'
<1> DEFINE r == leg[l]
<1>0. LegOK(r) /\ GoodTable(row) BY DEF TypeInv, LegsInv
<1>p. ASSUME r.phone # "none"
      PROVE  r.room \in Rooms /\ r.contact \in Contacts
  BY <1>0, <1>p DEF LegOK
<1>1. CASE AnsweredUnknown(l)
  <2>1. r.phone = "ringing" /\ UNCHANGED <<row, optOut>> /\ Rest'
        /\ Put(l, [r EXCEPT !.phone = "completed"])
    BY <1>1 DEF AnsweredUnknown, Rings, TypeInv, Rest
  <2>2. QED BY <1>0, <2>1, CallYields, PutType
<1>2. CASE AnsweredByHuman(l)
  <2>1. r.phone = "ringing" /\ r.saved /\ UNCHANGED <<row, optOut>> /\ Rest'
        /\ Put(l, [r EXCEPT !.phone = "answered"])
    BY <1>2 DEF AnsweredByHuman, Rings, TypeInv, Rest
  <2>2. QED BY <1>0, <2>1, CallYields, PutType
<1>3. CASE AnsweredByMachine(l)
  <2>1. /\ r.phone = "ringing" /\ r.saved /\ UNCHANGED optOut /\ Rest'
        /\ MachineDequeue(r.contact, User(r.room))
    BY <1>3 DEF AnsweredByMachine, Rings, TypeInv, Rest
  <2>2. GoodTable(row')
    <3>1. CASE GroupHouseholds
      BY <1>0, <2>1, <3>1, DequeuedTable DEF MachineDequeue
    <3>2. CASE ~GroupHouseholds
      <4>1. GoodRow(Dequeued(row[r.contact])) BY <1>0, <1>p, <2>1, DequeuedRow DEF GoodTable
      <4>2. QED BY <1>0, <1>p, <2>1, <3>2, <4>1, RowSet DEF MachineDequeue, SetRow
    <3>3. QED BY <3>1, <3>2
  <2> DEFINE new == [r EXCEPT !.phone = "voicemail"]
  <2>3. Yields(r, new) BY <1>0, <2>1, CallYields
  <2>4. OptOutGrows BY <2>1 DEF OptOutGrows
  <2>5. CASE leg' = [leg EXCEPT ![l].phone = "voicemail"]
    BY <2>1, <2>2, <2>3, <2>5, PutType DEF Put
  <2>6. CASE RunTurn(r.room, [leg EXCEPT ![l].phone = "voicemail"])
    <3>1. new.phone = "voicemail" /\ new.pc = r.pc BY <1>0 DEF LegOK, Leg
    <3>2. r.pc \notin TurnPC \ {"retire", "save"} BY <1>0, <2>1 DEF LegOK, TurnPC
    <3>3. ~Engages(new) /\ Engages(r) BY <2>1, <3>1, <3>2 DEF Engages
    <3>4. LegOK(new) /\ new.pc # "check" BY <2>3 DEF Yields
    <3>5. RunTurn(r.room, [leg EXCEPT ![l] = new]) BY <2>6
    <3> HIDE DEF new
    <3>6. LegsInv' BY <1>p, <2>1, <2>4, <3>1, <3>3, <3>4, <3>5, TurnStarts DEF TypeInv
    <3>7. QED BY <2>1, <2>2, <3>6 DEF TypeInv
  <2>7. QED BY <1>3, <2>5, <2>6 DEF AnsweredByMachine
<1>4. CASE MachineHungUp(l)
  <2>1. r.phone = "ringing" /\ UNCHANGED <<row, optOut>> /\ Rest'
        /\ Put(l, [r EXCEPT !.phone = "completed"])
    BY <1>4 DEF MachineHungUp, Rings, TypeInv, Rest
  <2>2. QED BY <1>0, <2>1, CallYields, PutType
<1>5. CASE NotAnswered(l)
  <2>1. r.phone = "ringing" /\ UNCHANGED <<row, optOut>> /\ Rest'
        /\ Put(l, [r EXCEPT !.phone = "noanswer"])
    BY <1>5 DEF NotAnswered, Rings, TypeInv, Rest
  <2>2. QED BY <1>0, <2>1, CallYields, PutType
<1>6. CASE HangUp(l)
  <2>1. UNCHANGED <<row, optOut>> BY <1>6 DEF HangUp
  <2>2. Rest' BY <1>6 DEF HangUp, EndConference, TypeInv, Rest
  <2>3. CASE r.phone = "voicemail" /\ Put(l, [r EXCEPT !.phone = "completed"])
    BY <1>0, <2>1, <2>2, <2>3, CallYields, PutType
  <2>4. CASE r.phone = "answered" /\ EndConference(r.room, leg)
    <3>1. leg' \in [Legs -> Leg] /\ \A k \in Legs : leg'[k] = leg[k] \/ Parts(leg[k], leg'[k])
      BY <2>4, ContactHangsUp DEF TypeInv
    <3>2. \A k \in Legs : leg'[k] = leg[k] \/ Yields(leg[k], leg'[k])
      BY <3>1, PartsYields DEF TypeInv, LegsInv
    <3>3. OptOutGrows BY <2>1 DEF OptOutGrows
    <3>4. LegsInv' BY <3>1, <3>2, <3>3, YieldAll DEF TypeInv
    <3>5. QED BY <1>0, <2>1, <2>2, <3>4 DEF TypeInv
  <2>5. QED BY <1>6, <2>3, <2>4 DEF HangUp
<1>7. CASE StatusCallback(l)
  <2>1. r.phone \in {"completed", "noanswer"} /\ UNCHANGED <<row, optOut>> /\ Rest'
    BY <1>7 DEF StatusCallback, TypeInv, Rest
  <2>2. CASE Put(l, [r EXCEPT !.settled = "done"])
    BY <1>0, <2>1, <2>2, CallYields, PutType
  <2>3. CASE r.settled = "no" /\ Put(l, [r EXCEPT !.settled = "claimed"])
    BY <1>0, <2>1, <2>3, CallYields, PutType
  <2>4. CASE leg' = leg
    <3>1. OptOutGrows BY <2>1 DEF OptOutGrows
    <3>2. QED BY <1>0, <2>1, <2>4, <3>1, LegsStay DEF TypeInv
  <2>5. [r EXCEPT !.settled = r.settled] = r BY <1>0 DEF LegOK, Leg
  <2>6. [leg EXCEPT ![l] = r] = leg BY DEF TypeInv, LegsInv
  <2>7. CASE ~r.saved BY <1>7, <2>2, <2>7 DEF StatusCallback
  <2>8. CASE r.saved /\ ClaimTerminal(r)
    BY <1>7, <2>3, <2>8 DEF StatusCallback, ClaimTerminal
  <2>9. CASE r.saved /\ ~ClaimTerminal(r)
    BY <1>7, <2>4, <2>5, <2>6, <2>9 DEF StatusCallback, Put
  <2>10. QED BY <2>7, <2>8, <2>9
<1>8. CASE HandleStatus(l)
  <2>1. r.phone \in {"completed", "noanswer"} /\ r.settled = "claimed" /\ UNCHANGED optOut /\ Rest'
    BY <1>0, <1>8 DEF HandleStatus, TypeInv, Rest, LegOK
  <2>2. GoodTable(row') BY <1>0, <1>8, DequeuedTable DEF HandleStatus
  <2> DEFINE new == [r EXCEPT !.settled = "done"]
  <2>3. Yields(r, new) BY <1>0, <2>1, CallYields
  <2>4. OptOutGrows BY <2>1 DEF OptOutGrows
  <2>5. CASE leg' = [leg EXCEPT ![l].settled = "done"]
    BY <2>1, <2>2, <2>3, <2>5, PutType DEF Put
  <2>6. CASE RunTurn(r.room, [leg EXCEPT ![l].settled = "done"]) /\ TriggersTurn(r)
    <3>1. new.phone = r.phone /\ new.pc = r.pc /\ new.settled = "done" BY <1>0 DEF LegOK, Leg
    <3>2. r.pc \notin TurnPC \ {"retire", "save"} BY <1>0, <2>1 DEF LegOK, TurnPC
    <3>3. ~Engages(new) /\ Engages(r)
      BY <2>1, <2>6, <3>1, <3>2 DEF Engages, TriggersTurn
    <3>4. LegOK(new) /\ new.pc # "check" BY <2>3 DEF Yields
    <3>5. RunTurn(r.room, [leg EXCEPT ![l] = new]) BY <2>6
    <3> HIDE DEF new
    <3>6. LegsInv' BY <1>p, <2>1, <2>4, <3>1, <3>3, <3>4, <3>5, TurnStarts DEF TypeInv
    <3>7. QED BY <2>1, <2>2, <3>6 DEF TypeInv
  <2>7. QED BY <1>8, <2>5, <2>6 DEF HandleStatus
<1>9. CASE Forget(l)
  <2>1. UNCHANGED <<row, optOut>> /\ Rest' /\ Put(l, NoLeg) BY <1>9 DEF Forget, TypeInv, Rest
  <2>2. Yields(r, NoLeg) BY NoLegOK DEF Yields, NoLeg
  <2>3. QED BY <1>0, <2>1, <2>2, PutType
<1>10. QED BY <1>1, <1>2, <1>3, <1>4, <1>5, <1>6, <1>7, <1>8, <1>9 DEF CallStep

LEMMA KillType ==
  ASSUME TypeInv, NEW l \in Legs, Kill(l)
  PROVE  TypeInv'
<1>1. LegOK(leg[l]) /\ GoodTable(row) BY DEF TypeInv, LegsInv
<1>2. UNCHANGED <<row, optOut>> BY DEF Kill
<1>3. Rest' BY DEF Kill, TypeInv, Rest
<1>4. CASE EndTurn(l) BY <1>1, <1>2, <1>3, <1>4, EndedYields, PutType DEF EndTurn
<1>5. CASE leg[l].settled = "claimed" /\ Put(l, [leg[l] EXCEPT !.settled = "done"])
  <2>1. leg[l].phone \in {"completed", "noanswer"} BY <1>1, <1>5 DEF LegOK
  <2>2. QED BY <1>1, <1>2, <1>3, <1>5, <2>1, CallYields, PutType
<1>6. QED BY <1>4, <1>5 DEF Kill

LEMMA AgentType ==
  ASSUME TypeInv, NEW q \in Rooms, RoomStep(q) \/ AgentLeaves(q)
  PROVE  TypeInv'
<1>1. UNCHANGED <<row, optOut>> BY DEF RoomStep, AgentJoins, RoomOpens, AgentLeaves
<1>2. Rest' BY DEF RoomStep, AgentJoins, RoomOpens, AgentLeaves, TypeInv, Rest
<1>3. OptOutGrows BY <1>1 DEF OptOutGrows
<1>4. CASE leg' = leg BY <1>1, <1>2, <1>3, <1>4, LegsStay DEF TypeInv
<1>5. CASE AgentJoins(q)
  <2>1. PICK k \in Legs : leg[k] = NoLeg /\ leg' = [leg EXCEPT ![k] = Begun(q)]
    BY <1>5 DEF AgentJoins, RunTurn
  <2>2. LegOK(Begun(q)) /\ Begun(q).room = q /\ Begun(q).pc = "start" BY BegunOK
  <2>3. leg'[k] = Begun(q) /\ \A i \in Legs \ {k} : leg'[i] = leg[i] /\ leg[i].room # q
    BY <1>5, <2>1 DEF TypeInv, LegsInv, AgentJoins
  <2>4. leg' \in [Legs -> Leg] /\ \A i \in Legs : LegOK(leg'[i])
    BY <2>1, <2>2, <2>3 DEF TypeInv, LegsInv, LegOK
  <2>5. Engaged' BY <2>2, <2>3 DEF TypeInv, LegsInv, Engaged
  <2>6. Remembers' BY <1>1, <2>2, <2>3 DEF TypeInv, LegsInv, Remembers
  <2>7. QED BY <1>1, <1>2, <2>4, <2>5, <2>6 DEF TypeInv, LegsInv
<1>6. QED BY <1>4, <1>5 DEF RoomStep, RoomOpens, AgentLeaves

LEMMA EnqueuedTable ==
  ASSUME NEW q, GoodTable(q), NEW c \in Contacts, NEW requeue \in BOOLEAN
  PROVE  GoodTable(EnqueueEntry(q, c, requeue))
<1>1. GoodRow(Released(q[c])) BY ReleasedRow DEF GoodTable
<1>2. QED BY <1>1, FreshRow, RowSet DEF EnqueueEntry

LEMMA PeopleType ==
  ASSUME TypeInv, NEW c \in Contacts,
         \/ Stop(c) \/ StopDequeues(c) \/ ClaimAges(c)
         \/ \E a \in Agents : DequeueByUser(c, a)
         \/ \E requeue \in BOOLEAN : Enqueue(c, requeue)
  PROVE  TypeInv'
<1>0. GoodTable(row) /\ GoodRow(row[c]) BY DEF TypeInv, GoodTable
<1>1. CASE Stop(c)
  <2>1. OptOutGrows BY <1>1 DEF Stop, OptOutGrows, TypeInv, Rest
  <2>2. Rest' BY <1>1 DEF Stop, Edit, TypeInv, Rest
  <2>3. QED BY <1>0, <1>1, <2>1, <2>2, LegsStay DEF Stop, TypeInv
<1>2. CASE StopDequeues(c)
  <2>1. OptOutGrows BY <1>2 DEF StopDequeues, OptOutGrows, TypeInv, Rest
  <2>2. Rest' BY <1>2 DEF StopDequeues, TypeInv, Rest
  <2>3. GoodTable(row')
    <3> DEFINE e == IF row[c].state = "absent" THEN row[c] ELSE Dequeued(row[c])
    <3>1. GoodRow(e) BY <1>0, DequeuedRow
    <3>2. row' = [row EXCEPT ![c] = e] BY <1>2 DEF StopDequeues, SetRow
    <3> HIDE DEF e
    <3>3. QED BY <1>0, <3>1, <3>2, RowSet
  <2>4. QED BY <1>2, <2>1, <2>2, <2>3, LegsStay DEF StopDequeues, TypeInv
<1>3. CASE ClaimAges(c)
  <2>1. UNCHANGED <<optOut, leg>> /\ Rest' BY <1>3 DEF ClaimAges, TypeInv, Rest
  <2>2. OptOutGrows BY <2>1 DEF OptOutGrows
  <2>3. GoodRow([row[c] EXCEPT !.claim = "stale"]) BY <1>0 DEF GoodRow, Entry
  <2>4. GoodTable(row') BY <1>0, <1>3, <2>3, RowSet DEF ClaimAges, SetRow
  <2>5. QED BY <2>1, <2>2, <2>4, LegsStay DEF TypeInv
<1>4. ASSUME NEW a \in Agents, DequeueByUser(c, a) PROVE TypeInv'
  <2>1. UNCHANGED <<optOut, leg>> BY <1>4 DEF DequeueByUser
  <2>2. Rest' BY <1>4 DEF DequeueByUser, Edit, TypeInv, Rest
  <2>3. OptOutGrows BY <2>1 DEF OptOutGrows
  <2>4. GoodTable(row') BY <1>0, <1>4, DequeuedTable DEF DequeueByUser
  <2>5. QED BY <2>1, <2>2, <2>3, <2>4, LegsStay DEF TypeInv
<1>5. ASSUME NEW requeue \in BOOLEAN, Enqueue(c, requeue) PROVE TypeInv'
  <2>1. UNCHANGED <<optOut, leg>> BY <1>5 DEF Enqueue
  <2>2. ahead' \subseteq Contacts \X Contacts
    BY <1>5 DEF Enqueue, EnqueueOrder, TypeInv, Rest
  <2>3. tried' \subseteq Contacts BY <1>5 DEF Enqueue, TypeInv, Rest
  <2>4. Rest' BY <1>5, <2>2, <2>3 DEF Enqueue, Edit, TypeInv, Rest
  <2>5. OptOutGrows BY <2>1 DEF OptOutGrows
  <2>6. GoodTable(row') BY <1>0, <1>5, EnqueuedTable DEF Enqueue
  <2>7. QED BY <2>1, <2>4, <2>5, <2>6, LegsStay DEF TypeInv
<1>6. QED BY <1>1, <1>2, <1>3, <1>4, <1>5

LEMMA RequeueAllType ==
  ASSUME TypeInv, RequeueAll
  PROVE  TypeInv'
<1>1. UNCHANGED <<optOut, leg>> BY DEF RequeueAll
<1>2. Rest' BY DEF RequeueAll, Edit, TypeInv, Rest
<1>3. OptOutGrows BY <1>1 DEF OptOutGrows
<1>4. GoodTable(row')
  <2>1. ASSUME NEW c \in Contacts PROVE GoodRow(row'[c])
    <3>1. GoodRow(row[c]) BY DEF TypeInv, GoodTable
    <3>2. row'[c] = IF row[c].state = "absent" THEN row[c] ELSE Released(row[c])
      BY DEF RequeueAll
    <3>3. QED BY <3>1, <3>2, ReleasedRow
  <2>2. row' = [c \in Contacts |-> row'[c]] BY DEF RequeueAll
  <2>3. QED BY <2>1, <2>2 DEF GoodTable, GoodRow
<1>5. QED BY <1>1, <1>2, <1>3, <1>4, LegsStay DEF TypeInv

LEMMA TypeStep == TypeInv /\ [Next]_vars => TypeInv'
<1> SUFFICES ASSUME TypeInv, [Next]_vars PROVE TypeInv'
  OBVIOUS
<1>1. CASE UNCHANGED vars
  <2>1. OptOutGrows BY <1>1 DEF vars, OptOutGrows
  <2>2. QED BY <1>1, <2>1, LegsStay DEF vars, TypeInv, Rest
<1>2. CASE Next BY <1>2, TurnType, CallType, KillType, AgentType, PeopleType, RequeueAllType DEF Next
<1>3. QED BY <1>1, <1>2

\* The state is always well typed, and a row has a holder exactly when assigned.
THEOREM TypeCorrect == Spec => []TypeOK
<1>1. QED BY InitTyped, TypeStep, Typed, PTL DEF Spec

\* Under every fault of the model, and however many rooms the agents open, a room
\* is given one contact at a time: the webhook that runs the next turn belongs to
\* the only leg that attends to the room.
THEOREM OneAtATime == Spec => []OneContactPerRoom
<1>1. TypeInv => OneContactPerRoom
  <2>1. \A l \in Legs : Attending(l) => Engages(leg[l]) BY DEF Attending, Engages
  <2>2. QED BY <2>1 DEF TypeInv, LegsInv, Engaged, OneContactPerRoom
<1>2. QED BY InitTyped, TypeStep, <1>1, PTL DEF Spec

\* Under every fault of the model, who had opted out when claimed is not called.
THEOREM StopIsHonoured == Spec => OptOutHonoured
<1>1. TypeInv /\ [Next]_vars => [\A l \in Legs : Dials(l) => ~leg[l].late]_vars
  BY DEF TypeInv, LegsInv, LegOK, Dials
<1>2. QED BY InitTyped, TypeStep, <1>1, PTL DEF Spec, OptOutHonoured

-----------------------------------------------------------------------------
(* No two calls to one contact.  It holds as long as no turn is killed,    *)
(* frozen past stale_after or cut short by the database, and nobody puts   *)
(* a contact back on the queue by hand.                                    *)

Mild ==
  /\ Faults \cap {"kill", "dberror", "stall"} = {}
  /\ Edits \cap {"enqueue", "requeueAll"} = {}

\* A leg works on its contact from the claim to the retirement, and occupies it
\* until the call is over as well.
Works(r) == r.pc \in {"check", "window", "prep", "dial", "retire"}
Occupies(r) == Works(r) \/ r.phone \in {"ringing", "answered", "voicemail"}

\* The row of an occupied contact: claimed for this leg's agent while the leg
\* works on it, or finished.  It cannot be claimed either way.
Guards(r, e) ==
  \/ Finished(e)
  \/ Works(r) /\ e.state = "assigned" /\ e.claim = "fresh" /\ e.holder = User(r.room)

Guarded == \A l \in Legs : Occupies(leg[l]) => Guards(leg[l], row[leg[l].contact])
Alone ==
  \A k, l \in Legs :
    k # l /\ Occupies(leg[k]) /\ Occupies(leg[l]) => leg[k].contact # leg[l].contact
QuietInv == TypeInv /\ Guarded /\ Alone

LEMMA OccupiesType ==
  ASSUME NEW r, LegOK(r), Occupies(r) PROVE r.contact \in Contacts /\ r.room \in Rooms
BY DEF LegOK, Occupies, Works

LEMMA ShelteredGuard ==
  ASSUME NEW r, NEW e, NEW new, Guards(r, e), Shelters(e, new) PROVE Guards(r, new)
BY DEF Guards, Shelters

\* How a leg and the rows change, except by a claim: the leg does not occupy
\* another contact, guards its own, and only the row it worked on is not sheltered.
LEMMA QuietStep ==
  ASSUME QuietInv, TypeInv', NEW l \in Legs, NEW r,
         leg'[l] = r, \A k \in Legs \ {l} : leg'[k] = leg[k] \/ ~Occupies(leg'[k]),
         Occupies(r) => Occupies(leg[l]) /\ r.contact = leg[l].contact,
         Occupies(r) => Guards(r, row'[r.contact]),
         \A c \in Contacts : Shelters(row[c], row'[c])
                             \/ (Occupies(leg[l]) /\ c = leg[l].contact)
  PROVE  QuietInv'
<1>1. ASSUME NEW k \in Legs \ {l}, Occupies(leg'[k])
      PROVE  Guards(leg'[k], row'[leg'[k].contact])
  <2>1. leg'[k] = leg[k] /\ Occupies(leg[k]) BY <1>1
  <2>2. leg[k].contact \in Contacts BY <2>1, OccupiesType DEF QuietInv, TypeInv, LegsInv
  <2>3. Guards(leg[k], row[leg[k].contact]) BY <2>1 DEF QuietInv, Guarded
  <2>4. Shelters(row[leg[k].contact], row'[leg[k].contact])
    BY <2>1, <2>2 DEF QuietInv, Alone
  <2>5. QED BY <2>1, <2>3, <2>4, ShelteredGuard
<1>2. Guarded' BY <1>1 DEF Guarded
<1>3. \A k \in Legs : Occupies(leg'[k]) => Occupies(leg[k]) /\ leg'[k].contact = leg[k].contact
  OBVIOUS
<1>4. Alone' BY <1>3 DEF QuietInv, Alone
<1>5. QED BY <1>2, <1>4 DEF QuietInv

\* The same for a step that changes no leg.
LEMMA QuietRows ==
  ASSUME QuietInv, TypeInv', leg' = leg,
         \A l \in Legs : Occupies(leg[l]) =>
           Shelters(row[leg[l].contact], row'[leg[l].contact])
  PROVE  QuietInv'
<1>1. Guarded' BY ShelteredGuard DEF QuietInv, Guarded
<1>2. Alone' BY DEF QuietInv, Alone
<1>3. QED BY <1>1, <1>2 DEF QuietInv

LEMMA Unchanged == ASSUME NEW e PROVE Shelters(e, e)
BY DEF Shelters

\* A step of one leg that does not touch the rows.
LEMMA QuietPut ==
  ASSUME QuietInv, TypeInv', NEW l \in Legs, NEW r, Put(l, r), UNCHANGED row,
         Occupies(r) => /\ Occupies(leg[l]) /\ r.contact = leg[l].contact
                        /\ r.room = leg[l].room /\ (Works(leg[l]) => Works(r))
  PROVE  QuietInv'
<1>1. leg'[l] = r /\ \A k \in Legs \ {l} : leg'[k] = leg[k]
  BY DEF Put, QuietInv, TypeInv, LegsInv
<1>2. Occupies(r) => Guards(r, row'[r.contact]) BY DEF QuietInv, Guarded, Guards
<1>3. \A c \in Contacts : Shelters(row[c], row'[c]) BY Unchanged
<1>4. QED BY <1>1, <1>2, <1>3, QuietStep

\* Ending a turn that has placed no call.
LEMMA EndedIdle ==
  ASSUME NEW r, LegOK(r), r.pc \notin {"retire", "save", "idle"}
  PROVE  Ended(r) = NoLeg /\ ~Occupies(NoLeg)
BY DEF LegOK, Ended, Occupies, Works, NoLeg

\* A conference that ends: who was in it occupies its contact no more.
LEMMA PartsQuietly ==
  ASSUME NEW r, LegOK(r), NEW new, Parts(r, new)
  PROVE  /\ Occupies(r) /\ ~Works(r) /\ ~Occupies(new) /\ ~Works(new)
         /\ r.pc = "idle" /\ new.pc = "idle" /\ new.contact = r.contact /\ new.saved = r.saved
BY PartsYields DEF Parts, Occupies, Works

LEMMA QuietTurn ==
  ASSUME Mild, QuietInv, TypeInv', NEW l \in Legs, TurnStep(l)
  PROVE  QuietInv'
<1> DEFINE r == leg[l]
<1>0. LegOK(r) /\ GoodTable(row) BY DEF QuietInv, TypeInv, LegsInv
<1>p. \A pc \in TurnPC : /\ [r EXCEPT !.pc = pc].pc = pc
                         /\ [r EXCEPT !.pc = pc].contact = r.contact
                         /\ [r EXCEPT !.pc = pc].room = r.room
                         /\ [r EXCEPT !.pc = pc].phone = r.phone
  BY <1>0 DEF LegOK, Leg
<1>n. ~Occupies(NoLeg) BY DEF Occupies, Works, NoLeg
<1>m. \A q : Attempted(q) = {q} BY DEF Attempted, Mild
<1>c. ASSUME Works(r), NEW e, SetRow(r.contact, e)
      PROVE  /\ row'[r.contact] = e
             /\ \A c \in Contacts : Shelters(row[c], row'[c])
                                    \/ (Occupies(leg[l]) /\ c = leg[l].contact)
  BY <1>0, <1>c, OccupiesType, Unchanged DEF SetRow, GoodTable, Occupies
<1>g. ASSUME NEW new, Put(l, new)
      PROVE  leg'[l] = new /\ \A k \in Legs \ {l} : leg'[k] = leg[k]
  BY <1>g DEF Put, QuietInv, TypeInv, LegsInv
<1>1. CASE StartTurn(l)
  <2>1. r.pc = "start" /\ r.phone = "none" /\ UNCHANGED row
    BY <1>0, <1>1 DEF StartTurn, LegOK
  <2>2. CASE Goto(l, "sweep")
    <3>1. ~Occupies([r EXCEPT !.pc = "sweep"]) BY <1>p, <2>1 DEF Occupies, Works, TurnPC
    <3>2. QED BY <2>1, <2>2, <3>1, QuietPut DEF Goto
  <2>3. CASE EndTurn(l) BY <1>0, <2>1, <2>3, EndedIdle, QuietPut DEF EndTurn
  <2>4. QED BY <1>1, <2>2, <2>3 DEF StartTurn
<1>2. CASE Sweep(l)
  <2>1. Goto(l, "claim") /\ r.pc = "sweep" /\ row' = ResetStale(row) /\ r.phone = "none"
    BY <1>0, <1>2, <1>m DEF Sweep, LegOK
  <2>2. ~Occupies([r EXCEPT !.pc = "claim"]) BY <1>p, <2>1 DEF Occupies, Works, TurnPC
  <2>3. \A c \in Contacts : Shelters(row[c], row'[c]) BY <1>0, <2>1, ResetRow
  <2>4. QED BY <1>g, <2>1, <2>2, <2>3, QuietStep DEF Goto
<1>3. CASE Claim(l)
  <2>1. PICK c \in Contacts :
          /\ row[c].state = "queued"
          /\ SetRow(c, Claimed(row[c], User(r.room)))
          /\ Put(l, [r EXCEPT !.pc = "check", !.contact = c, !.late = optOut[c] # "no"])
    BY <1>3 DEF Claim, IsNext, Claimable
  <2> DEFINE new == [r EXCEPT !.pc = "check", !.contact = c, !.late = optOut[c] # "no"]
  <2>2. r.pc = "claim" /\ r.room \in Rooms BY <1>0, <1>3 DEF Claim, LegOK
  <2>3. new.pc = "check" /\ new.contact = c /\ new.room = r.room BY <1>0 DEF LegOK, Leg
  <2>4. leg'[l] = new /\ \A k \in Legs \ {l} : leg'[k] = leg[k] BY <1>g, <2>1
  <2> HIDE DEF new
  <2>5. /\ row'[c].state = "assigned" /\ row'[c].claim = "fresh" /\ row'[c].holder = User(r.room)
        /\ \A d \in Contacts \ {c} : row'[d] = row[d]
    BY <1>0, <2>1, <2>2, ClaimedRow, UserAgent DEF SetRow, GoodTable
  <2>6. ASSUME NEW k \in Legs, Occupies(leg[k])
        PROVE  leg[k].contact \in Contacts \ {c} /\ Guards(leg[k], row[leg[k].contact])
    <3>1. Guards(leg[k], row[leg[k].contact]) BY <2>6 DEF QuietInv, Guarded
    <3>2. row[leg[k].contact].state # "queued" BY <3>1 DEF Guards, Finished
    <3>3. QED BY <2>1, <2>6, <3>1, <3>2, OccupiesType DEF QuietInv, TypeInv, LegsInv
  <2>7. Guarded'
    <3>1. Guards(new, row'[c]) BY <2>3, <2>5 DEF Guards, Works
    <3>2. ASSUME NEW k \in Legs, Occupies(leg'[k]) PROVE Guards(leg'[k], row'[leg'[k].contact])
      <4>1. CASE k = l BY <2>3, <2>4, <3>1, <4>1
      <4>2. CASE k # l BY <2>4, <2>5, <2>6, <3>2, <4>2
      <4>3. QED BY <4>1, <4>2
    <3>3. QED BY <3>2 DEF Guarded
  <2>8. Alone'
    <3> SUFFICES ASSUME NEW j \in Legs, NEW k \in Legs, j # k,
                        Occupies(leg'[j]), Occupies(leg'[k])
                 PROVE  leg'[j].contact # leg'[k].contact
      BY DEF Alone
    <3>1. CASE j = l BY <2>3, <2>4, <2>6, <3>1
    <3>2. CASE k = l BY <2>3, <2>4, <2>6, <3>2
    <3>3. CASE j # l /\ k # l BY <2>4, <3>3 DEF QuietInv, Alone
    <3>4. QED BY <3>1, <3>2, <3>3
  <2>9. QED BY <2>7, <2>8 DEF QuietInv
<1>4. CASE ClaimNothing(l)
  <2>1. Goto(l, "hangup") /\ r.pc = "claim" /\ r.phone = "none" /\ UNCHANGED row
    BY <1>0, <1>4 DEF ClaimNothing, LegOK
  <2>2. ~Occupies([r EXCEPT !.pc = "hangup"]) BY <1>p, <2>1 DEF Occupies, Works, TurnPC
  <2>3. QED BY <2>1, <2>2, QuietPut DEF Goto
<1>5. CASE CheckOptOut(l)
  <2>1. r.pc = "check" /\ r.phone = "none" /\ Works(r)
    BY <1>0, <1>5 DEF CheckOptOut, LegOK, Works
  <2>2. CASE optOut[r.contact] = "no"
    <3>1. Goto(l, "window") /\ UNCHANGED row BY <1>5, <2>2 DEF CheckOptOut
    <3>2. Works([r EXCEPT !.pc = "window"]) BY <1>p DEF Works, TurnPC
    <3>3. QED BY <1>p, <2>1, <3>1, <3>2, QuietPut DEF Goto, Occupies, TurnPC
  <2>3. CASE optOut[r.contact] # "no"
    <3> DEFINE pc == IF r.refused + 1 < MaxOptOutSkips THEN "claim" ELSE "hangup"
    <3> DEFINE new == [r EXCEPT !.contact = NoContact, !.late = FALSE,
                                !.refused = r.refused + 1, !.pc = pc]
    <3>1. Put(l, new) /\ SetRow(r.contact, Dequeued(row[r.contact]))
      BY <1>5, <2>3 DEF CheckOptOut
    <3>2. new.pc \in {"claim", "hangup"} /\ new.phone = "none"
      BY <1>0, <2>1 DEF LegOK, Leg
    <3> HIDE DEF new
    <3>3. ~Occupies(new) BY <3>2 DEF Occupies, Works
    <3>4. QED BY <1>c, <1>g, <2>1, <3>1, <3>3, QuietStep
  <2>4. QED BY <2>2, <2>3
<1>6. CASE CheckWindow(l)
  <2>1. r.pc = "window" /\ r.phone = "none" /\ Works(r)
    BY <1>0, <1>6 DEF CheckWindow, LegOK, Works
  <2>2. CASE r.contact \notin Night
    <3>1. Goto(l, "prep") /\ UNCHANGED row BY <1>6, <2>2 DEF CheckWindow
    <3>2. Works([r EXCEPT !.pc = "prep"]) BY <1>p DEF Works, TurnPC
    <3>3. QED BY <1>p, <2>1, <3>1, <3>2, QuietPut DEF Goto, Occupies, TurnPC
  <2>3. CASE r.contact \in Night
    <3> DEFINE skipped == r.skipped \cup {r.contact}
    <3> DEFINE stop == r.contact \in r.skipped \/ Cardinality(skipped) >= MaxWindowSkips
    <3> DEFINE pc == IF stop THEN "hangup" ELSE "claim"
    <3> DEFINE new == [r EXCEPT !.contact = NoContact, !.late = FALSE, !.refused = 0,
                                !.skipped = skipped, !.pc = pc]
    <3>1. Put(l, new) /\ SetRow(r.contact, Released(row[r.contact]))
      BY <1>6, <2>3 DEF CheckWindow
    <3> HIDE DEF stop, skipped
    <3>2. new.pc \in {"claim", "hangup"} /\ new.phone = "none"
      BY <1>0, <2>1 DEF LegOK, Leg
    <3> HIDE DEF new
    <3>3. ~Occupies(new) BY <3>2 DEF Occupies, Works
    <3>4. QED BY <1>c, <1>g, <2>1, <3>1, <3>3, QuietStep
  <2>4. QED BY <2>2, <2>3
<1>7. CASE Prepare(l)
  <2>1. r.pc = "prep" /\ Works(r) /\ Goto(l, "dial") /\ UNCHANGED row
    BY <1>7 DEF Prepare, Works, Mild
  <2>2. Works([r EXCEPT !.pc = "dial"]) BY <1>p DEF Works, TurnPC
  <2>3. QED BY <1>p, <2>1, <2>2, QuietPut DEF Goto, Occupies, TurnPC
<1>8. CASE Dial(l)
  <2>1. r.pc = "dial" /\ Works(r) /\ Ended(r) = NoLeg
    BY <1>0, <1>8, EndedIdle DEF Dial, Works
  <2>2. r.contact \in Contacts /\ r.room \in Rooms
    BY <1>0, <2>1, OccupiesType DEF Occupies
  <2> DEFINE dialed == [r EXCEPT !.phone = "ringing"]
  <2>3. dialed.phone = "ringing" /\ dialed.contact = r.contact /\ dialed.room = r.room
    BY <1>0 DEF LegOK, Leg
  <2>4. CASE Put(l, [Placed(l) EXCEPT !.pc = "retire"]) /\ UNCHANGED row
    <3> DEFINE new == [dialed EXCEPT !.pc = "retire"]
    <3>1. Put(l, new) BY <2>4 DEF Placed
    <3>2. new.pc = "retire" /\ new.contact = r.contact /\ new.room = r.room
      BY <1>0 DEF LegOK, Leg
    <3> HIDE DEF new
    <3>3. Works(new) BY <3>2 DEF Works
    <3>4. QED BY <2>1, <2>4, <3>1, <3>2, <3>3, QuietPut DEF Occupies
  <2>5. CASE EndTurn(l) /\ Revert(r.contact)
    <3>1. SetRow(r.contact, Released(row[r.contact]))
      BY <1>m, <2>5 DEF Revert, SetRow
    <3>2. QED BY <1>c, <1>g, <1>n, <2>1, <2>5, <3>1, QuietStep DEF EndTurn
  <2>6. CASE DialUnclear(l)
    <3>1. row' = DequeueContact(row, r.contact, FALSE, User(r.room))
      BY <1>m, <2>6 DEF DialUnclear
    <3>2. \A c \in Contacts : Shelters(row[c], row'[c]) BY <1>0, <3>1, DequeuedTable
    <3>3. CASE EndTurn(l) BY <1>g, <1>n, <2>1, <3>2, <3>3, QuietStep DEF EndTurn
    <3>4. CASE Put(l, Ended(Placed(l)))
      <4> DEFINE new == [dialed EXCEPT !.pc = "idle"]
      <4>1. Put(l, new) BY <2>3, <3>4 DEF Placed, Ended
      <4>2. new.contact = r.contact BY <1>0 DEF LegOK, Leg
      <4> HIDE DEF new
      <4>3. Guards(r, row[r.contact]) BY <2>1 DEF QuietInv, Guarded, Occupies
      <4>4. Finished(row'[r.contact])
        BY <1>0, <2>2, <3>1, <4>3, HolderDequeues, UserAgent DEF Guards
      <4>5. Occupies(r) /\ Guards(new, row'[r.contact]) BY <2>1, <4>4 DEF Occupies, Guards
      <4>6. QED BY <1>g, <3>2, <4>1, <4>2, <4>5, QuietStep
    <3>5. QED BY <2>6, <3>3, <3>4 DEF DialUnclear
  <2>7. QED BY <1>8, <2>4, <2>5, <2>6 DEF Dial
<1>9. CASE Retire(l)
  <2>1. /\ r.pc = "retire" /\ Works(r) /\ Occupies(r) /\ Goto(l, "save")
        /\ row' = DequeueContact(row, r.contact, TRUE, User(r.room))
    BY <1>9 DEF Retire, Works, Occupies
  <2>2. r.contact \in Contacts /\ r.room \in Rooms BY <1>0, <2>1, OccupiesType
  <2>3. \A c \in Contacts : Shelters(row[c], row'[c]) BY <1>0, <2>1, DequeuedTable
  <2>4. Guards(r, row[r.contact]) BY <2>1 DEF QuietInv, Guarded
  <2>5. Finished(row'[r.contact]) BY <1>0, <2>1, <2>2, <2>4, HolderDequeues, UserAgent DEF Guards
  <2> DEFINE new == [r EXCEPT !.pc = "save"]
  <2>6. new.contact = r.contact BY <1>p DEF TurnPC
  <2>7. Guards(new, row'[r.contact]) BY <2>5 DEF Guards
  <2>8. leg'[l] = new /\ \A k \in Legs \ {l} : leg'[k] = leg[k] BY <1>g, <2>1 DEF Goto
  <2> HIDE DEF new
  <2>9. QED BY <2>1, <2>3, <2>6, <2>7, <2>8, QuietStep
<1>10. CASE Save(l)
  <2> DEFINE new == [r EXCEPT !.pc = "idle", !.saved = TRUE]
  <2>1. r.pc = "save" /\ UNCHANGED row /\ Put(l, new) BY <1>10 DEF Save
  <2>2. new.pc = "idle" /\ new.phone = r.phone /\ new.contact = r.contact /\ new.room = r.room
    BY <1>0 DEF LegOK, Leg
  <2>3. ~Works(r) /\ ~Works(new) BY <2>1, <2>2 DEF Works
  <2> HIDE DEF new
  <2>4. QED BY <2>1, <2>2, <2>3, QuietPut DEF Occupies
<1>11. CASE HangUpRoom(l)
  <2>1. r.pc = "hangup" /\ r.phone = "none" /\ UNCHANGED row
    BY <1>0, <1>11 DEF HangUpRoom, LegOK
  <2>2. leg'[l] = [r EXCEPT !.pc = "finish"]
        /\ \A k \in Legs \ {l} : leg'[k] = leg[k] \/ Parts(leg[k], leg'[k])
    BY <1>11, RoomHangsUp DEF QuietInv, TypeInv
  <2>3. ~Occupies([r EXCEPT !.pc = "finish"]) BY <1>p, <2>1 DEF Occupies, Works, TurnPC
  <2>4. \A k \in Legs \ {l} : leg'[k] = leg[k] \/ ~Occupies(leg'[k])
    BY <2>2, PartsQuietly DEF QuietInv, TypeInv, LegsInv
  <2>5. \A c \in Contacts : Shelters(row[c], row'[c]) BY <2>1, Unchanged
  <2>6. QED BY <2>2, <2>3, <2>4, <2>5, QuietStep
<1>12. CASE Finish(l)
  <2>1. UNCHANGED row /\ EndTurn(l) /\ Ended(r) = NoLeg
    BY <1>0, <1>12, EndedIdle DEF Finish
  <2>2. QED BY <1>n, <2>1, QuietPut DEF EndTurn
<1>13. CASE Raise(l) BY <1>13 DEF Raise, Mild
<1>14. QED BY <1>1, <1>2, <1>3, <1>4, <1>5, <1>6, <1>7, <1>8, <1>9, <1>10, <1>11, <1>12, <1>13
       DEF TurnStep

LEMMA QuietCall ==
  ASSUME QuietInv, TypeInv', NEW l \in Legs, CallStep(l)
  PROVE  QuietInv'
<1> DEFINE r == leg[l]
<1>0. LegOK(r) /\ GoodTable(row) BY DEF QuietInv, TypeInv, LegsInv
<1>n. ~Occupies(NoLeg) BY DEF Occupies, Works, NoLeg
\* A call that goes on, or ends, without a statement.
<1>p. ASSUME NEW phone, r.phone \in {"ringing", "answered", "voicemail"},
             Put(l, [r EXCEPT !.phone = phone]), UNCHANGED row
      PROVE  QuietInv'
  <2> DEFINE new == [r EXCEPT !.phone = phone]
  <2>1. new.pc = r.pc /\ new.contact = r.contact /\ new.room = r.room
    BY <1>0 DEF LegOK, Leg
  <2> HIDE DEF new
  <2>2. QED BY <1>p, <2>1, QuietPut DEF Occupies, Works, new
\* A call whose callback dequeues the contact and may run the next turn.
<1>q. ASSUME NEW new, new.pc = r.pc, new.contact = r.contact, new.room = r.room,
             LegOK(new), new # NoLeg,
             Occupies(new) => Occupies(r) /\ Guards(new, row'[new.contact]),
             \A c \in Contacts : Shelters(row[c], row'[c]),
             \/ leg' = [leg EXCEPT ![l] = new]
             \/ RunTurn(r.room, [leg EXCEPT ![l] = new])
      PROVE  QuietInv'
  <2>1. CASE leg' = [leg EXCEPT ![l] = new]
    <3>1. leg'[l] = new /\ \A k \in Legs \ {l} : leg'[k] = leg[k]
      BY <2>1 DEF QuietInv, TypeInv, LegsInv
    <3>2. QED BY <1>q, <3>1, QuietStep
  <2>2. CASE RunTurn(r.room, [leg EXCEPT ![l] = new])
    <3> DEFINE legs == [leg EXCEPT ![l] = new]
    <3>1. PICK k \in Legs : legs[k] = NoLeg /\ leg' = [legs EXCEPT ![k] = Begun(r.room)]
      BY <2>2 DEF RunTurn
    <3>2. legs \in [Legs -> Leg] /\ legs[l] = new /\ \A i \in Legs \ {l} : legs[i] = leg[i]
      BY <1>q DEF QuietInv, TypeInv, LegsInv, LegOK
    <3>3. k # l BY <1>q, <3>1, <3>2
    <3> HIDE DEF legs
    <3>4. leg'[l] = new /\ leg'[k] = Begun(r.room) /\ \A i \in Legs \ {k, l} : leg'[i] = leg[i]
      BY <3>1, <3>2, <3>3
    <3>5. ~Occupies(Begun(r.room)) BY DEF Occupies, Works, Begun, NoLeg
    <3>6. QED BY <1>q, <3>4, <3>5, QuietStep
  <2>3. QED BY <1>q, <2>1, <2>2
<1>1. CASE AnsweredUnknown(l) BY <1>1, <1>p DEF AnsweredUnknown, Rings
<1>2. CASE AnsweredByHuman(l) BY <1>2, <1>p DEF AnsweredByHuman, Rings
<1>3. CASE AnsweredByMachine(l)
  <2> DEFINE new == [r EXCEPT !.phone = "voicemail"]
  <2>1. r.phone = "ringing" /\ r.saved /\ Occupies(r) BY <1>3 DEF AnsweredByMachine, Rings, Occupies
  <2>2. r.contact \in Contacts /\ r.room \in Rooms BY <1>0, <2>1, OccupiesType
  <2>3. /\ new.pc = r.pc /\ new.contact = r.contact /\ new.room = r.room
        /\ LegOK(new) /\ new # NoLeg
    BY <1>0, <2>1 DEF LegOK, Leg, NoLeg
  <2>4. Guards(r, row[r.contact]) BY <2>1 DEF QuietInv, Guarded
  <2>5. Finished(row'[r.contact]) /\ \A c \in Contacts : Shelters(row[c], row'[c])
    <3>1. CASE GroupHouseholds
      <4>1. row' = DequeueContact(row, r.contact, TRUE, User(r.room))
        BY <1>3, <3>1 DEF AnsweredByMachine, MachineDequeue
      <4>2. QED BY <1>0, <2>2, <2>4, <4>1, DequeuedTable, HolderDequeues, UserAgent DEF Guards
    <3>2. CASE ~GroupHouseholds
      <4>1. row' = [row EXCEPT ![r.contact] = Dequeued(row[r.contact])]
        BY <1>3, <3>2 DEF AnsweredByMachine, MachineDequeue, SetRow
      <4>2. QED BY <1>0, <2>2, <4>1, DequeuedRow, Unchanged DEF GoodTable
    <3>3. QED BY <3>1, <3>2
  <2>6. Guards(new, row'[r.contact]) BY <2>5 DEF Guards
  <2>7. leg' = [leg EXCEPT ![l] = new] \/ RunTurn(r.room, [leg EXCEPT ![l] = new])
    BY <1>3 DEF AnsweredByMachine
  <2> HIDE DEF new
  <2>8. QED BY <1>q, <2>1, <2>3, <2>5, <2>6, <2>7
<1>4. CASE MachineHungUp(l) BY <1>4, <1>p DEF MachineHungUp, Rings
<1>5. CASE NotAnswered(l) BY <1>5, <1>p DEF NotAnswered, Rings
<1>6. CASE HangUp(l)
  <2>1. CASE r.phone = "voicemail" /\ Put(l, [r EXCEPT !.phone = "completed"])
    BY <1>6, <1>p, <2>1 DEF HangUp
  <2>2. CASE r.phone = "answered" /\ EndConference(r.room, leg)
    <3>1. Parts(r, leg'[l]) /\ \A k \in Legs : leg'[k] = leg[k] \/ Parts(leg[k], leg'[k])
      BY <2>2, ContactHangsUp DEF QuietInv, TypeInv
    <3>2. ~Occupies(leg'[l]) /\ \A k \in Legs \ {l} : leg'[k] = leg[k] \/ ~Occupies(leg'[k])
      BY <3>1, PartsQuietly DEF QuietInv, TypeInv, LegsInv
    <3>3. \A c \in Contacts : Shelters(row[c], row'[c]) BY <1>6, Unchanged DEF HangUp
    <3>4. QED BY <3>2, <3>3, QuietStep
  <2>3. QED BY <1>6, <2>1, <2>2 DEF HangUp
<1>7. CASE StatusCallback(l)
  <2>1. PICK s : Put(l, [r EXCEPT !.settled = s]) BY <1>7 DEF StatusCallback
  <2> DEFINE new == [r EXCEPT !.settled = s]
  <2>2. new.pc = r.pc /\ new.contact = r.contact /\ new.room = r.room /\ new.phone = r.phone
    BY <1>0 DEF LegOK, Leg
  <2>3. Put(l, new) /\ UNCHANGED row BY <1>7, <2>1 DEF StatusCallback
  <2> HIDE DEF new
  <2>4. QED BY <2>2, <2>3, QuietPut DEF Occupies, Works
<1>8. CASE HandleStatus(l)
  <2> DEFINE new == [r EXCEPT !.settled = "done"]
  <2>1. r.settled = "claimed" /\ r.phone \in {"completed", "noanswer"}
    BY <1>0, <1>8 DEF HandleStatus, LegOK
  <2>2. /\ new.pc = r.pc /\ new.contact = r.contact /\ new.room = r.room
        /\ new.phone = r.phone /\ LegOK(new) /\ new # NoLeg
    BY <1>0, <2>1 DEF LegOK, Leg, NoLeg
  <2>3. row' = DequeueContact(row, r.contact, TRUE, User(r.room)) BY <1>8 DEF HandleStatus
  <2>4. \A c \in Contacts : Shelters(row[c], row'[c]) BY <1>0, <2>3, DequeuedTable
  <2>5. leg' = [leg EXCEPT ![l] = new] \/ RunTurn(r.room, [leg EXCEPT ![l] = new])
    BY <1>8 DEF HandleStatus
  <2> HIDE DEF new
  <2>6. Occupies(new) => Occupies(r) /\ Guards(new, row'[new.contact])
    <3> SUFFICES ASSUME Occupies(new) PROVE Occupies(r) /\ Guards(new, row'[new.contact])
      OBVIOUS
    <3>1. Works(r) /\ Works(new) /\ Occupies(r) BY <2>1, <2>2 DEF Occupies, Works
    <3>2. Guards(r, row[r.contact]) /\ r.contact \in Contacts
      BY <1>0, <3>1, OccupiesType DEF QuietInv, Guarded
    <3>3. Guards(r, row'[r.contact]) BY <2>4, <3>2, ShelteredGuard
    <3>4. QED BY <2>2, <3>1, <3>3 DEF Guards
  <2>7. QED BY <1>q, <2>2, <2>4, <2>5, <2>6
<1>9. CASE Forget(l) BY <1>9, <1>n, QuietPut DEF Forget
<1>10. QED BY <1>1, <1>2, <1>3, <1>4, <1>5, <1>6, <1>7, <1>8, <1>9 DEF CallStep

LEMMA QuietAgent ==
  ASSUME QuietInv, TypeInv', NEW q \in Rooms, RoomStep(q) \/ AgentLeaves(q)
  PROVE  QuietInv'
<1>1. UNCHANGED row BY DEF RoomStep, AgentJoins, RoomOpens, AgentLeaves
<1>2. CASE leg' = leg BY <1>1, <1>2, QuietRows, Unchanged
<1>3. CASE AgentJoins(q)
  <2>1. PICK k \in Legs : leg' = [leg EXCEPT ![k] = Begun(q)]
    BY <1>3 DEF AgentJoins, RunTurn
  <2>2. ~Occupies(Begun(q)) BY DEF Occupies, Works, Begun, NoLeg
  <2>3. QED BY <1>1, <2>1, <2>2, QuietPut DEF Put
<1>4. QED BY <1>2, <1>3 DEF RoomStep, RoomOpens, AgentLeaves

LEMMA QuietPeople ==
  ASSUME Mild, QuietInv, TypeInv', NEW c \in Contacts,
         \/ Stop(c) \/ StopDequeues(c) \/ ClaimAges(c)
         \/ \E a \in Agents : DequeueByUser(c, a)
         \/ \E requeue \in BOOLEAN : Enqueue(c, requeue)
  PROVE  QuietInv'
<1>0. GoodTable(row) /\ GoodRow(row[c]) BY DEF QuietInv, TypeInv, GoodTable
<1>o. \A l \in Legs : Occupies(leg[l]) => leg[l].contact \in Contacts
  BY OccupiesType DEF QuietInv, TypeInv, LegsInv
<1>1. CASE Stop(c) BY <1>1, QuietRows, Unchanged DEF Stop
<1>2. CASE StopDequeues(c)
  <2> DEFINE e == IF row[c].state = "absent" THEN row[c] ELSE Dequeued(row[c])
  <2>1. GoodRow(e) /\ Shelters(row[c], e) BY <1>0, DequeuedRow, Unchanged
  <2>2. row' = [row EXCEPT ![c] = e] /\ leg' = leg BY <1>2 DEF StopDequeues, SetRow
  <2> HIDE DEF e
  <2>3. \A d \in Contacts : Shelters(row[d], row'[d]) BY <1>0, <2>1, <2>2, RowSet, Unchanged
  <2>4. QED BY <1>o, <2>2, <2>3, QuietRows
<1>3. CASE ClaimAges(c)
  <2>1. /\ row[c].state = "assigned" /\ leg' = leg
        /\ \A l \in Legs : Works(leg[l]) => leg[l].contact # c
        /\ row' = [row EXCEPT ![c] = [row[c] EXCEPT !.claim = "stale"]]
    BY <1>3 DEF ClaimAges, Mild, Working, Works, SetRow
  <2>2. ASSUME NEW l \in Legs, Occupies(leg[l])
        PROVE  Shelters(row[leg[l].contact], row'[leg[l].contact])
    <3>1. Guards(leg[l], row[leg[l].contact]) BY <2>2 DEF QuietInv, Guarded
    <3>2. leg[l].contact # c BY <2>1, <3>1 DEF Guards, Finished
    <3>3. row'[leg[l].contact] = row[leg[l].contact] BY <1>0, <1>o, <2>1, <2>2, <3>2 DEF GoodTable
    <3>4. QED BY <3>3, Unchanged
  <2>3. QED BY <2>1, <2>2, QuietRows
<1>4. ASSUME NEW a \in Agents, DequeueByUser(c, a) PROVE QuietInv'
  <2>1. leg' = leg /\ \A d \in Contacts : Shelters(row[d], row'[d])
    BY <1>0, <1>4, DequeuedTable DEF DequeueByUser
  <2>2. QED BY <1>o, <2>1, QuietRows
<1>5. ASSUME NEW requeue \in BOOLEAN, Enqueue(c, requeue) PROVE QuietInv'
  BY <1>5 DEF Enqueue, Edit, Mild
<1>6. QED BY <1>1, <1>2, <1>3, <1>4, <1>5

LEMMA QuietNext == Mild /\ QuietInv /\ [Next]_vars => QuietInv'
<1> SUFFICES ASSUME Mild, QuietInv, [Next]_vars PROVE QuietInv'
  OBVIOUS
<1>1. TypeInv' BY TypeStep DEF QuietInv
<1>2. CASE UNCHANGED vars BY <1>1, <1>2, QuietRows, Unchanged DEF vars
<1>3. CASE Next
  <2>1. ASSUME NEW l \in Legs PROVE ~Kill(l) BY DEF Kill, Mild
  <2>2. ~RequeueAll BY DEF RequeueAll, Edit, Mild
  <2>3. QED BY <1>1, <1>3, <2>1, <2>2, QuietTurn, QuietCall, QuietAgent, QuietPeople DEF Next
<1>4. QED BY <1>2, <1>3

\* However many agents dial, no contact has two calls at once, as long as every
\* claim is released or retired by the turn that made it.
THEOREM NoTwoCalls == Mild => (Spec => []NoDoubleDial)
<1>1. Init => QuietInv
  <2>1. ~Occupies(NoLeg) BY DEF Occupies, Works, NoLeg
  <2>2. Init => \A l \in Legs : leg[l] = NoLeg BY DEF Init
  <2>3. QED BY <2>1, <2>2, InitTyped DEF QuietInv, Guarded, Alone
<1>2. QuietInv => NoDoubleDial
  BY DEF QuietInv, Alone, NoDoubleDial, OnPhone, Occupies
<1>3. ASSUME Mild PROVE Spec => []NoDoubleDial
  <2>1. QuietInv /\ [Next]_vars => QuietInv' BY <1>3, QuietNext
  <2>2. QED BY <1>1, <1>2, <2>1, PTL DEF Spec
<1>4. QED BY <1>3
-----------------------------------------------------------------------------
(* The completion.  What the sweep of a turn leaves assigned is young, and *)
(* stays so until the turn completes the campaign, if no claim ages and no *)
(* sweep fails in between.                                                 *)

Punctual == Faults \cap {"midturn", "dberror"} = {}

\* A turn that has swept the queue.
Swept(r) == r.pc \in TurnPC \ {"start", "sweep"}

YoungInv ==
  /\ TypeInv
  /\ \A c \in Contacts : row[c].state = "assigned" =>
       /\ row[c].claim # "unset"
       /\ \A l \in Legs : Swept(leg[l]) => row[c].claim = "fresh"

\* A row is assigned with a young claim or not at all.
Stamps(e, new) == new.state = "assigned" => new = e \/ new.claim = "fresh"
RowsStamp == \A c \in Contacts : Stamps(row[c], row'[c])

LEMMA YoungStep ==
  ASSUME YoungInv, TypeInv', RowsStamp,
         \A l \in Legs : Swept(leg'[l]) => \E k \in Legs : Swept(leg[k])
  PROVE  YoungInv'
BY DEF YoungInv, RowsStamp, Stamps

LEMMA StampedRow ==
  ASSUME NEW e, GoodRow(e)
  PROVE  Stamps(e, e) /\ Stamps(e, Released(e)) /\ Stamps(e, Dequeued(e)) /\ Stamps(e, Fresh)
         /\ \A a \in Agents : Stamps(e, Claimed(e, a))
<1>1. Stamps(e, Released(e)) BY DEF Stamps, Released, GoodRow, Entry
<1>2. Stamps(e, Dequeued(e)) BY DequeuedRow DEF Stamps, Finished
<1>3. Stamps(e, Fresh) BY DEF Stamps, Fresh
<1>4. \A a \in Agents : Stamps(e, Claimed(e, a)) BY ClaimedRow DEF Stamps
<1>5. QED BY <1>1, <1>2, <1>3, <1>4 DEF Stamps

\* One row changes.
LEMMA OneStamped ==
  ASSUME GoodTable(row), NEW c \in Contacts, NEW e, Stamps(row[c], e),
         row' = [row EXCEPT ![c] = e]
  PROVE  RowsStamp
BY DEF RowsStamp, Stamps, GoodTable

LEMMA DequeueStamps ==
  ASSUME GoodTable(row), NEW c, NEW fanOut, NEW a, row' = DequeueContact(row, c, fanOut, a)
  PROVE  RowsStamp
<1>1. ASSUME NEW d \in Contacts PROVE Stamps(row[d], row'[d])
  <2>1. row'[d] = Dequeued(row[d]) \/ row'[d] = row[d] BY DEF DequeueContact
  <2>2. QED BY <2>1, StampedRow DEF GoodTable
<1>2. QED BY <1>1 DEF RowsStamp

\* The sweep leaves no old claim behind.
LEMMA SweepClears ==
  ASSUME NEW q, GoodTable(q), NEW c \in Contacts, ResetStale(q)[c].state = "assigned",
         q[c].state = "assigned" => q[c].claim # "unset"
  PROVE  ResetStale(q)[c] = q[c] /\ q[c].claim = "fresh"
<1> DEFINE e == FailExhausted(q)[c]
<1>1. ResetStale(q)[c] = IF e.state = "assigned" /\ e.claim = "stale"
        THEN [e EXCEPT !.state = "queued", !.holder = NoAgent, !.claim = "unset"] ELSE e
  BY DEF ResetStale
<1>2. e = q[c] \/ e.state = "failed"
  BY DEF FailExhausted, GoodTable, GoodRow, Entry
<1>3. GoodRow(e) BY FailedRow DEF GoodTable
<1> HIDE DEF e
<1>4. ~(e.state = "assigned" /\ e.claim = "stale") BY <1>1, <1>3 DEF GoodRow, Entry
<1>5. QED BY <1>1, <1>2, <1>4 DEF GoodTable, GoodRow, Entry

LEMMA YoungTurn ==
  ASSUME Punctual, YoungInv, TypeInv', NEW l \in Legs, TurnStep(l)
  PROVE  YoungInv'
<1> DEFINE r == leg[l]
<1>0. LegOK(r) /\ GoodTable(row) /\ \A c \in Contacts : GoodRow(row[c])
  BY DEF YoungInv, TypeInv, LegsInv, GoodTable
<1>u. UNCHANGED row => RowsStamp BY DEF RowsStamp, Stamps
<1>s. ASSUME Swept(r), RowsStamp PROVE YoungInv' BY <1>s, YoungStep
<1>r. ASSUME Revert(r.contact), r.contact \in Contacts PROVE RowsStamp
  <2>1. row' = [row EXCEPT ![r.contact] = Released(row[r.contact])]
    BY <1>r DEF Revert, Attempted, Punctual
  <2>2. QED BY <1>0, <1>r, <2>1, OneStamped, StampedRow
<1>e. ~Swept(Ended(r)) BY <1>0 DEF Swept, Ended, NoLeg, LegOK, Leg, TurnPC
<1>1. CASE StartTurn(l)
  <2>1. leg' = [leg EXCEPT ![l] = [r EXCEPT !.pc = "sweep"]] \/ leg' = [leg EXCEPT ![l] = Ended(r)]
    BY <1>1 DEF StartTurn, Goto, EndTurn, Put
  <2>2. ~Swept([r EXCEPT !.pc = "sweep"]) BY <1>0 DEF Swept, LegOK, Leg
  <2>3. ~Swept(leg'[l]) /\ \A k \in Legs \ {l} : leg'[k] = leg[k]
    BY <1>e, <2>1, <2>2 DEF YoungInv, TypeInv, LegsInv
  <2>4. UNCHANGED row BY <1>1 DEF StartTurn
  <2>5. QED BY <1>u, <2>3, <2>4, YoungStep
<1>2. CASE Sweep(l)
  <2>1. row' = ResetStale(row) BY <1>2 DEF Sweep, Attempted, Punctual
  <2>2. \A c \in Contacts : row'[c].state = "assigned" => row'[c].claim = "fresh"
    BY <1>0, <2>1, SweepClears DEF YoungInv
  <2>3. QED BY <2>2 DEF YoungInv
<1>3. CASE Claim(l)
  <2>1. PICK c \in Contacts : SetRow(c, Claimed(row[c], User(r.room))) BY <1>3 DEF Claim
  <2>2. r.pc = "claim" /\ r.room \in Rooms BY <1>0, <1>3 DEF Claim, LegOK
  <2>3. RowsStamp BY <1>0, <2>1, <2>2, OneStamped, StampedRow, UserAgent DEF SetRow
  <2>4. QED BY <1>s, <2>2, <2>3 DEF Swept, TurnPC
<1>4. CASE ClaimNothing(l) \/ Save(l) \/ HangUpRoom(l) \/ Finish(l)
  BY <1>s, <1>u, <1>4 DEF ClaimNothing, Save, HangUpRoom, Finish, Swept, TurnPC
<1>5. CASE CheckOptOut(l)
  <2>1. r.pc = "check" /\ r.contact \in Contacts BY <1>0, <1>5 DEF CheckOptOut, LegOK
  <2>2. UNCHANGED row \/ row' = [row EXCEPT ![r.contact] = Dequeued(row[r.contact])]
    BY <1>5 DEF CheckOptOut, SetRow
  <2>3. RowsStamp BY <1>0, <1>u, <2>1, <2>2, OneStamped, StampedRow
  <2>4. QED BY <1>s, <2>1, <2>3 DEF Swept, TurnPC
<1>6. CASE CheckWindow(l)
  <2>1. r.pc = "window" /\ r.contact \in Contacts BY <1>0, <1>6 DEF CheckWindow, LegOK
  <2>2. UNCHANGED row \/ row' = [row EXCEPT ![r.contact] = Released(row[r.contact])]
    BY <1>6 DEF CheckWindow, SetRow
  <2>3. RowsStamp BY <1>0, <1>u, <2>1, <2>2, OneStamped, StampedRow
  <2>4. QED BY <1>s, <2>1, <2>3 DEF Swept, TurnPC
<1>7. CASE Prepare(l)
  <2>1. r.pc = "prep" /\ r.contact \in Contacts BY <1>0, <1>7 DEF Prepare, LegOK
  <2>2. UNCHANGED row \/ Revert(r.contact) BY <1>7 DEF Prepare
  <2>3. QED BY <1>s, <1>u, <1>r, <2>1, <2>2 DEF Swept, TurnPC
<1>8. CASE Dial(l)
  <2>1. r.pc = "dial" /\ r.contact \in Contacts BY <1>0, <1>8 DEF Dial, LegOK
  <2>2. UNCHANGED row \/ Revert(r.contact) \/ row' = DequeueContact(row, r.contact, FALSE, User(r.room))
    BY <1>8 DEF Dial, DialUnclear, Attempted
  <2>3. RowsStamp BY <1>0, <1>u, <1>r, <2>1, <2>2, DequeueStamps
  <2>4. QED BY <1>s, <2>1, <2>3 DEF Swept, TurnPC
<1>9. CASE Retire(l)
  <2>1. r.pc = "retire" /\ row' = DequeueContact(row, r.contact, TRUE, User(r.room))
    BY <1>9 DEF Retire
  <2>2. QED BY <1>0, <1>s, <2>1, DequeueStamps DEF Swept, TurnPC
<1>10. ~Raise(l) BY DEF Raise, Punctual
<1>11. QED BY <1>1, <1>2, <1>3, <1>4, <1>5, <1>6, <1>7, <1>8, <1>9, <1>10 DEF TurnStep

\* A webhook starts a turn that has not swept yet, or none.
LEMMA YoungRun ==
  ASSUME YoungInv, TypeInv', RowsStamp, NEW legs \in [Legs -> Leg],
         \A l \in Legs : Swept(legs[l]) => Swept(leg[l]),
         leg' = legs \/ \E q \in Rooms : RunTurn(q, legs)
  PROVE  YoungInv'
<1>1. CASE leg' = legs BY <1>1, YoungStep
<1>2. ASSUME NEW q \in Rooms, RunTurn(q, legs) PROVE YoungInv'
  <2>1. PICK k \in Legs : leg' = [legs EXCEPT ![k] = Begun(q)] BY <1>2 DEF RunTurn
  <2>2. ~Swept(Begun(q)) BY BegunOK DEF Swept
  <2>3. \A l \in Legs : leg'[l] = Begun(q) \/ leg'[l] = legs[l] BY <2>1
  <2>4. QED BY <2>2, <2>3, YoungStep
<1>3. QED BY <1>1, <1>2

LEMMA YoungCall ==
  ASSUME YoungInv, TypeInv', NEW l \in Legs, CallStep(l) \/ Kill(l)
  PROVE  YoungInv'
<1> DEFINE r == leg[l]
<1>0. /\ leg \in [Legs -> Leg] /\ LegOK(r) /\ GoodTable(row)
      /\ \A c \in Contacts : GoodRow(row[c])
  BY DEF YoungInv, TypeInv, LegsInv, GoodTable
<1>u. UNCHANGED row => RowsStamp BY DEF RowsStamp, Stamps
\* The leg of the call is replaced by one at the same point of its turn.
<1>p. ASSUME NEW new \in Leg, new.pc \in {r.pc, "idle"}, RowsStamp,
             leg' = [leg EXCEPT ![l] = new] \/ (r.room \in Rooms /\ RunTurn(r.room, [leg EXCEPT ![l] = new]))
      PROVE  YoungInv'
  <2> DEFINE legs == [leg EXCEPT ![l] = new]
  <2>1. legs \in [Legs -> Leg] /\ \A k \in Legs : Swept(legs[k]) => Swept(leg[k])
    BY <1>0, <1>p DEF Swept, TurnPC
  <2>2. leg' = legs \/ \E q \in Rooms : RunTurn(q, legs) BY <1>p
  <2> HIDE DEF legs
  <2>3. QED BY <1>p, <2>1, <2>2, YoungRun
<1>h. CASE leg[l].phone = "answered" /\ HangUp(l)
  <2>1. \A k \in Legs : leg'[k] = leg[k] \/ Parts(leg[k], leg'[k])
    BY <1>h, ContactHangsUp DEF HangUp, YoungInv, TypeInv
  <2>2. \A k \in Legs : Swept(leg'[k]) => Swept(leg[k])
    BY <2>1, PartsYields DEF Swept, YoungInv, TypeInv, LegsInv
  <2>3. UNCHANGED row BY <1>h DEF HangUp
  <2>4. QED BY <1>u, <2>2, <2>3, YoungStep
<1>1. CASE \/ AnsweredUnknown(l) \/ AnsweredByHuman(l) \/ MachineHungUp(l) \/ NotAnswered(l)
           \/ leg[l].phone # "answered" /\ HangUp(l)
  <2>1. PICK s \in {"completed", "answered", "noanswer"} : Put(l, [r EXCEPT !.phone = s])
    BY <1>1 DEF AnsweredUnknown, AnsweredByHuman, MachineHungUp, NotAnswered, HangUp
  <2>2. UNCHANGED row
    BY <1>1 DEF AnsweredUnknown, AnsweredByHuman, MachineHungUp, NotAnswered, HangUp
  <2>3. [r EXCEPT !.phone = s] \in Leg /\ [r EXCEPT !.phone = s].pc = r.pc
    BY <1>0 DEF LegOK, Leg
  <2>4. QED BY <1>p, <1>u, <2>1, <2>2, <2>3 DEF Put
<1>2. CASE StatusCallback(l) \/ Forget(l) \/ Kill(l)
  <2>1. UNCHANGED row BY <1>2 DEF StatusCallback, Forget, Kill
  <2>2. PICK new \in Leg : Put(l, new) /\ new.pc \in {r.pc, "idle"}
    <3>1. CASE StatusCallback(l)
      <4>1. PICK s \in {"no", "claimed", "done"} : Put(l, [r EXCEPT !.settled = s])
        BY <1>0, <3>1 DEF StatusCallback, LegOK, Leg
      <4>2. [r EXCEPT !.settled = s] \in Leg /\ [r EXCEPT !.settled = s].pc = r.pc
        BY <1>0 DEF LegOK, Leg
      <4>3. QED BY <4>1, <4>2
    <3>2. CASE Forget(l) BY <3>2, NoLegOK DEF Forget, LegOK, NoLeg
    <3>3. CASE Kill(l)
      <4>1. Put(l, Ended(r)) \/ Put(l, [r EXCEPT !.settled = "done"])
        BY <3>3 DEF Kill, EndTurn
      <4>2. [r EXCEPT !.settled = "done"] \in Leg /\ [r EXCEPT !.settled = "done"].pc = r.pc
        BY <1>0 DEF LegOK, Leg
      <4>3. Ended(r) \in Leg /\ Ended(r).pc = "idle"
        BY <1>0, NoLegOK DEF Ended, NoLeg, LegOK, Leg
      <4>4. QED BY <4>1, <4>2, <4>3
    <3>4. QED BY <1>2, <3>1, <3>2, <3>3
  <2>3. QED BY <1>p, <1>u, <2>1, <2>2 DEF Put
<1>3. CASE AnsweredByMachine(l)
  <2> DEFINE new == [r EXCEPT !.phone = "voicemail"]
  <2>1. new \in Leg /\ new.pc = r.pc BY <1>0 DEF LegOK, Leg
  <2>2. r.room \in Rooms /\ r.contact \in Contacts /\ MachineDequeue(r.contact, User(r.room))
    BY <1>0, <1>3 DEF AnsweredByMachine, Rings, LegOK
  <2>3. RowsStamp
    <3>1. CASE row' = DequeueContact(row, r.contact, TRUE, User(r.room)) BY <1>0, <3>1, DequeueStamps
    <3>2. CASE row' = [row EXCEPT ![r.contact] = Dequeued(row[r.contact])]
      BY <1>0, <2>2, <3>2, OneStamped, StampedRow
    <3>3. QED BY <2>2, <3>1, <3>2 DEF MachineDequeue, SetRow
  <2>4. leg' = [leg EXCEPT ![l] = new] \/ RunTurn(r.room, [leg EXCEPT ![l] = new])
    BY <1>3 DEF AnsweredByMachine
  <2> HIDE DEF new
  <2>5. QED BY <1>p, <2>1, <2>2, <2>3, <2>4
<1>4. CASE HandleStatus(l)
  <2> DEFINE new == [r EXCEPT !.settled = "done"]
  <2>1. new \in Leg /\ new.pc = r.pc BY <1>0 DEF LegOK, Leg
  <2>2. r.room \in Rooms BY <1>0, <1>4 DEF HandleStatus, LegOK
  <2>3. RowsStamp BY <1>0, <1>4, DequeueStamps DEF HandleStatus
  <2>4. leg' = [leg EXCEPT ![l] = new] \/ RunTurn(r.room, [leg EXCEPT ![l] = new])
    BY <1>4 DEF HandleStatus
  <2> HIDE DEF new
  <2>5. QED BY <1>p, <2>1, <2>2, <2>3, <2>4
<1>5. QED BY <1>h, <1>1, <1>2, <1>3, <1>4 DEF CallStep

LEMMA YoungAgent ==
  ASSUME YoungInv, TypeInv', NEW q \in Rooms, RoomStep(q) \/ AgentLeaves(q)
  PROVE  YoungInv'
<1>1. RowsStamp BY DEF RoomStep, AgentJoins, RoomOpens, AgentLeaves, RowsStamp, Stamps
<1>2. leg' = leg \/ RunTurn(q, leg) BY DEF RoomStep, AgentJoins, RoomOpens, AgentLeaves
<1>3. leg \in [Legs -> Leg] BY DEF YoungInv, TypeInv, LegsInv
<1>4. QED BY <1>1, <1>2, <1>3, YoungRun

LEMMA YoungPeople ==
  ASSUME Punctual, YoungInv, TypeInv',
         \/ RequeueAll
         \/ \E c \in Contacts : \/ Stop(c) \/ StopDequeues(c) \/ ClaimAges(c)
                                \/ \E a \in Agents : DequeueByUser(c, a)
                                \/ \E requeue \in BOOLEAN : Enqueue(c, requeue)
  PROVE  YoungInv'
<1>0. GoodTable(row) /\ \A c \in Contacts : GoodRow(row[c]) BY DEF YoungInv, TypeInv, GoodTable
<1>s. ASSUME leg' = leg, RowsStamp PROVE YoungInv' BY <1>s, YoungStep
<1>1. CASE RequeueAll
  <2>1. RowsStamp BY <1>0, <1>1, StampedRow DEF RequeueAll, RowsStamp
  <2>2. QED BY <1>1, <1>s, <2>1 DEF RequeueAll
<1>2. ASSUME NEW c \in Contacts, ClaimAges(c) PROVE YoungInv'
  <2>1. /\ row[c].state = "assigned" /\ leg' = leg /\ \A l \in Legs : ~Swept(leg[l])
        /\ row' = [row EXCEPT ![c] = [row[c] EXCEPT !.claim = "stale"]]
    BY <1>2 DEF ClaimAges, Punctual, SetRow, Swept, TurnPC
  <2>2. row'[c].claim = "stale" /\ \A d \in Contacts \ {c} : row'[d] = row[d]
    BY <1>0, <2>1 DEF GoodTable, GoodRow, Entry
  <2>3. QED BY <2>1, <2>2 DEF YoungInv
<1>3. ASSUME NEW c \in Contacts, Stop(c) \/ StopDequeues(c) PROVE YoungInv'
  <2>1. leg' = leg BY <1>3 DEF Stop, StopDequeues
  <2>2. UNCHANGED row \/ row' = [row EXCEPT ![c] = Dequeued(row[c])]
        \/ row' = [row EXCEPT ![c] = row[c]]
    BY <1>3 DEF Stop, StopDequeues, SetRow
  <2>3. RowsStamp BY <1>0, <2>2, OneStamped, StampedRow DEF RowsStamp
  <2>4. QED BY <1>s, <2>1, <2>3
<1>4. ASSUME NEW c \in Contacts, NEW a \in Agents, DequeueByUser(c, a) PROVE YoungInv'
  BY <1>0, <1>4, <1>s, DequeueStamps DEF DequeueByUser
<1>5. ASSUME NEW c \in Contacts, NEW requeue \in BOOLEAN, Enqueue(c, requeue) PROVE YoungInv'
  <2>1. \/ row' = row \/ row' = [row EXCEPT ![c] = Fresh]
        \/ row' = [row EXCEPT ![c] = Released(row[c])]
    BY <1>5 DEF Enqueue, EnqueueEntry
  <2>2. RowsStamp BY <1>0, <2>1, OneStamped, StampedRow DEF RowsStamp
  <2>3. QED BY <1>5, <1>s, <2>2 DEF Enqueue
<1>6. QED BY <1>1, <1>2, <1>3, <1>4, <1>5

LEMMA Young == Punctual => (Spec => []YoungInv)
<1> SUFFICES ASSUME Punctual PROVE Spec => []YoungInv
  OBVIOUS
<1>1. Init => YoungInv
  <2>1. ASSUME Init, NEW c \in Contacts PROVE row[c].state # "assigned"
    <3>1. row[c] = Fresh \/ row[c] = [Fresh EXCEPT !.state = "absent"] BY <2>1 DEF Init
    <3>2. QED BY <3>1 DEF Fresh
  <2>2. QED BY <2>1, InitTyped DEF YoungInv
<1>2. YoungInv /\ [Next]_vars => YoungInv'
  <2> SUFFICES ASSUME YoungInv, [Next]_vars PROVE YoungInv'
    OBVIOUS
  <2>1. TypeInv' BY TypeStep DEF YoungInv
  <2>2. CASE UNCHANGED vars BY <2>1, <2>2, YoungStep DEF vars, RowsStamp, Stamps
  <2>3. CASE Next
    BY <2>1, <2>3, YoungTurn, YoungCall, YoungAgent, YoungPeople DEF Next
  <2>4. QED BY <2>2, <2>3
<1>3. QED BY <1>1, <1>2, PTL DEF Spec

\* The turn that completes the campaign finds no contact that waits and none
\* claimed with attempts left, however many turns run beside it, as long as its
\* sweep succeeds and is not older than the claims it judged.
THEOREM CompletesDrained == Punctual => (Spec => CompletionSparesAttempts)
<1> SUFFICES ASSUME Punctual PROVE Spec => CompletionSparesAttempts
  OBVIOUS
<1> DEFINE Spared == \A c \in Contacts : /\ row[c].state # "queued"
                                         /\ row[c].state = "assigned" => Exhausted(row[c])
<1>1. YoungInv /\ [Next]_vars => [Completes => Spared]_vars
  <2> SUFFICES ASSUME YoungInv, Next, Completes PROVE Spared
    OBVIOUS
  <2>1. PICK l \in Legs : Finish(l)
    BY DEF Completes, Next, TurnStep, StartTurn, Sweep, Claim, ClaimNothing, CheckOptOut,
           CheckWindow, Prepare, Dial, Retire, Save, HangUpRoom, Raise, CallStep,
           AnsweredUnknown, AnsweredByHuman, AnsweredByMachine, MachineHungUp, NotAnswered,
           HangUp, StatusCallback, HandleStatus, Forget, Kill, RoomStep, AgentJoins,
           RoomOpens, AgentLeaves, Stop, StopDequeues, ClaimAges, DequeueByUser, Enqueue,
           RequeueAll
  <2>2. Swept(leg[l]) /\ ~PendingWork(row)
    BY <2>1 DEF Finish, Completes, Swept, TurnPC
  <2>3. \A c \in Contacts : row[c].state = "assigned" => row[c].claim = "fresh"
    BY <2>2 DEF YoungInv
  <2>4. QED BY <2>2, <2>3 DEF PendingWork
<1>2. QED BY <1>1, Young, PTL DEF Spec, CompletionSparesAttempts

-----------------------------------------------------------------------------
(* What the calls do to the legs and the rows, for the two invariants      *)
(* below.                                                                  *)

\* A statement that takes a row off the queue or leaves it alone.
Drops(e, new) == new = e \/ new = Dequeued(e)
RowsDrop == \A d \in Contacts : Drops(row[d], row'[d])

LEMMA DequeueDrops ==
  ASSUME NEW c, NEW fanOut, NEW a, row' = DequeueContact(row, c, fanOut, a)
  PROVE  RowsDrop
BY DEF DequeueContact, Drops, RowsDrop

LEMMA DropsOne ==
  ASSUME GoodTable(row), NEW c \in Contacts, row' = [row EXCEPT ![c] = Dequeued(row[c])]
  PROVE  RowsDrop
BY DEF GoodTable, Drops, RowsDrop

\* The rows only leave the queue.
LEMMA DropsOut ==
  ASSUME GoodTable(row), RowsDrop
  PROVE  \A d \in Contacts : OffList(row[d]) => OffList(row'[d])
<1>1. \A d \in Contacts : Dequeued(row[d]).state = "dequeued"
  BY DEF GoodTable, GoodRow, Entry, Dequeued
<1>2. QED BY <1>1 DEF RowsDrop, Drops, OffList

LEMMA SweepOut ==
  ASSUME NEW q, GoodTable(q), NEW d \in Contacts, OffList(q[d])
  PROVE  OffList(ResetStale(q)[d])
BY DEF ResetStale, FailExhausted, OffList

Rung(r) == r.phone \in {"ringing", "answered", "voicemail"}

\* A contact who hangs up on the agent ends the conference.
Parting(l) == leg[l].phone = "answered" /\ HangUp(l)

\* The call of a leg stays the call it was or is over.
Carries(r, new) ==
  \/ new = NoLeg /\ r.pc = "idle"
  \/ /\ new.pc = r.pc /\ new.contact = r.contact /\ new.saved = r.saved
     /\ new.phone # "none" /\ (Rung(new) => Rung(r))

\* Any other leg is left alone or begins a turn.
OthersBegin(l) ==
  \A k \in Legs \ {l} :
    leg'[k] = leg[k] \/ (leg[k] = NoLeg /\ \E q \in Rooms : leg'[k] = Begun(q))

LEMMA RunBegins ==
  ASSUME leg \in [Legs -> Leg], NEW l \in Legs, NEW new, new # NoLeg, NEW q \in Rooms,
         leg' = [leg EXCEPT ![l] = new] \/ RunTurn(q, [leg EXCEPT ![l] = new])
  PROVE  leg'[l] = new /\ OthersBegin(l)
<1>1. CASE leg' = [leg EXCEPT ![l] = new] BY <1>1 DEF OthersBegin
<1>2. CASE RunTurn(q, [leg EXCEPT ![l] = new])
  <2> DEFINE legs == [leg EXCEPT ![l] = new]
  <2>1. PICK k \in Legs : legs[k] = NoLeg /\ leg' = [legs EXCEPT ![k] = Begun(q)]
    BY <1>2 DEF RunTurn
  <2>2. legs[l] = new /\ \A i \in Legs \ {l} : legs[i] = leg[i] OBVIOUS
  <2>3. DOMAIN legs = Legs OBVIOUS
  <2> HIDE DEF legs
  <2>4. k # l BY <2>1, <2>2
  <2>5. leg'[k] = Begun(q) /\ \A i \in Legs \ {k} : leg'[i] = legs[i] BY <2>1, <2>3
  <2>6. QED BY <2>1, <2>2, <2>4, <2>5 DEF OthersBegin
<1>3. QED BY <1>1, <1>2

LEMMA CallCarries ==
  ASSUME TypeInv, NEW l \in Legs, CallStep(l), ~Parting(l)
  PROVE  /\ leg[l].phone # "none" /\ Carries(leg[l], leg'[l])
         /\ OthersBegin(l) /\ RowsDrop /\ UNCHANGED <<edits, tried>>
<1> DEFINE r == leg[l]
<1>0. LegOK(r) /\ GoodTable(row) /\ leg \in [Legs -> Leg] BY DEF TypeInv, LegsInv
<1>u. UNCHANGED row => RowsDrop BY DEF RowsDrop, Drops
<1>t. UNCHANGED <<edits, tried>>
  BY DEF CallStep, AnsweredUnknown, AnsweredByHuman, AnsweredByMachine, MachineHungUp,
         NotAnswered, HangUp, StatusCallback, HandleStatus, Forget
<1>p. ASSUME NEW new, Put(l, new) PROVE leg'[l] = new /\ OthersBegin(l)
  BY <1>0, <1>p DEF Put, OthersBegin
<1>1. CASE AnsweredUnknown(l) \/ AnsweredByHuman(l) \/ MachineHungUp(l) \/ NotAnswered(l) \/ HangUp(l)
  <2>1. PICK s \in {"completed", "answered", "noanswer"} : Put(l, [r EXCEPT !.phone = s])
    BY <1>1 DEF AnsweredUnknown, AnsweredByHuman, MachineHungUp, NotAnswered, HangUp, Parting
  <2>2. UNCHANGED row /\ Rung(r)
    BY <1>1 DEF AnsweredUnknown, AnsweredByHuman, MachineHungUp, NotAnswered, HangUp, Rings, Rung
  <2>3. Carries(r, [r EXCEPT !.phone = s]) BY <1>0, <2>2 DEF Carries, LegOK, Leg, Rung
  <2>4. QED BY <1>p, <1>t, <1>u, <2>1, <2>2, <2>3 DEF Rung
<1>2. CASE AnsweredByMachine(l)
  <2> DEFINE new == [r EXCEPT !.phone = "voicemail"]
  <2>1. r.phone = "ringing" /\ r.saved BY <1>2 DEF AnsweredByMachine, Rings
  <2>2. r.contact \in Contacts /\ r.room \in Rooms BY <1>0, <2>1 DEF LegOK
  <2>3. Carries(r, new) /\ new # NoLeg BY <1>0, <2>1 DEF Carries, LegOK, Leg, Rung, NoLeg
  <2>4. leg' = [leg EXCEPT ![l] = new] \/ RunTurn(r.room, [leg EXCEPT ![l] = new])
    BY <1>2 DEF AnsweredByMachine
  <2>5. RowsDrop
    BY <1>0, <1>2, <2>2, DequeueDrops, DropsOne DEF AnsweredByMachine, MachineDequeue, SetRow
  <2> HIDE DEF new
  <2>6. QED BY <1>0, <1>t, <2>1, <2>2, <2>3, <2>4, <2>5, RunBegins
<1>3. CASE StatusCallback(l)
  <2>1. PICK s \in {"no", "claimed", "done"} : Put(l, [r EXCEPT !.settled = s])
    BY <1>0, <1>3 DEF StatusCallback, LegOK, Leg
  <2>2. UNCHANGED row /\ r.phone # "none" BY <1>3 DEF StatusCallback
  <2>3. Carries(r, [r EXCEPT !.settled = s]) BY <1>0, <2>2 DEF Carries, LegOK, Leg, Rung
  <2>4. QED BY <1>p, <1>t, <1>u, <2>1, <2>2, <2>3
<1>4. CASE HandleStatus(l)
  <2> DEFINE new == [r EXCEPT !.settled = "done"]
  <2>1. r.phone # "none" /\ r.room \in Rooms BY <1>0, <1>4 DEF HandleStatus, LegOK
  <2>2. Carries(r, new) /\ new # NoLeg BY <1>0, <2>1 DEF Carries, LegOK, Leg, Rung, NoLeg
  <2>3. leg' = [leg EXCEPT ![l] = new] \/ RunTurn(r.room, [leg EXCEPT ![l] = new])
    BY <1>4 DEF HandleStatus
  <2>4. RowsDrop BY <1>4, DequeueDrops DEF HandleStatus
  <2> HIDE DEF new
  <2>5. leg'[l] = new /\ OthersBegin(l) BY <1>0, <2>1, <2>2, <2>3, RunBegins
  <2>6. QED BY <1>t, <2>1, <2>2, <2>4, <2>5
<1>5. CASE Forget(l)
  <2>1. r.phone # "none" /\ r.pc = "idle" /\ Put(l, NoLeg) /\ UNCHANGED row
    BY <1>0, <1>5 DEF Forget, LegOK
  <2>2. QED BY <1>p, <1>t, <1>u, <2>1 DEF Carries
<1>6. QED BY <1>1, <1>2, <1>3, <1>4, <1>5 DEF CallStep

-----------------------------------------------------------------------------
(* No contact is given up untried.  An attempt is spent by the claim, not  *)
(* by the call: it holds as long as a claim that comes to nothing, which   *)
(* only a killed turn leaves behind, costs fewer attempts than there are.  *)

Losses == IF "kill" \in Faults THEN MaxEdits ELSE 0
Sparing ==
  /\ Night = {} /\ Losses + 1 < MaxAttempts
  /\ Faults \cap {"dberror", "stall"} = {}
  /\ Edits \cap {"enqueue", "requeueAll"} = {}

\* The claims that came to nothing so far, at most.
Lost == IF "kill" \in Faults THEN edits ELSE 0

\* A turn that has claimed a contact and has not called it yet.
Holds(r, c) == r.pc \in {"check", "window", "prep", "dial"} /\ r.contact = c

\* What an untried contact has spent: the lost claims, and the one in hand.
Spare(c) ==
  /\ row[c].state # "failed"
  /\ row[c].state = "queued" => row[c].tries <= Lost
  /\ row[c].state = "assigned" =>
       \/ row[c].tries <= Lost
       \/ /\ row[c].tries <= Lost + 1 /\ row[c].claim = "fresh"
          /\ \E l \in Legs : Holds(leg[l], c)

SpareInv ==
  /\ TypeInv
  /\ edits <= MaxEdits
  /\ \A c \in Contacts \ tried : Spare(c)

\* Edits and kills are counted up to their bound, and tried contacts stay so.
Spends == edits' \in Nat /\ edits <= edits' /\ edits' <= MaxEdits /\ tried \subseteq tried'

\* A step by which rows only leave the queue, and turns that hold a contact keep
\* it, unless they are killed, take it off the queue or call it.
LEMMA SpareStep ==
  ASSUME SpareInv, TypeInv', Spends,
         \A c \in Contacts \ tried' : Drops(row[c], row'[c]),
         Lost < Lost' \/ \A c \in Contacts \ tried' : \A l \in Legs :
           Holds(leg[l], c) => Holds(leg'[l], c) \/ row'[c].state = "dequeued"
  PROVE  SpareInv'
<1>1. MaxEdits \in Nat /\ edits \in Nat BY DialerConstantsOK DEF SpareInv, TypeInv, Rest
<1>2. Lost \in Nat /\ Lost' \in Nat /\ Lost <= Lost' BY <1>1 DEF Lost, Spends
<1>3. ASSUME NEW c \in Contacts \ tried' PROVE Spare(c)'
  <2>1. Spare(c) BY <1>3 DEF SpareInv, Spends
  <2>2. GoodRow(row[c]) BY DEF SpareInv, TypeInv, GoodTable
  <2>3. row[c].tries \in Nat BY <2>2, QueueConstantsOK DEF GoodRow, Entry
  <2>4. CASE row'[c] = Dequeued(row[c])
    <3>1. row'[c].state = "dequeued" BY <2>2, <2>4 DEF Dequeued, GoodRow, Entry
    <3>2. QED BY <3>1 DEF Spare
  <2>5. CASE row'[c] = row[c]
    <3>1. row[c].state = "queued" => row[c].tries <= Lost' BY <1>2, <2>1, <2>3 DEF Spare
    <3>2. ASSUME row[c].state = "assigned", ~(row[c].tries <= Lost')
          PROVE  row[c].tries <= Lost' + 1 /\ row[c].claim = "fresh"
                 /\ \E l \in Legs : Holds(leg'[l], c)
      <4>1. ~(row[c].tries <= Lost) BY <1>2, <2>3, <3>2
      <4>2. row[c].tries <= Lost + 1 /\ row[c].claim = "fresh" /\ \E l \in Legs : Holds(leg[l], c)
        BY <2>1, <3>2, <4>1 DEF Spare
      <4>3. ~(Lost < Lost') BY <1>2, <2>3, <3>2, <4>2
      <4>4. QED BY <1>2, <2>3, <2>5, <3>2, <4>2, <4>3
    <3>3. QED BY <2>1, <2>5, <3>1, <3>2 DEF Spare
  <2>6. QED BY <2>4, <2>5 DEF Drops
<1>4. QED BY <1>3 DEF SpareInv, Spends

\* An untried contact that is still in play has attempts left.
LEMMA SpareLasts ==
  ASSUME Sparing, SpareInv, NEW c \in Contacts \ tried, row[c].state \in {"queued", "assigned"}
  PROVE  ~Exhausted(row[c])
<1>1. MaxEdits \in Nat /\ edits \in Nat /\ edits <= MaxEdits
  BY DialerConstantsOK DEF SpareInv, TypeInv, Rest
<1>2. Lost \in Nat /\ Losses \in Nat /\ Lost <= Losses BY <1>1 DEF Lost, Losses
<1>3. row[c].tries \in Nat /\ MaxAttempts \in Nat
  BY QueueConstantsOK DEF SpareInv, TypeInv, GoodTable, GoodRow, Entry
<1>4. row[c].tries <= Lost + 1 BY <1>2, <1>3 DEF SpareInv, Spare
<1>5. QED BY <1>2, <1>3, <1>4 DEF Sparing, Exhausted

\* The sweep fails no untried contact, and puts back what is not in hand.
LEMMA SweptRow ==
  ASSUME Sparing, SpareInv, NEW c \in Contacts \ tried
  PROVE  \/ ResetStale(row)[c] = row[c]
         \/ /\ ResetStale(row)[c].state = "queued" /\ ResetStale(row)[c].tries = row[c].tries
            /\ row[c].tries <= Lost
<1>1. GoodRow(row[c]) BY DEF SpareInv, TypeInv, GoodTable
<1>2. FailExhausted(row)[c] = row[c] BY SpareLasts DEF FailExhausted
<1>3. ResetStale(row)[c] = IF row[c].state = "assigned" /\ row[c].claim = "stale"
        THEN [row[c] EXCEPT !.state = "queued", !.holder = NoAgent, !.claim = "unset"] ELSE row[c]
  BY <1>2 DEF ResetStale
<1>4. QED BY <1>1, <1>3 DEF GoodRow, Entry, SpareInv, Spare

LEMMA SpareTurn ==
  ASSUME Sparing, SpareInv, TypeInv', NEW l \in Legs, TurnStep(l)
  PROVE  SpareInv'
<1> DEFINE r == leg[l]
<1>0. LegOK(r) /\ GoodTable(row) /\ leg \in [Legs -> Leg] /\ \A c \in Contacts : GoodRow(row[c])
  BY DEF SpareInv, TypeInv, LegsInv, GoodTable
<1>m. \A q : Attempted(q) = {q} BY DEF Attempted, Sparing
<1>i. MaxEdits \in Nat /\ edits \in Nat /\ edits <= MaxEdits
  BY DialerConstantsOK DEF SpareInv, TypeInv, Rest
<1>u. UNCHANGED row => RowsDrop BY DEF RowsDrop, Drops
<1>g. ASSUME NEW new, Put(l, new)
      PROVE  leg'[l] = new /\ \A k \in Legs \ {l} : leg'[k] = leg[k]
  BY <1>0, <1>g DEF Put
\* A step of the turn that holds its contact further, drops it or calls it.
<1>k. ASSUME NEW new, Put(l, new), UNCHANGED edits, tried \subseteq tried',
             \A c \in Contacts \ tried' : Drops(row[c], row'[c]),
             \A c \in Contacts \ tried' :
               Holds(r, c) => Holds(new, c) \/ row'[c].state = "dequeued"
      PROVE  SpareInv'
  <2>1. Spends BY <1>i, <1>k DEF Spends
  <2>2. \A c \in Contacts \ tried' : \A k \in Legs :
          Holds(leg[k], c) => Holds(leg'[k], c) \/ row'[c].state = "dequeued"
    BY <1>g, <1>k
  <2>3. QED BY <1>k, <2>1, <2>2, SpareStep
\* A step of a turn that holds no contact.
<1>f. ASSUME NEW new, Put(l, new), UNCHANGED <<edits, tried>>, RowsDrop,
             r.pc \notin {"check", "window", "prep", "dial"}
      PROVE  SpareInv'
  BY <1>f, <1>k DEF Holds, RowsDrop
<1>1. CASE StartTurn(l)
  BY <1>f, <1>u, <1>1 DEF StartTurn, Goto, EndTurn
<1>2. CASE Sweep(l)
  <2>1. /\ r.pc = "sweep" /\ Goto(l, "claim") /\ row' = ResetStale(row)
        /\ UNCHANGED <<edits, tried>>
    BY <1>2, <1>m DEF Sweep
  <2>2. \A k \in Legs, c \in Contacts : Holds(leg[k], c) => Holds(leg'[k], c)
    BY <1>g, <2>1 DEF Goto, Holds
  <2>3. Lost' = Lost BY <2>1 DEF Lost
  <2>4. ASSUME NEW c \in Contacts \ tried PROVE Spare(c)'
    <3>1. Spare(c) BY DEF SpareInv
    <3>2. CASE row'[c] = row[c] BY <2>2, <2>3, <3>1, <3>2 DEF Spare
    <3>3. CASE row'[c].state = "queued" /\ row'[c].tries <= Lost BY <2>3, <3>3 DEF Spare
    <3>4. QED BY <2>1, <3>2, <3>3, SweptRow
  <2>5. QED BY <2>1, <2>4 DEF SpareInv
<1>3. CASE Claim(l)
  <2>1. PICK c \in Contacts :
          /\ row[c].state = "queued"
          /\ SetRow(c, Claimed(row[c], User(r.room)))
          /\ Put(l, [r EXCEPT !.pc = "check", !.contact = c, !.late = optOut[c] # "no"])
    BY <1>3 DEF Claim, IsNext, Claimable
  <2> DEFINE new == [r EXCEPT !.pc = "check", !.contact = c, !.late = optOut[c] # "no"]
  <2>2. r.pc = "claim" /\ r.room \in Rooms /\ UNCHANGED <<edits, tried>>
    BY <1>0, <1>3 DEF Claim, LegOK
  <2>3. Holds(new, c) BY <1>0 DEF LegOK, Leg, Holds
  <2>4. leg'[l] = new /\ \A k \in Legs \ {l} : leg'[k] = leg[k] BY <1>g, <2>1
  <2> HIDE DEF new
  <2>5. row'[c] = Claimed(row[c], User(r.room)) /\ \A d \in Contacts \ {c} : row'[d] = row[d]
    BY <1>0, <2>1 DEF SetRow, GoodTable
  <2>6. \A k \in Legs, d \in Contacts : Holds(leg[k], d) => Holds(leg'[k], d)
    BY <2>2, <2>4 DEF Holds
  <2>7. Lost' = Lost /\ Lost \in Nat BY <1>i, <2>2 DEF Lost
  <2>8. ASSUME NEW d \in Contacts \ tried PROVE Spare(d)'
    <3>1. Spare(d) BY DEF SpareInv
    <3>2. CASE d # c BY <2>5, <2>6, <2>7, <3>1, <3>2 DEF Spare
    <3>3. CASE d = c
      <4>1. row[c].tries <= Lost /\ ~Exhausted(row[c]) BY <2>1, <3>1, <3>3, SpareLasts DEF Spare
      <4>2. row'[c].state = "assigned" /\ row'[c].claim = "fresh"
        BY <1>0, <2>2, <2>5, ClaimedRow, UserAgent
      <4>3. row'[c].tries = row[c].tries + 1
        BY <1>0, <2>5, <4>1 DEF Claimed, GoodRow, Entry
      <4>4. row[c].tries \in Nat BY <1>0, QueueConstantsOK DEF GoodRow, Entry
      <4>5. row'[c].tries <= Lost + 1 BY <2>7, <4>1, <4>3, <4>4
      <4>6. QED BY <2>3, <2>4, <2>7, <3>3, <4>2, <4>5 DEF Spare
    <3>4. QED BY <3>2, <3>3
  <2>9. QED BY <2>2, <2>8 DEF SpareInv
<1>4. CASE ClaimNothing(l) BY <1>f, <1>u, <1>4 DEF ClaimNothing, Goto
<1>5. CASE CheckOptOut(l)
  <2>1. r.pc = "check" /\ r.contact \in Contacts /\ UNCHANGED <<edits, tried>>
    BY <1>0, <1>5 DEF CheckOptOut, LegOK
  <2>2. CASE optOut[r.contact] = "no"
    <3>1. Goto(l, "window") /\ UNCHANGED row BY <1>5, <2>2 DEF CheckOptOut
    <3>2. \A c : Holds(r, c) => Holds([r EXCEPT !.pc = "window"], c)
      BY <1>0 DEF Holds, LegOK, Leg
    <3>3. QED BY <1>k, <1>u, <2>1, <3>1, <3>2 DEF Goto, RowsDrop
  <2>3. CASE optOut[r.contact] # "no"
    <3>1. SetRow(r.contact, Dequeued(row[r.contact])) /\ \E new : Put(l, new)
      BY <1>5, <2>3 DEF CheckOptOut
    <3>2. RowsDrop BY <1>0, <2>1, <3>1, DropsOne DEF SetRow
    <3>3. row'[r.contact] = Dequeued(row[r.contact]) BY <1>0, <2>1, <3>1 DEF SetRow, GoodTable
    <3>4. row'[r.contact].state = "dequeued"
      BY <1>0, <2>1, <3>3 DEF Dequeued, GoodRow, Entry
    <3>5. QED BY <1>k, <2>1, <3>1, <3>2, <3>4 DEF Holds, RowsDrop
  <2>4. QED BY <2>2, <2>3
<1>6. CASE CheckWindow(l)
  <2>1. /\ r.pc = "window" /\ r.contact \in Contacts /\ UNCHANGED <<row, edits, tried>>
        /\ Goto(l, "prep")
    BY <1>0, <1>6 DEF CheckWindow, LegOK, Sparing
  <2>2. \A c : Holds(r, c) => Holds([r EXCEPT !.pc = "prep"], c)
    BY <1>0 DEF Holds, LegOK, Leg
  <2>3. QED BY <1>k, <1>u, <2>1, <2>2 DEF Goto, RowsDrop
<1>7. CASE Prepare(l)
  <2>1. r.pc = "prep" /\ Goto(l, "dial") /\ UNCHANGED <<row, edits, tried>>
    BY <1>7 DEF Prepare, Sparing
  <2>2. \A c : Holds(r, c) => Holds([r EXCEPT !.pc = "dial"], c)
    BY <1>0 DEF Holds, LegOK, Leg
  <2>3. QED BY <1>k, <1>u, <2>1, <2>2 DEF Goto, RowsDrop
<1>8. CASE Dial(l)
  <2>1. /\ r.contact \in Contacts /\ UNCHANGED edits /\ tried' = tried \cup {r.contact}
        /\ \E new : Put(l, new)
    BY <1>0, <1>8 DEF Dial, DialUnclear, EndTurn, LegOK
  <2>2. \A c \in Contacts \ {r.contact} : row'[c] = row[c]
    <3>1. CASE UNCHANGED row BY <3>1
    <3>2. CASE Revert(r.contact) BY <1>0, <1>m, <3>2 DEF Revert, GoodTable
    <3>3. CASE DialUnclear(l)
      <4>1. row' = DequeueContact(row, r.contact, FALSE, User(r.room))
        BY <1>m, <3>3 DEF DialUnclear
      <4>2. QED BY <4>1 DEF DequeueContact
    <3>4. QED BY <1>8, <3>1, <3>2, <3>3 DEF Dial
  <2>3. QED BY <1>k, <2>1, <2>2 DEF Holds, Drops
<1>9. CASE Retire(l)
  <2>1. RowsDrop BY <1>9, DequeueDrops DEF Retire
  <2>2. QED BY <1>f, <1>9, <2>1 DEF Retire, Goto
<1>10. CASE Save(l) BY <1>f, <1>u, <1>10 DEF Save
<1>11. CASE HangUpRoom(l)
  <2>1. r.pc = "hangup" /\ \A k \in Legs \ {l} : leg'[k] = leg[k] \/ Parts(leg[k], leg'[k])
    BY <1>11, RoomHangsUp DEF SpareInv, TypeInv
  <2>2. \A k \in Legs, c \in Contacts : Holds(leg[k], c) => Holds(leg'[k], c)
    BY <2>1, PartsYields DEF Holds, SpareInv, TypeInv, LegsInv
  <2>3. UNCHANGED <<row, edits, tried>> BY <1>11 DEF HangUpRoom
  <2>4. Spends BY <1>i, <2>3 DEF Spends
  <2>5. QED BY <1>u, <2>2, <2>3, <2>4, SpareStep DEF RowsDrop
<1>12. CASE Finish(l) BY <1>f, <1>u, <1>12 DEF Finish, EndTurn
<1>13. CASE Raise(l) BY <1>13 DEF Raise, Sparing
<1>14. QED BY <1>1, <1>2, <1>3, <1>4, <1>5, <1>6, <1>7, <1>8, <1>9, <1>10, <1>11, <1>12, <1>13
       DEF TurnStep

LEMMA SpareCall ==
  ASSUME SpareInv, TypeInv', NEW l \in Legs, CallStep(l)
  PROVE  SpareInv'
<1>1. RowsDrop /\ UNCHANGED <<edits, tried>>
      /\ \A k \in Legs, c \in Contacts : Holds(leg[k], c) => Holds(leg'[k], c)
  <2>1. CASE Parting(l)
    <3>1. \A k \in Legs : leg'[k] = leg[k] \/ Parts(leg[k], leg'[k])
      BY <2>1, ContactHangsUp DEF Parting, HangUp, SpareInv, TypeInv
    <3>2. \A k \in Legs, c \in Contacts : Holds(leg[k], c) => Holds(leg'[k], c)
      BY <3>1, PartsYields DEF Holds, SpareInv, TypeInv, LegsInv
    <3>3. QED BY <2>1, <3>2 DEF Parting, HangUp, RowsDrop, Drops
  <2>2. CASE ~Parting(l)
    <3>1. leg[l].phone # "none" /\ OthersBegin(l) /\ RowsDrop /\ UNCHANGED <<edits, tried>>
      BY <2>2, CallCarries DEF SpareInv
    <3>2. LegOK(leg[l]) BY DEF SpareInv, TypeInv, LegsInv
    <3>3. \A c : ~Holds(leg[l], c) BY <3>1, <3>2 DEF Holds, LegOK
    <3>4. \A c : ~Holds(NoLeg, c) BY DEF Holds, NoLeg
    <3>5. QED BY <3>1, <3>3, <3>4 DEF OthersBegin
  <2>3. QED BY <2>1, <2>2
<1>2. Spends BY <1>1, DialerConstantsOK DEF Spends, SpareInv, TypeInv, Rest
<1>3. QED BY <1>1, <1>2, SpareStep DEF RowsDrop

LEMMA SpareKill ==
  ASSUME SpareInv, TypeInv', NEW l \in Legs, Kill(l)
  PROVE  SpareInv'
<1>1. edits \in Nat /\ edits' = edits + 1 /\ edits < MaxEdits /\ "kill" \in Faults
      /\ UNCHANGED <<row, tried>>
  BY DEF Kill, SpareInv, TypeInv, Rest
<1>2. Spends BY <1>1, DialerConstantsOK DEF Spends
<1>3. Lost < Lost' BY <1>1 DEF Lost
<1>4. QED BY <1>1, <1>2, <1>3, SpareStep DEF Drops

LEMMA SpareRest ==
  ASSUME Sparing, SpareInv, TypeInv',
         \/ \E q \in Rooms : RoomStep(q) \/ AgentLeaves(q)
         \/ \E c \in Contacts : \/ Stop(c) \/ StopDequeues(c)
                                \/ \E a \in Agents : DequeueByUser(c, a)
         \/ UNCHANGED vars
  PROVE  SpareInv'
<1>0. GoodTable(row) /\ leg \in [Legs -> Leg] /\ edits \in Nat /\ MaxEdits \in Nat
      /\ edits <= MaxEdits
  BY DialerConstantsOK DEF SpareInv, TypeInv, LegsInv, Rest
<1>1. tried' = tried
  BY DEF RoomStep, AgentJoins, RoomOpens, AgentLeaves, Stop, StopDequeues, DequeueByUser, vars
<1>2. edits' = edits \/ (edits < MaxEdits /\ edits' = edits + 1)
  BY DEF RoomStep, AgentJoins, RoomOpens, AgentLeaves, Stop, StopDequeues, DequeueByUser,
         Edit, vars
<1>3. Spends BY <1>0, <1>1, <1>2 DEF Spends
<1>4. RowsDrop
  <2>1. UNCHANGED row => RowsDrop BY DEF RowsDrop, Drops
  <2>2. ASSUME NEW c \in Contacts, StopDequeues(c) PROVE RowsDrop
    <3>1. row' = [row EXCEPT ![c] = Dequeued(row[c])] \/ row' = [row EXCEPT ![c] = row[c]]
      BY <2>2 DEF StopDequeues, SetRow
    <3>2. QED BY <1>0, <3>1, DropsOne DEF RowsDrop, Drops, GoodTable
  <2>3. ASSUME NEW c \in Contacts, NEW a \in Agents, DequeueByUser(c, a) PROVE RowsDrop
    BY <2>3, DequeueDrops DEF DequeueByUser
  <2>4. QED BY <2>1, <2>2, <2>3
        DEF RoomStep, AgentJoins, RoomOpens, AgentLeaves, Stop, vars
<1>5. \A k \in Legs, c \in Contacts : Holds(leg[k], c) => Holds(leg'[k], c)
  <2>1. CASE leg' = leg BY <2>1
  <2>2. ASSUME NEW q \in Rooms, RunTurn(q, leg)
        PROVE  \A k \in Legs, c \in Contacts : Holds(leg[k], c) => Holds(leg'[k], c)
    <3>1. PICK k \in Legs : leg[k] = NoLeg /\ leg' = [leg EXCEPT ![k] = Begun(q)]
      BY <2>2 DEF RunTurn
    <3>2. \A c : ~Holds(NoLeg, c) BY DEF Holds, NoLeg
    <3>3. QED BY <1>0, <3>1, <3>2
  <2>3. QED BY <2>1, <2>2
        DEF RoomStep, AgentJoins, RoomOpens, AgentLeaves, Stop, StopDequeues, DequeueByUser, vars
<1>6. QED BY <1>1, <1>3, <1>4, <1>5, SpareStep DEF RowsDrop

LEMMA SpareAges ==
  ASSUME Sparing, SpareInv, TypeInv', NEW c \in Contacts, ClaimAges(c)
  PROVE  SpareInv'
<1>1. /\ row[c].state = "assigned" /\ UNCHANGED <<leg, edits, tried>>
      /\ row' = [row EXCEPT ![c] = [row[c] EXCEPT !.claim = "stale"]]
      /\ \A l \in Legs : ~Holds(leg[l], c)
  BY DEF ClaimAges, SetRow, Working, Holds, Sparing
<1>2. GoodTable(row) /\ GoodRow(row[c]) BY DEF SpareInv, TypeInv, GoodTable
<1>3. row'[c].state = "assigned" /\ row'[c].tries = row[c].tries
      /\ \A d \in Contacts \ {c} : row'[d] = row[d]
  BY <1>1, <1>2 DEF GoodTable, GoodRow, Entry
<1>4. Lost' = Lost BY <1>1 DEF Lost
<1>5. ASSUME NEW d \in Contacts \ tried PROVE Spare(d)'
  <2>1. Spare(d) BY DEF SpareInv
  <2>2. CASE d # c BY <1>1, <1>3, <1>4, <2>1, <2>2 DEF Spare
  <2>3. CASE d = c
    <3>1. row[c].tries <= Lost BY <1>1, <2>1, <2>3 DEF Spare
    <3>2. QED BY <1>3, <1>4, <2>3, <3>1 DEF Spare
  <2>4. QED BY <2>2, <2>3
<1>6. QED BY <1>1, <1>5 DEF SpareInv

\* A contact is given up only after a call to it was requested, although the
\* claim spends the attempt: whatever else goes wrong, a turn that is not killed
\* or cut short calls the contact it claimed, or takes it off the queue.
THEOREM TriedFirst == Sparing => (Spec => []FailedWasTried)
<1> SUFFICES ASSUME Sparing PROVE Spec => []FailedWasTried
  OBVIOUS
<1>1. Init => SpareInv
  <2> SUFFICES ASSUME Init PROVE SpareInv
    OBVIOUS
  <2>1. TypeInv BY InitTyped
  <2>2. edits = 0 /\ Lost = 0 /\ MaxEdits \in Nat BY DialerConstantsOK DEF Init, Lost
  <2>3. ASSUME NEW c \in Contacts PROVE Spare(c)
    <3>1. row[c] = Fresh \/ row[c] = [Fresh EXCEPT !.state = "absent"] BY DEF Init
    <3>2. QED BY <2>2, <3>1 DEF Fresh, Spare
  <2>4. QED BY <2>1, <2>2, <2>3 DEF SpareInv
<1>2. SpareInv /\ [Next]_vars => SpareInv'
  <2> SUFFICES ASSUME SpareInv, [Next]_vars PROVE SpareInv'
    OBVIOUS
  <2>1. TypeInv' BY TypeStep DEF SpareInv
  <2>2. ~RequeueAll /\ \A c \in Contacts, requeue \in BOOLEAN : ~Enqueue(c, requeue)
    BY DEF RequeueAll, Enqueue, Edit, Sparing
  <2>3. QED BY <2>1, <2>2, SpareTurn, SpareCall, SpareKill, SpareRest, SpareAges DEF Next
<1>3. SpareInv => FailedWasTried BY DEF SpareInv, Spare, FailedWasTried
<1>4. QED BY <1>1, <1>2, <1>3, PTL DEF Spec

-----------------------------------------------------------------------------
(* While a call to one member of a household is up, no other member is     *)
(* taken: the call's turn has dequeued them, but for those whom other      *)
(* turns held, who come back to the queue only when their call is refused. *)

Calm == Mild /\ Night = {}

\* The turn of this call has taken the household off the queue.
Cleared(r) == r.pc = "save" \/ r.saved

WorksOn(r, c) == Works(r) /\ r.contact = c

\* Some turn works on every contact that is claimed, so that no claim grows old and
\* is swept; and whoever waits although the household was cleared has been tried.
LeftInv ==
  /\ QuietInv
  /\ \A c \in Contacts : row[c].state = "assigned" => \E l \in Legs : WorksOn(leg[l], c)
  /\ \A l \in Legs, c \in Contacts :
       Cleared(leg[l]) /\ Housemate(c, leg[l].contact) /\ row[c].state = "queued"
         => c \in tried

\* The other legs are left alone, leave a conference or begin a turn.
Aside(l) ==
  \A k \in Legs \ {l} :
    \/ leg'[k] = leg[k] \/ Parts(leg[k], leg'[k])
    \/ leg[k] = NoLeg /\ \E q \in Rooms : leg'[k] = Begun(q)

\* Rows stay queued or claimed, or leave the queue.
RowsLeave ==
  \A c \in Contacts :
    row'[c].state \in {"queued", "assigned"} => row'[c].state = row[c].state

LEMMA DropsLeave == ASSUME GoodTable(row), RowsDrop PROVE RowsLeave
<1>1. \A c \in Contacts : Dequeued(row[c]).state = "dequeued"
  BY DEF GoodTable, GoodRow, Entry, Dequeued
<1>2. QED BY <1>1 DEF RowsDrop, Drops, RowsLeave

LEMMA IdleClears ==
  /\ ~Works(NoLeg) /\ ~Cleared(NoLeg)
  /\ \A q : ~Works(Begun(q)) /\ ~Cleared(Begun(q))
BY DEF Works, Cleared, Begun, NoLeg

LEMMA LeftStep ==
  ASSUME LeftInv, QuietInv', tried \subseteq tried', NEW l \in Legs, Aside(l),
         \/ ~Cleared(leg'[l])
         \/ Cleared(leg[l]) /\ leg'[l].contact = leg[l].contact
         \/ \A c \in Contacts : Housemate(c, leg'[l].contact) => row'[c].state # "queued",
         \A c \in Contacts : row'[c].state = "queued" =>
           row[c].state = "queued" \/ c \in tried',
         \A c \in Contacts : row'[c].state = "assigned" =>
           \/ WorksOn(leg'[l], c)
           \/ row[c].state = "assigned" /\ ~WorksOn(leg[l], c)
  PROVE  LeftInv'
<1>1. ASSUME NEW k \in Legs \ {l}
      PROVE  /\ \A c : WorksOn(leg[k], c) => WorksOn(leg'[k], c)
             /\ Cleared(leg'[k]) => Cleared(leg[k]) /\ leg'[k].contact = leg[k].contact
  <2>1. CASE leg'[k] = leg[k] BY <2>1
  <2>2. CASE Parts(leg[k], leg'[k])
    <3>1. LegOK(leg[k]) BY DEF LeftInv, QuietInv, TypeInv, LegsInv
    <3>2. QED BY <2>2, <3>1, PartsQuietly DEF WorksOn, Cleared
  <2>3. CASE leg[k] = NoLeg /\ \E q \in Rooms : leg'[k] = Begun(q)
    BY <2>3, IdleClears DEF WorksOn
  <2>4. QED BY <2>1, <2>2, <2>3 DEF Aside
<1>2. ASSUME NEW c \in Contacts, row'[c].state = "assigned"
      PROVE  \E k \in Legs : WorksOn(leg'[k], c)
  BY <1>1, <1>2 DEF LeftInv
<1>3. ASSUME NEW k \in Legs, NEW c \in Contacts, Cleared(leg'[k]),
             Housemate(c, leg'[k].contact), row'[c].state = "queued"
      PROVE  c \in tried'
  BY <1>1, <1>3 DEF LeftInv
<1>4. QED BY <1>2, <1>3 DEF LeftInv

\* The same for a step that changes rows only.
LEMMA LeftRows ==
  ASSUME LeftInv, QuietInv', tried \subseteq tried', leg' = leg, RowsLeave
  PROVE  LeftInv'
BY DEF LeftInv, RowsLeave

LEMMA LeftTurn ==
  ASSUME Calm, LeftInv, QuietInv', NEW l \in Legs, TurnStep(l)
  PROVE  LeftInv'
<1> DEFINE r == leg[l]
<1>0. LegOK(r) /\ GoodTable(row) /\ leg \in [Legs -> Leg] /\ LegOK(leg'[l])
  BY DEF LeftInv, QuietInv, TypeInv, LegsInv
<1>m. \A q : Attempted(q) = {q} BY DEF Attempted, Calm, Mild
<1>g. ASSUME NEW new, Put(l, new) PROVE leg'[l] = new /\ Aside(l)
  BY <1>0, <1>g DEF Put, Aside
<1>c. ~r.saved \/ r.pc = "idle" BY <1>0 DEF LegOK
\* A turn that has nobody in hand goes on or ends.
<1>f. ASSUME ~Works(r), RowsLeave, UNCHANGED tried, Aside(l), ~Cleared(leg'[l])
      PROVE  LeftInv'
  BY <1>f, LeftStep DEF RowsLeave, WorksOn
<1>e. ASSUME EndTurn(l), r.pc \notin {"retire", "save", "idle"}
      PROVE  leg'[l] = NoLeg /\ Aside(l) /\ ~Cleared(leg'[l])
  BY <1>0, <1>e, <1>g, EndedIdle, IdleClears DEF EndTurn
<1>t. ASSUME NEW pc \in TurnPC \ {"save"}, Goto(l, pc)
      PROVE  /\ leg'[l].pc = pc /\ leg'[l].contact = r.contact
             /\ Aside(l) /\ ~Cleared(leg'[l])
  <2>1. leg'[l] = [r EXCEPT !.pc = pc] /\ Aside(l) BY <1>g, <1>t DEF Goto
  <2>2. leg'[l].pc = pc /\ leg'[l].contact = r.contact BY <1>0, <2>1 DEF LegOK, Leg
  <2>3. ~Cleared(leg'[l]) BY <1>0, <1>t, <2>2 DEF Cleared, LegOK, TurnPC
  <2>4. QED BY <2>1, <2>2, <2>3
\* A turn goes on with its contact in hand.
<1>w. ASSUME Works(leg'[l]), leg'[l].contact = r.contact, UNCHANGED row,
             tried \subseteq tried', Aside(l), ~Cleared(leg'[l])
      PROVE  LeftInv'
  BY <1>w, LeftStep DEF WorksOn
\* A turn lets go of the contact it has in hand.
<1>d. ASSUME \A c \in Contacts \ {r.contact} : row'[c] = row[c],
             row'[r.contact].state # "assigned",
             row'[r.contact].state = "queued" => r.contact \in tried',
             tried \subseteq tried', Aside(l), ~Cleared(leg'[l])
      PROVE  LeftInv'
  BY <1>d, LeftStep DEF WorksOn
<1>1. CASE StartTurn(l)
  <2>1. r.pc = "start" /\ RowsLeave /\ UNCHANGED tried BY <1>1 DEF StartTurn, RowsLeave
  <2>2. Aside(l) /\ ~Cleared(leg'[l]) BY <1>1, <1>e, <1>t, <2>1 DEF StartTurn, TurnPC
  <2>3. QED BY <1>f, <2>1, <2>2 DEF Works
<1>2. CASE Sweep(l)
  <2>1. r.pc = "sweep" /\ row' = ResetStale(row) /\ UNCHANGED tried /\ Goto(l, "claim")
    BY <1>2, <1>m DEF Sweep
  <2>2. ASSUME NEW c \in Contacts PROVE row[c].state = "assigned" => row[c].claim = "fresh"
    <3>1. SUFFICES ASSUME row[c].state = "assigned" PROVE row[c].claim = "fresh"
      OBVIOUS
    <3>2. PICK k \in Legs : WorksOn(leg[k], c) BY <3>1 DEF LeftInv
    <3>3. Guards(leg[k], row[c])
      BY <3>2 DEF WorksOn, Occupies, LeftInv, QuietInv, Guarded
    <3>4. QED BY <3>1, <3>3 DEF Guards, Finished
  <2>3. RowsLeave
    <3> SUFFICES ASSUME NEW c \in Contacts, row'[c].state \in {"queued", "assigned"}
                 PROVE  row'[c].state = row[c].state
      BY DEF RowsLeave
    <3> DEFINE e == FailExhausted(row)[c]
    <3>1. row'[c] = IF e.state = "assigned" /\ e.claim = "stale"
            THEN [e EXCEPT !.state = "queued", !.holder = NoAgent, !.claim = "unset"] ELSE e
      BY <2>1 DEF ResetStale
    <3>2. e = row[c] \/ e.state = "failed"
      BY <1>0 DEF FailExhausted, GoodTable, GoodRow, Entry
    <3> HIDE DEF e
    <3>3. ~(e.state = "assigned" /\ e.claim = "stale") BY <2>2, <3>2
    <3>4. QED BY <3>1, <3>2, <3>3
  <2>4. Aside(l) /\ ~Cleared(leg'[l]) BY <1>t, <2>1 DEF TurnPC
  <2>5. QED BY <1>f, <2>1, <2>3, <2>4 DEF Works
<1>3. CASE Claim(l)
  <2>1. PICK c \in Contacts :
          /\ row[c].state = "queued"
          /\ SetRow(c, Claimed(row[c], User(r.room)))
          /\ Put(l, [r EXCEPT !.pc = "check", !.contact = c, !.late = optOut[c] # "no"])
    BY <1>3 DEF Claim, IsNext, Claimable
  <2>2. r.pc = "claim" /\ r.room \in Rooms /\ UNCHANGED tried
    BY <1>0, <1>3 DEF Claim, LegOK
  <2>3. leg'[l] = [r EXCEPT !.pc = "check", !.contact = c, !.late = optOut[c] # "no"] /\ Aside(l)
    BY <1>g, <2>1
  <2>4. leg'[l].pc = "check" /\ leg'[l].contact = c BY <1>0, <2>3 DEF LegOK, Leg
  <2>5. WorksOn(leg'[l], c) /\ ~Works(r) BY <2>2, <2>4 DEF WorksOn, Works
  <2>6. ~Cleared(leg'[l]) BY <1>0, <2>4 DEF Cleared, LegOK
  <2>7. row'[c].state = "assigned" /\ \A d \in Contacts \ {c} : row'[d] = row[d]
    <3>1. row'[c] = Claimed(row[c], User(r.room)) /\ \A d \in Contacts \ {c} : row'[d] = row[d]
      BY <1>0, <2>1 DEF SetRow, GoodTable
    <3>2. QED BY <1>0, <2>2, <3>1, ClaimedRow, UserAgent DEF GoodTable
  <2>8. ASSUME NEW d \in Contacts
        PROVE  /\ row'[d].state = "queued" => row[d].state = "queued" \/ d \in tried'
               /\ row'[d].state = "assigned" =>
                    \/ WorksOn(leg'[l], d)
                    \/ row[d].state = "assigned" /\ ~WorksOn(r, d)
    <3>1. CASE d = c BY <2>5, <2>7, <3>1
    <3>2. CASE d # c BY <2>5, <2>7, <3>2 DEF WorksOn
    <3>3. QED BY <3>1, <3>2
  <2>9. QED BY <2>2, <2>3, <2>6, <2>8, LeftStep
<1>4. CASE ClaimNothing(l)
  <2>1. r.pc = "claim" /\ RowsLeave /\ UNCHANGED tried /\ Goto(l, "hangup")
    BY <1>4 DEF ClaimNothing, RowsLeave
  <2>2. QED BY <1>f, <1>t, <2>1 DEF Works, TurnPC
<1>5. CASE CheckOptOut(l)
  <2>1. r.pc = "check" /\ UNCHANGED tried /\ r.contact \in Contacts
    BY <1>0, <1>5 DEF CheckOptOut, LegOK
  <2>2. CASE Goto(l, "window") /\ UNCHANGED row
    BY <1>w, <1>t, <2>1, <2>2 DEF Works, TurnPC
  <2>3. CASE optOut[r.contact] # "no"
    <3> DEFINE pc == IF r.refused + 1 < MaxOptOutSkips THEN "claim" ELSE "hangup"
    <3> DEFINE new == [r EXCEPT !.contact = NoContact, !.late = FALSE,
                                !.refused = r.refused + 1, !.pc = pc]
    <3>1. Put(l, new) /\ SetRow(r.contact, Dequeued(row[r.contact]))
      BY <1>5, <2>3 DEF CheckOptOut
    <3>2. new.pc \in {"claim", "hangup"} BY <1>0 DEF LegOK, Leg
    <3> HIDE DEF new
    <3>3. leg'[l] = new /\ Aside(l) BY <1>g, <3>1
    <3>4. ~Cleared(leg'[l]) BY <1>0, <3>2, <3>3 DEF Cleared, LegOK
    <3>5. /\ row'[r.contact].state = "dequeued"
          /\ \A c \in Contacts \ {r.contact} : row'[c] = row[c]
      BY <1>0, <2>1, <3>1, DequeuedTable
         DEF SetRow, GoodTable, GoodRow, Entry, Dequeued
    <3>6. QED BY <1>d, <2>1, <3>3, <3>4, <3>5
  <2>4. QED BY <1>5, <2>2, <2>3 DEF CheckOptOut
<1>6. CASE CheckWindow(l)
  <2>1. r.pc = "window" /\ UNCHANGED <<row, tried>> /\ Goto(l, "prep")
    BY <1>0, <1>6 DEF CheckWindow, Calm, LegOK
  <2>2. QED BY <1>w, <1>t, <2>1 DEF Works, TurnPC
<1>7. CASE Prepare(l)
  <2>1. UNCHANGED <<row, tried>> /\ Goto(l, "dial") BY <1>7 DEF Prepare, Calm, Mild
  <2>2. QED BY <1>w, <1>t, <2>1 DEF Works, TurnPC
<1>8. CASE Dial(l)
  <2>1. r.pc = "dial" /\ Works(r) /\ r.contact \in Contacts /\ r.room \in Rooms
        /\ tried' = tried \cup {r.contact}
    BY <1>0, <1>8, OccupiesType DEF Dial, Works, Occupies
  <2>2. CASE Put(l, [Placed(l) EXCEPT !.pc = "retire"]) /\ UNCHANGED row
    <3>1. leg'[l] = [[r EXCEPT !.phone = "ringing"] EXCEPT !.pc = "retire"] /\ Aside(l)
      BY <1>g, <2>2 DEF Placed
    <3>2. leg'[l].pc = "retire" /\ leg'[l].contact = r.contact BY <1>0, <3>1 DEF LegOK, Leg
    <3>3. Works(leg'[l]) /\ ~Cleared(leg'[l]) BY <1>0, <3>2 DEF Works, Cleared, LegOK
    <3>4. QED BY <1>w, <2>1, <2>2, <3>1, <3>2, <3>3
  <2>3. CASE EndTurn(l) /\ Revert(r.contact)
    <3>1. row' = [row EXCEPT ![r.contact] = Released(row[r.contact])] BY <1>m, <2>3 DEF Revert
    <3>2. /\ row'[r.contact].state = "queued"
          /\ \A c \in Contacts \ {r.contact} : row'[c] = row[c]
      BY <1>0, <2>1, <3>1 DEF GoodTable, GoodRow, Entry, Released
    <3>3. QED BY <1>d, <1>e, <2>1, <2>3, <3>2
  <2>4. CASE DialUnclear(l)
    <3>1. row' = DequeueContact(row, r.contact, FALSE, User(r.room))
      BY <1>m, <2>4 DEF DialUnclear
    <3>2. \A c \in Contacts \ {r.contact} : row'[c] = row[c] BY <3>1 DEF DequeueContact
    <3>3. Guards(r, row[r.contact]) BY <2>1 DEF LeftInv, QuietInv, Guarded, Occupies
    <3>4. Finished(row'[r.contact])
      BY <1>0, <2>1, <3>1, <3>3, HolderDequeues, UserAgent DEF Guards
    <3>5. Aside(l) /\ ~Cleared(leg'[l])
      <4>1. CASE EndTurn(l) BY <1>e, <2>1, <4>1
      <4>2. CASE Put(l, Ended(Placed(l)))
        <5>1. Ended(Placed(l)) = [[r EXCEPT !.phone = "ringing"] EXCEPT !.pc = "idle"]
          BY <1>0 DEF Placed, Ended, LegOK, Leg
        <5>2. leg'[l] = [[r EXCEPT !.phone = "ringing"] EXCEPT !.pc = "idle"] /\ Aside(l)
          BY <1>g, <4>2, <5>1
        <5>3. leg'[l].pc = "idle" /\ leg'[l].saved = r.saved BY <1>0, <5>2 DEF LegOK, Leg
        <5>4. QED BY <1>c, <2>1, <5>2, <5>3 DEF Cleared
      <4>3. QED BY <2>4, <4>1, <4>2 DEF DialUnclear
    <3>6. QED BY <1>d, <2>1, <3>2, <3>4, <3>5 DEF Finished
  <2>5. QED BY <1>8, <2>2, <2>3, <2>4 DEF Dial
<1>9. CASE Retire(l)
  <2>1. /\ r.pc = "retire" /\ Works(r) /\ Occupies(r) /\ UNCHANGED tried
        /\ row' = DequeueContact(row, r.contact, TRUE, User(r.room)) /\ Goto(l, "save")
    BY <1>9 DEF Retire, Works, Occupies
  <2>2. r.contact \in Contacts /\ r.room \in Rooms BY <1>0, <2>1, OccupiesType
  <2>3. leg'[l] = [r EXCEPT !.pc = "save"] /\ Aside(l) BY <1>g, <2>1 DEF Goto
  <2>4. leg'[l].contact = r.contact BY <1>0, <2>3 DEF LegOK, Leg
  <2>5. RowsLeave BY <1>0, <2>1, DequeueDrops, DropsLeave
  <2>6. ASSUME NEW c \in Contacts, Housemate(c, r.contact) PROVE row'[c].state # "queued"
    <3>1. c \in Housemates(r.contact) BY <2>2, <2>6 DEF Housemate, Housemates
    <3>2. row'[c] = IF MayDequeue(row[c], User(r.room)) THEN Dequeued(row[c]) ELSE row[c]
      BY <2>1, <3>1 DEF DequeueContact
    <3>3. Dequeued(row[c]).state = "dequeued"
      BY <1>0 DEF GoodTable, GoodRow, Entry, Dequeued
    <3>4. QED BY <3>2, <3>3 DEF MayDequeue
  <2>7. Guards(r, row[r.contact]) BY <2>1 DEF LeftInv, QuietInv, Guarded
  <2>8. Finished(row'[r.contact])
    BY <1>0, <2>1, <2>2, <2>7, HolderDequeues, UserAgent DEF Guards
  <2>9. \A c \in Contacts : row'[c].state = "assigned" =>
          row[c].state = "assigned" /\ ~WorksOn(r, c)
    BY <2>5, <2>8 DEF RowsLeave, WorksOn, Finished
  <2>10. QED BY <2>1, <2>3, <2>4, <2>5, <2>6, <2>9, LeftStep DEF RowsLeave
<1>10. CASE Save(l)
  <2>1. /\ r.pc = "save" /\ UNCHANGED <<row, tried>>
        /\ leg'[l] = [r EXCEPT !.pc = "idle", !.saved = TRUE] /\ Aside(l)
    BY <1>10, <1>g DEF Save
  <2>2. leg'[l].contact = r.contact BY <1>0, <2>1 DEF LegOK, Leg
  <2>3. Cleared(r) /\ ~Works(r) BY <2>1 DEF Cleared, Works
  <2>4. QED BY <2>1, <2>2, <2>3, LeftStep DEF WorksOn
<1>11. CASE HangUpRoom(l)
  <2>1. /\ r.pc = "hangup" /\ leg'[l] = [r EXCEPT !.pc = "finish"]
        /\ \A k \in Legs \ {l} : leg'[k] = leg[k] \/ Parts(leg[k], leg'[k])
    BY <1>11, RoomHangsUp DEF LeftInv, QuietInv, TypeInv
  <2>2. leg'[l].pc = "finish" BY <1>0, <2>1 DEF LegOK, Leg
  <2>3. ~Cleared(leg'[l]) BY <1>0, <2>2 DEF Cleared, LegOK
  <2>4. QED BY <1>11, <1>f, <2>1, <2>3 DEF HangUpRoom, Aside, RowsLeave, Works
<1>12. CASE Finish(l)
  <2>1. r.pc = "finish" /\ RowsLeave /\ UNCHANGED tried /\ EndTurn(l)
    BY <1>12 DEF Finish, RowsLeave
  <2>2. QED BY <1>e, <1>f, <2>1 DEF Works
<1>13. CASE Raise(l) BY <1>13 DEF Raise, Calm, Mild
<1>14. QED BY <1>1, <1>2, <1>3, <1>4, <1>5, <1>6, <1>7, <1>8, <1>9, <1>10, <1>11, <1>12, <1>13
       DEF TurnStep

LEMMA LeftCall ==
  ASSUME LeftInv, QuietInv', NEW l \in Legs, CallStep(l)
  PROVE  LeftInv'
<1>0. LegOK(leg[l]) /\ GoodTable(row) BY DEF LeftInv, QuietInv, TypeInv, LegsInv
<1>1. CASE Parting(l)
  <2>1. Parts(leg[l], leg'[l]) /\ \A k \in Legs : leg'[k] = leg[k] \/ Parts(leg[k], leg'[k])
    BY <1>1, ContactHangsUp DEF Parting, HangUp, LeftInv, QuietInv, TypeInv
  <2>2. /\ ~Works(leg[l]) /\ leg'[l].contact = leg[l].contact
        /\ Cleared(leg'[l]) => Cleared(leg[l])
    BY <1>0, <2>1, PartsQuietly DEF Cleared
  <2>3. UNCHANGED <<row, tried>> BY <1>1 DEF Parting, HangUp
  <2>4. QED BY <2>1, <2>2, <2>3, LeftStep DEF Aside, WorksOn
<1>2. CASE ~Parting(l)
  <2>1. /\ Carries(leg[l], leg'[l]) /\ OthersBegin(l) /\ RowsDrop /\ UNCHANGED tried
    BY <1>2, CallCarries DEF LeftInv, QuietInv
  <2>2. Aside(l) BY <2>1 DEF OthersBegin, Aside
  <2>3. RowsLeave BY <1>0, <2>1, DropsLeave
  <2>4. \A c : WorksOn(leg[l], c) => WorksOn(leg'[l], c)
    BY <2>1 DEF Carries, WorksOn, Works
  <2>5. ~Cleared(leg'[l]) \/ (Cleared(leg[l]) /\ leg'[l].contact = leg[l].contact)
    BY <2>1, IdleClears DEF Carries, Cleared
  <2>6. QED BY <2>1, <2>2, <2>3, <2>4, <2>5, LeftStep DEF RowsLeave
<1>3. QED BY <1>1, <1>2

LEMMA LeftRest ==
  ASSUME Calm, LeftInv, QuietInv',
         \/ \E q \in Rooms : RoomStep(q) \/ AgentLeaves(q)
         \/ \E c \in Contacts : \/ Stop(c) \/ StopDequeues(c)
                                \/ \E a \in Agents : DequeueByUser(c, a)
         \/ UNCHANGED vars
  PROVE  LeftInv'
<1>0. GoodTable(row) /\ leg \in [Legs -> Leg] BY DEF LeftInv, QuietInv, TypeInv, LegsInv
<1>1. tried' = tried
  BY DEF RoomStep, AgentJoins, RoomOpens, AgentLeaves, Stop, StopDequeues, DequeueByUser, vars
<1>2. RowsLeave
  <2>1. UNCHANGED row => RowsLeave BY DEF RowsLeave
  <2>2. ASSUME NEW c \in Contacts, StopDequeues(c) PROVE RowsLeave
    <3>1. row' = [row EXCEPT ![c] = Dequeued(row[c])] \/ row' = [row EXCEPT ![c] = row[c]]
      BY <2>2 DEF StopDequeues, SetRow
    <3>2. RowsDrop BY <1>0, <3>1, DropsOne DEF RowsDrop, Drops, GoodTable
    <3>3. QED BY <1>0, <3>2, DropsLeave
  <2>3. ASSUME NEW c \in Contacts, NEW a \in Agents, DequeueByUser(c, a) PROVE RowsLeave
    BY <1>0, <2>3, DequeueDrops, DropsLeave DEF DequeueByUser
  <2>4. QED BY <2>1, <2>2, <2>3
        DEF RoomStep, AgentJoins, RoomOpens, AgentLeaves, Stop, vars
<1>3. CASE leg' = leg BY <1>1, <1>2, <1>3, LeftRows
<1>4. ASSUME NEW q \in Rooms, RunTurn(q, leg) PROVE LeftInv'
  <2>1. PICK k \in Legs : leg[k] = NoLeg /\ leg' = [leg EXCEPT ![k] = Begun(q)]
    BY <1>4 DEF RunTurn
  <2>2. leg'[k] = Begun(q) /\ Aside(k) BY <1>0, <2>1 DEF Aside
  <2>3. QED BY <1>1, <1>2, <2>1, <2>2, IdleClears, LeftStep DEF RowsLeave, WorksOn
<1>5. QED BY <1>3, <1>4
      DEF RoomStep, AgentJoins, RoomOpens, AgentLeaves, Stop, StopDequeues, DequeueByUser, vars

\* While turns end in time every claim has its turn, and none grows old.
LEMMA NoneAges ==
  ASSUME Calm, LeftInv, NEW c \in Contacts PROVE ~ClaimAges(c)
<1> SUFFICES ASSUME ClaimAges(c) PROVE FALSE
  OBVIOUS
<1>1. row[c].state = "assigned" /\ \A l \in Legs : Working(l) => leg[l].contact # c
  BY DEF ClaimAges, Calm, Mild
<1>2. PICK l \in Legs : WorksOn(leg[l], c) BY <1>1 DEF LeftInv
<1>3. QED BY <1>1, <1>2 DEF WorksOn, Works, Working

\* A turn that looks for a contact gets one by the claim alone.
LEMMA ClaimOnly ==
  ASSUME Calm, LeftInv, Next, NEW l \in Legs, NEW c \in Contacts, Claims(l, c)
  PROVE  Claim(l) /\ row[c].state = "queued"
<1>0. /\ LegOK(leg[l]) /\ leg \in [Legs -> Leg] /\ leg[l].pc = "claim"
      /\ leg[l].phone = "none" /\ leg[l].contact # c /\ leg'[l].contact = c
  <2>1. LegOK(leg[l]) /\ leg \in [Legs -> Leg] BY DEF LeftInv, QuietInv, TypeInv, LegsInv
  <2>2. leg[l].pc = "claim" /\ leg'[l].contact = c BY DEF Claims
  <2>3. leg[l].phone = "none" /\ leg[l].contact = NoContact BY <2>1, <2>2 DEF LegOK
  <2>4. c # NoContact BY DialerConstantsOK, QueueConstantsOK
  <2>5. QED BY <2>1, <2>2, <2>3, <2>4
<1>1. leg'[l] # leg[l] /\ leg'[l] # NoLeg /\ \A q : leg'[l] # Begun(q)
  <2>1. NoLeg.contact = NoContact /\ \A q : Begun(q).contact = NoContact BY DEF NoLeg, Begun
  <2>2. c # NoContact BY DialerConstantsOK
  <2>3. QED BY <1>0, <2>1, <2>2
<1>2. ~Parts(leg[l], leg'[l]) BY <1>0 DEF Parts
<1>3. ASSUME NEW k \in Legs, TurnStep(k) PROVE k = l
  <2>1. CASE HangUpRoom(k)
    BY <1>1, <1>2, <2>1, RoomHangsUp DEF LeftInv, QuietInv, TypeInv
  <2>2. CASE ~HangUpRoom(k)
    <3>1. PICK new : Put(k, new)
      BY <1>3, <2>2
         DEF TurnStep, StartTurn, Sweep, Claim, ClaimNothing, CheckOptOut, CheckWindow, Prepare,
             Dial, DialUnclear, Retire, Save, Finish, Raise, Goto, EndTurn
    <3>2. QED BY <1>0, <1>1, <3>1 DEF Put
  <2>3. QED BY <2>1, <2>2
<1>4. ASSUME NEW k \in Legs, CallStep(k) PROVE FALSE
  <2>1. CASE Parting(k)
    BY <1>1, <1>2, <2>1, ContactHangsUp DEF Parting, HangUp, LeftInv, QuietInv, TypeInv
  <2>2. CASE ~Parting(k)
    <3>1. leg[k].phone # "none" /\ OthersBegin(k)
      BY <1>4, <2>2, CallCarries DEF LeftInv, QuietInv
    <3>2. QED BY <1>0, <1>1, <3>1 DEF OthersBegin
  <2>3. QED BY <2>1, <2>2
<1>5. ASSUME NEW q \in Rooms, RoomStep(q) \/ AgentLeaves(q) PROVE FALSE
  <2>1. leg' = leg \/ RunTurn(q, leg) BY <1>5 DEF RoomStep, AgentJoins, RoomOpens, AgentLeaves
  <2>2. QED BY <1>0, <1>1, <2>1 DEF RunTurn
<1>6. TurnStep(l)
  BY <1>1, <1>3, <1>4, <1>5
     DEF Next, Kill, Calm, Mild, Stop, StopDequeues, ClaimAges, DequeueByUser, Enqueue, RequeueAll
<1>7. Claim(l)
  <2>1. ~ClaimNothing(l)
    <3>1. ASSUME Goto(l, "hangup") PROVE FALSE
      <4>1. leg'[l] = [leg[l] EXCEPT !.pc = "hangup"] BY <1>0, <3>1 DEF Goto, Put
      <4>2. QED BY <1>0, <4>1 DEF LegOK, Leg
    <3>2. QED BY <3>1 DEF ClaimNothing
  <2>2. ~Raise(l) BY DEF Raise, Calm, Mild
  <2>3. QED BY <1>0, <1>6, <2>1, <2>2
        DEF TurnStep, StartTurn, Sweep, CheckOptOut, CheckWindow, Prepare, Dial, Retire, Save,
            HangUpRoom, Finish
<1>8. PICK d \in Contacts :
        /\ row[d].state = "queued"
        /\ Put(l, [leg[l] EXCEPT !.pc = "check", !.contact = d, !.late = optOut[d] # "no"])
  BY <1>7 DEF Claim, IsNext, Claimable
<1>9. leg'[l].contact = d BY <1>0, <1>8 DEF Put, LegOK, Leg
<1>10. QED BY <1>0, <1>7, <1>8, <1>9

\* However many rooms dial, a turn takes another member of a household whose call
\* is up and saved only if a call to that member was refused: for as long as no turn
\* is killed, frozen or cut short by the database, nobody is put back on the queue by
\* hand, and every contact is in the calling window.
THEOREM OneOfAHousehold == Calm => (Spec => HouseholdLeft)
<1> SUFFICES ASSUME Calm PROVE Spec => HouseholdLeft
  OBVIOUS
<1>1. Init => LeftInv
  <2> SUFFICES ASSUME Init PROVE LeftInv
    OBVIOUS
  <2>1. \A l \in Legs : leg[l] = NoLeg BY DEF Init
  <2>2. QuietInv
    <3>1. ~Occupies(NoLeg) BY DEF Occupies, Works, NoLeg
    <3>2. QED BY <2>1, <3>1, InitTyped DEF QuietInv, Guarded, Alone
  <2>3. ASSUME NEW c \in Contacts PROVE row[c].state # "assigned"
    <3>1. row[c] = Fresh \/ row[c] = [Fresh EXCEPT !.state = "absent"] BY DEF Init
    <3>2. QED BY <3>1 DEF Fresh
  <2>4. QED BY <2>1, <2>2, <2>3, IdleClears DEF LeftInv
<1>2. LeftInv /\ [Next]_vars => LeftInv'
  <2> SUFFICES ASSUME LeftInv, [Next]_vars PROVE LeftInv'
    OBVIOUS
  <2>1. QuietInv' BY QuietNext DEF LeftInv, Calm
  <2>2. \A l \in Legs : ~Kill(l) BY DEF Kill, Calm, Mild
  <2>3. ~RequeueAll /\ \A c \in Contacts, requeue \in BOOLEAN : ~Enqueue(c, requeue)
    BY DEF RequeueAll, Enqueue, Edit, Calm, Mild
  <2>4. QED BY <2>1, <2>2, <2>3, LeftTurn, LeftCall, LeftRest, NoneAges DEF Next
<1>3. LeftInv /\ [Next]_vars =>
        [\A k, l \in Legs, c \in Contacts :
           Claims(l, c) /\ OnPhone(k) /\ leg[k].saved /\ Housemate(c, leg[k].contact)
             => c \in tried]_vars
  BY ClaimOnly DEF LeftInv, Cleared
<1>4. QED BY <1>1, <1>2, <1>3, PTL DEF Spec, HouseholdLeft

-----------------------------------------------------------------------------
(* The dialer implements the abstract list, where no contact has two calls. *)
(* What the list shows of a contact is read off the one leg that occupies   *)
(* it, and off its row when none does.                                      *)

Has(r) == r.pc \in {"check", "window", "prep", "dial"}
Attends(r) == Has(r) \/ r.phone \in {"ringing", "answered"}

\* Stage and Hands as functions of the tables, to speak of them after a step.
StageIn(legs, q, c) ==
  IF \E l \in Legs : legs[l].contact = c /\ Has(legs[l]) THEN "held"
  ELSE IF \E l \in Legs : legs[l].contact = c /\ Occupies(legs[l]) THEN "called"
  ELSE IF OffList(q[c]) THEN "done" ELSE "waiting"
HandsIn(legs, c) ==
  {q \in Rooms : \E l \in Legs :
     legs[l].room = q /\ legs[l].contact = c /\ Attends(legs[l])}

LEMMA Views ==
  /\ \A c : Stage(c) = StageIn(leg, row, c) /\ Hands(c) = HandsIn(leg, c)
  /\ \A c : Stage(c)' = StageIn(leg', row', c) /\ Hands(c)' = HandsIn(leg', c)
<1>1. \A c : Stage(c) = StageIn(leg, row, c) /\ Stage(c)' = StageIn(leg', row', c)
  BY DEF Stage, StageIn, Considers, Reaches, Has, Occupies, Works, OnPhone
<1>2. \A c : Hands(c) = HandsIn(leg, c) /\ Hands(c)' = HandsIn(leg', c)
  BY DEF Hands, HandsIn, Considers, Has, Attends
<1>3. QED BY <1>1, <1>2

\* A contact that one leg occupies, and one that none does.
LEMMA OccupiedView ==
  ASSUME NEW legs, NEW q, NEW c, NEW l \in Legs, LegOK(legs[l]),
         Occupies(legs[l]), legs[l].contact = c,
         \A k \in Legs \ {l} : Occupies(legs[k]) => legs[k].contact # c
  PROVE  /\ StageIn(legs, q, c) = IF Has(legs[l]) THEN "held" ELSE "called"
         /\ HandsIn(legs, c) = IF Attends(legs[l]) THEN {legs[l].room} ELSE {}
<1>1. \A r : Has(r) => Occupies(r) BY DEF Has, Occupies, Works
<1>2. \A r : Attends(r) => Occupies(r) BY DEF Has, Attends, Occupies, Works
<1>3. legs[l].room \in Rooms BY OccupiesType
<1>4. QED BY <1>1, <1>2, <1>3 DEF StageIn, HandsIn

LEMMA FreeView ==
  ASSUME NEW legs, NEW q, NEW c,
         \A l \in Legs : Occupies(legs[l]) => legs[l].contact # c
  PROVE  /\ StageIn(legs, q, c) = IF OffList(q[c]) THEN "done" ELSE "waiting"
         /\ HandsIn(legs, c) = {}
<1>1. \A r : Has(r) => Occupies(r) BY DEF Has, Occupies, Works
<1>2. \A r : Attends(r) => Occupies(r) BY DEF Has, Attends, Occupies, Works
<1>3. QED BY <1>1, <1>2 DEF StageIn, HandsIn

\* What a step of one leg shows of the contacts it does not occupy.
Leaves(c) == Stage(c) = "waiting" /\ Stage(c)' = "done" /\ Hands(c) = {}
Elsewhere(c) == Hands(c)' = Hands(c) /\ (Stage(c)' = Stage(c) \/ Leaves(c))

LEMMA ElseView ==
  ASSUME NEW c, OffList(row[c]) => OffList(row'[c]),
         \A k \in Legs : leg'[k] # leg[k] =>
           /\ Occupies(leg[k]) => leg[k].contact # c
           /\ Occupies(leg'[k]) => leg'[k].contact # c
  PROVE  Elsewhere(c)
<1>1. \A r : Has(r) => Occupies(r) BY DEF Has, Occupies, Works
<1>2. \A r : Attends(r) => Occupies(r) BY DEF Has, Attends, Occupies, Works
<1>3. HandsIn(leg', c) = HandsIn(leg, c)
  <2>1. \A k \in Legs : leg'[k].contact = c /\ Attends(leg'[k])
                        <=> leg[k].contact = c /\ Attends(leg[k])
    BY <1>2
  <2>2. \A k \in Legs : leg[k].contact = c /\ Attends(leg[k]) => leg'[k] = leg[k]
    BY <1>2
  <2>3. QED BY <2>1, <2>2 DEF HandsIn
<1>4. \A k \in Legs : /\ leg'[k].contact = c /\ Has(leg'[k]) <=> leg[k].contact = c /\ Has(leg[k])
                      /\ leg'[k].contact = c /\ Occupies(leg'[k])
                         <=> leg[k].contact = c /\ Occupies(leg[k])
  BY <1>1
<1>5. CASE \E k \in Legs : leg[k].contact = c /\ Occupies(leg[k])
  <2>1. StageIn(leg', row', c) = StageIn(leg, row, c) BY <1>4, <1>5 DEF StageIn
  <2>2. QED BY <1>3, <2>1, Views DEF Elsewhere
<1>6. CASE ~\E k \in Legs : leg[k].contact = c /\ Occupies(leg[k])
  <2>1. /\ \A k \in Legs : Occupies(leg[k]) => leg[k].contact # c
        /\ \A k \in Legs : Occupies(leg'[k]) => leg'[k].contact # c
    BY <1>4, <1>6
  <2>2. /\ StageIn(leg, row, c) = IF OffList(row[c]) THEN "done" ELSE "waiting"
        /\ HandsIn(leg, c) = {}
    BY <2>1, FreeView
  <2>3. StageIn(leg', row', c) = IF OffList(row'[c]) THEN "done" ELSE "waiting"
    BY <2>1, FreeView
  <2>4. QED BY <1>3, <2>2, <2>3, Views DEF Elsewhere, Leaves
<1>7. QED BY <1>5, <1>6

LEMMA ElseSame ==
  ASSUME NEW c, row'[c] = row[c],
         \A k \in Legs : leg'[k] # leg[k] =>
           /\ Occupies(leg[k]) => leg[k].contact # c
           /\ Occupies(leg'[k]) => leg'[k].contact # c
  PROVE  Stage(c)' = Stage(c) /\ Hands(c)' = Hands(c)
<1>1. \A r : Has(r) => Occupies(r) BY DEF Has, Occupies, Works
<1>2. \A k \in Legs : /\ leg'[k].contact = c /\ Has(leg'[k]) <=> leg[k].contact = c /\ Has(leg[k])
                      /\ leg'[k].contact = c /\ Occupies(leg'[k])
                         <=> leg[k].contact = c /\ Occupies(leg[k])
  BY <1>1
<1>3. StageIn(leg', row', c) = StageIn(leg, row, c) BY <1>2 DEF StageIn
<1>4. Elsewhere(c) BY ElseView
<1>5. QED BY <1>3, <1>4, Views DEF Elsewhere

-----------------------------------------------------------------------------
(* The abstract steps, contact by contact.                                 *)

LEMMA LeaveMaps ==
  ASSUME NEW S \in SUBSET Contacts, NEW T \in SUBSET Contacts,
         \A c \in S : Stage(c) \in {"waiting", "called"},
         \A c \in T : Stage(c) = "called",
         \A c \in Contacts : /\ Stage(c)' = IF c \in S THEN "done" ELSE Stage(c)
                             /\ Hands(c)' = IF c \in S \cup T THEN {} ELSE Hands(c)
  PROVE  L!Next
<1>1. L!Leave(S, T) BY DEF L!Leave
<1>2. QED BY <1>1 DEF L!Next

\* Contacts leave from behind the step, and at most one is affected otherwise.
LEMMA EndMaps ==
  ASSUME NEW x \in Contacts, Stage(x) = "called", Stage(x)' \in {"called", "done"},
         Hands(x)' = Hands(x) \/ Hands(x)' = {},
         Stage(x)' = "done" => Hands(x)' = {},
         \A c \in Contacts \ {x} : Elsewhere(c)
  PROVE  L!Next
<1> DEFINE S == {c \in Contacts : Stage(c) # Stage(c)'}
<1> DEFINE T == IF Hands(x)' = {} THEN {x} ELSE {}
<1>1. S \in SUBSET Contacts /\ T \in SUBSET Contacts OBVIOUS
<1>2. \A c \in S : Stage(c) \in {"waiting", "called"} /\ Stage(c)' = "done" /\ Hands(c)' = {}
  BY DEF Elsewhere, Leaves
<1>3. \A c \in T : Stage(c) = "called" /\ Hands(c)' = {} OBVIOUS
<1>4. \A c \in Contacts : c \notin S \cup T => Stage(c)' = Stage(c) /\ Hands(c)' = Hands(c)
  BY DEF Elsewhere
<1>5. \A c \in Contacts : c \notin S => Stage(c)' = Stage(c) OBVIOUS
<1> HIDE DEF S, T
<1>6. QED BY <1>1, <1>2, <1>3, <1>4, <1>5, LeaveMaps

LEMMA QuietMaps ==
  ASSUME \A c \in Contacts : Elsewhere(c)
  PROVE  L!Next
<1> DEFINE S == {c \in Contacts : Stage(c) # Stage(c)'}
<1>1. S \in SUBSET Contacts /\ {} \in SUBSET Contacts OBVIOUS
<1>2. \A c \in S : Stage(c) = "waiting" /\ Stage(c)' = "done" /\ Hands(c)' = {}
  BY DEF Elsewhere, Leaves
<1>3. \A c \in Contacts : Hands(c)' = Hands(c) /\ (c \notin S => Stage(c)' = Stage(c))
  BY DEF Elsewhere
<1> HIDE DEF S
<1>4. QED BY <1>1, <1>2, <1>3, LeaveMaps

LEMMA TakeMaps ==
  ASSUME NEW x \in Contacts, NEW q \in Rooms, Stage(x) = "waiting", Stage(x)' = "held",
         Hands(x)' = {q}, \A c \in Contacts : q \notin Hands(c),
         \A c \in Contacts \ {x} : Stage(c)' = Stage(c) /\ Hands(c)' = Hands(c)
  PROVE  L!Next
<1>1. L!Take(x, q) BY DEF L!Take
<1>2. QED BY <1>1 DEF L!Next

LEMMA CallMaps ==
  ASSUME NEW x \in Contacts, Stage(x) = "held", Stage(x)' = "called", Hands(x)' = Hands(x),
         \A c \in Contacts \ {x} : Stage(c)' = Stage(c) /\ Hands(c)' = Hands(c)
  PROVE  L!Next
<1>1. L!Call(x) BY DEF L!Call
<1>2. QED BY <1>1 DEF L!Next

LEMMA DropMaps ==
  ASSUME NEW x \in Contacts, Stage(x) = "held", Stage(x)' \in {"waiting", "done"}, Hands(x)' = {},
         \A c \in Contacts \ {x} : Stage(c)' = Stage(c) /\ Hands(c)' = Hands(c)
  PROVE  L!Next
<1>1. L!Drop(x, Stage(x)') BY DEF L!Drop
<1>2. QED BY <1>1 DEF L!Next

-----------------------------------------------------------------------------
(* The steps of one leg.                                                   *)

\* One leg changes; a free one may begin the next turn.
Moves(l, new) == leg'[l] = new /\ OthersBegin(l)

LEMMA NoOccupant == ~Occupies(NoLeg) /\ \A q : ~Occupies(Begun(q))
BY DEF Occupies, Works, NoLeg, Begun

\* The contacts that the leg occupies neither before nor after the step.
LEMMA OthersStay ==
  ASSUME NEW l \in Legs, NEW new, Moves(l, new), NEW c,
         Occupies(leg[l]) => leg[l].contact # c, Occupies(new) => new.contact # c
  PROVE  /\ (OffList(row[c]) => OffList(row'[c])) => Elsewhere(c)
         /\ row'[c] = row[c] => Stage(c)' = Stage(c) /\ Hands(c)' = Hands(c)
<1>1. \A k \in Legs : leg'[k] # leg[k] =>
         /\ Occupies(leg[k]) => leg[k].contact # c
         /\ Occupies(leg'[k]) => leg'[k].contact # c
  BY NoOccupant DEF Moves, OthersBegin
<1>2. QED BY <1>1, ElseView, ElseSame

\* The contact that the leg occupies, before the step and after it.
LEMMA OwnBefore ==
  ASSUME QuietInv, NEW l \in Legs, Occupies(leg[l]), NEW x, x = leg[l].contact
  PROVE  /\ Stage(x) = IF Has(leg[l]) THEN "held" ELSE "called"
         /\ Hands(x) = IF Attends(leg[l]) THEN {leg[l].room} ELSE {}
<1>1. LegOK(leg[l]) BY DEF QuietInv, TypeInv, LegsInv
<1>2. \A k \in Legs \ {l} : Occupies(leg[k]) => leg[k].contact # leg[l].contact
  BY DEF QuietInv, Alone
<1>3. QED BY <1>1, <1>2, OccupiedView, Views

LEMMA OwnAfter ==
  ASSUME QuietInv', NEW l \in Legs, NEW new, leg'[l] = new, Occupies(new), NEW x, x = new.contact
  PROVE  /\ Stage(x)' = IF Has(new) THEN "held" ELSE "called"
         /\ Hands(x)' = IF Attends(new) THEN {new.room} ELSE {}
<1>1. LegOK(leg'[l]) BY DEF QuietInv, TypeInv, LegsInv
<1>2. \A k \in Legs \ {l} : Occupies(leg'[k]) => leg'[k].contact # leg'[l].contact
  BY DEF QuietInv, Alone
<1>3. QED BY <1>1, <1>2, OccupiedView, Views

\* The contact that the leg occupied, when it does so no more.
LEMMA OwnLeft ==
  ASSUME QuietInv, NEW l \in Legs, Occupies(leg[l]), NEW new, Moves(l, new), ~Occupies(new),
         NEW x, x = leg[l].contact
  PROVE  /\ Stage(x)' = IF OffList(row'[x]) THEN "done" ELSE "waiting"
         /\ Hands(x)' = {}
<1>1. \A k \in Legs \ {l} : Occupies(leg[k]) => leg[k].contact # x
  BY DEF QuietInv, Alone
<1>2. \A k \in Legs : Occupies(leg'[k]) => leg'[k].contact # x
  BY <1>1, NoOccupant DEF Moves, OthersBegin
<1>3. QED BY <1>2, FreeView, Views

\* Rows that are off the list stay off.
StaysOff == \A c \in Contacts : OffList(row[c]) => OffList(row'[c])

\* A leg that occupies nothing goes on.
LEMMA IdleMaps ==
  ASSUME NEW l \in Legs, NEW new, Moves(l, new), ~Occupies(leg[l]), ~Occupies(new), StaysOff
  PROVE  L!Next
BY OthersStay, QuietMaps DEF StaysOff

\* A turn that has its contact in hand goes on.
LEMMA HeldMaps ==
  ASSUME QuietInv, QuietInv', NEW l \in Legs, NEW new, Moves(l, new), StaysOff,
         Has(leg[l]), Has(new), new.contact = leg[l].contact, new.room = leg[l].room
  PROVE  L!Next
<1>x. PICK x : x = leg[l].contact OBVIOUS
<1>1. \A r : Has(r) => Occupies(r) /\ Attends(r) BY DEF Has, Attends, Occupies, Works
<1>2. Stage(x)' = Stage(x) /\ Hands(x)' = Hands(x) BY <1>x, <1>1, OwnBefore, OwnAfter DEF Moves
<1>3. \A c \in Contacts : Elsewhere(c)
  <2>1. ASSUME NEW c \in Contacts, c # x PROVE Elsewhere(c)
    BY <1>x, <2>1, OthersStay DEF StaysOff
  <2>2. QED BY <1>2, <2>1 DEF Elsewhere
<1>4. QED BY <1>3, QuietMaps

\* A call goes on, or it ends and its contact has left the list.
LEMMA UpMaps ==
  ASSUME QuietInv, QuietInv', NEW l \in Legs, NEW new, Moves(l, new), StaysOff,
         Occupies(leg[l]), ~Has(leg[l]), ~Has(new),
         Occupies(new) => /\ new.contact = leg[l].contact /\ new.room = leg[l].room
                          /\ Attends(new) => Attends(leg[l]),
         ~Occupies(new) => OffList(row'[leg[l].contact])
  PROVE  L!Next
<1>x. PICK x : x = leg[l].contact OBVIOUS
<1>0. x \in Contacts BY <1>x, OccupiesType DEF QuietInv, TypeInv, LegsInv
<1>1. Stage(x) = "called" /\ Hands(x) = IF Attends(leg[l]) THEN {leg[l].room} ELSE {}
  BY <1>x, OwnBefore
<1>2. /\ Stage(x)' \in {"called", "done"}
      /\ Hands(x)' = Hands(x) \/ Hands(x)' = {}
      /\ Stage(x)' = "done" => Hands(x)' = {}
  <2>1. CASE Occupies(new) BY <1>1, <1>x, <2>1, OwnAfter DEF Moves
  <2>2. CASE ~Occupies(new) BY <1>x, <2>2, OwnLeft
  <2>3. QED BY <2>1, <2>2
<1>3. ASSUME NEW c \in Contacts \ {x} PROVE Elsewhere(c)
  BY <1>x, <1>3, OthersStay DEF StaysOff
<1>4. QED BY <1>0, <1>1, <1>2, <1>x, <1>3, EndMaps

\* A turn puts its contact back, or crosses it off.
LEMMA GiveUpMaps ==
  ASSUME QuietInv, NEW l \in Legs, NEW new, Moves(l, new), Has(leg[l]), ~Occupies(new),
         \A c \in Contacts \ {leg[l].contact} : row'[c] = row[c]
  PROVE  L!Next
<1>x. PICK x : x = leg[l].contact OBVIOUS
<1>1. Occupies(leg[l]) BY DEF Has, Occupies, Works
<1>2. x \in Contacts BY <1>x, <1>1, OccupiesType DEF QuietInv, TypeInv, LegsInv
<1>3. Stage(x) = "held" BY <1>x, <1>1, OwnBefore
<1>4. Stage(x)' \in {"waiting", "done"} /\ Hands(x)' = {} BY <1>x, <1>1, OwnLeft
<1>5. ASSUME NEW c \in Contacts \ {x} PROVE Stage(c)' = Stage(c) /\ Hands(c)' = Hands(c)
  BY <1>x, <1>5, OthersStay
<1>6. QED BY <1>2, <1>3, <1>4, <1>x, <1>5, DropMaps

\* A turn calls the contact it has in hand.
LEMMA DialMaps ==
  ASSUME QuietInv, QuietInv', NEW l \in Legs, NEW new, Moves(l, new), Has(leg[l]),
         new.phone = "ringing", ~Has(new),
         new.contact = leg[l].contact, new.room = leg[l].room,
         \A c \in Contacts \ {leg[l].contact} : row'[c] = row[c]
  PROVE  L!Next
<1>x. PICK x : x = leg[l].contact OBVIOUS
<1>1. Occupies(leg[l]) /\ Attends(leg[l]) /\ Occupies(new) /\ Attends(new)
  BY DEF Has, Attends, Occupies, Works
<1>2. x \in Contacts BY <1>x, <1>1, OccupiesType DEF QuietInv, TypeInv, LegsInv
<1>3. Stage(x) = "held" /\ Hands(x) = {leg[l].room} BY <1>x, <1>1, OwnBefore
<1>4. Stage(x)' = "called" /\ Hands(x)' = {leg[l].room} BY <1>x, <1>1, OwnAfter DEF Moves
<1>5. ASSUME NEW c \in Contacts \ {x} PROVE Stage(c)' = Stage(c) /\ Hands(c)' = Hands(c)
  BY <1>x, <1>5, OthersStay
<1>6. QED BY <1>2, <1>3, <1>4, <1>x, <1>5, CallMaps

\* A turn that has nobody in hand claims a row that waits.
LEMMA ClaimMaps ==
  ASSUME QuietInv, QuietInv', NEW l \in Legs, NEW new, Moves(l, new),
         leg[l].pc = "claim", new.pc = "check", new.room = leg[l].room,
         new.contact \in Contacts, row[new.contact].state = "queued",
         \A c \in Contacts \ {new.contact} : row'[c] = row[c]
  PROVE  L!Next
<1>x. PICK x, q : x = new.contact /\ q = leg[l].room OBVIOUS
<1>0. LegOK(leg[l]) /\ \A k \in Legs : LegOK(leg[k]) BY DEF QuietInv, TypeInv, LegsInv
<1>1. /\ ~Occupies(leg[l]) /\ x \in Contacts /\ q \in Rooms
      /\ Occupies(new) /\ Has(new) /\ Attends(new)
  BY <1>0, <1>x DEF Occupies, Works, Has, Attends, LegOK
<1>2. Stage(x) = "waiting"
  <2>1. ASSUME NEW k \in Legs, Occupies(leg[k]), leg[k].contact = x PROVE FALSE
    <3>1. Guards(leg[k], row[x]) BY <2>1 DEF QuietInv, Guarded
    <3>2. QED BY <1>x, <3>1 DEF Guards, Finished
  <2>2. QED BY <1>x, <2>1, FreeView, Views DEF OffList
<1>3. Stage(x)' = "held" /\ Hands(x)' = {q} BY <1>x, <1>1, OwnAfter DEF Moves
<1>4. ASSUME NEW c \in Contacts PROVE q \notin Hands(c)
  <2>1. ASSUME NEW k \in Legs, leg[k].room = q, Attends(leg[k]) PROVE FALSE
    <3>1. Engages(leg[k]) /\ Engages(leg[l])
      BY <2>1 DEF Attends, Has, Engages, TurnPC
    <3>2. k # l BY <1>1, <2>1 DEF Attends, Has, Occupies, Works
    <3>3. QED BY <1>x, <2>1, <3>1, <3>2 DEF QuietInv, TypeInv, LegsInv, Engaged
  <2>2. QED BY <2>1, Views DEF HandsIn
<1>5. ASSUME NEW c \in Contacts \ {x} PROVE Stage(c)' = Stage(c) /\ Hands(c)' = Hands(c)
  BY <1>1, <1>x, <1>5, OthersStay
<1>6. QED BY <1>1, <1>2, <1>3, <1>4, <1>5, TakeMaps

-----------------------------------------------------------------------------
(* Every step of the dialer is a step of the list.                         *)

LEMMA KeptOff == UNCHANGED row => StaysOff
BY DEF StaysOff

\* A conference ends: the contacts who were in it leave the list.
LEMMA PartMaps ==
  ASSUME QuietInv, UNCHANGED row,
         \A k \in Legs : \/ leg'[k] = leg[k] \/ Parts(leg[k], leg'[k])
                         \/ ~Occupies(leg[k]) /\ ~Occupies(leg'[k])
  PROVE  L!Next
<1> DEFINE S == {c \in Contacts : \E k \in Legs : Parts(leg[k], leg'[k]) /\ leg[k].contact = c}
<1>0. \A k \in Legs : LegOK(leg[k]) BY DEF QuietInv, TypeInv, LegsInv
<1>1. \A k \in Legs : Occupies(leg'[k]) => leg'[k] = leg[k] BY <1>0, PartsQuietly
<1>2. ASSUME NEW c \in S PROVE Stage(c) = "called" /\ Stage(c)' = "done" /\ Hands(c)' = {}
  <2>1. PICK k \in Legs : Parts(leg[k], leg'[k]) /\ leg[k].contact = c OBVIOUS
  <2>2. Occupies(leg[k]) /\ ~Works(leg[k]) /\ ~Occupies(leg'[k])
    BY <1>0, <2>1, PartsQuietly
  <2>3. ~Has(leg[k]) BY <2>2 DEF Has, Works
  <2>4. Stage(c) = "called" BY <2>1, <2>2, <2>3, OwnBefore
  <2>5. OffList(row'[c])
    BY <2>1, <2>2 DEF QuietInv, Guarded, Guards, Finished, OffList
  <2>6. \A i \in Legs : Occupies(leg'[i]) => leg'[i].contact # c
    BY <1>1, <2>1, <2>2 DEF QuietInv, Alone
  <2>7. QED BY <2>4, <2>5, <2>6, FreeView, Views
<1>3. ASSUME NEW c \in Contacts, c \notin S PROVE Stage(c)' = Stage(c) /\ Hands(c)' = Hands(c)
  <2>1. \A k \in Legs : leg'[k] # leg[k] =>
          /\ Occupies(leg[k]) => leg[k].contact # c
          /\ Occupies(leg'[k]) => leg'[k].contact # c
    BY <1>1, <1>3
  <2>2. QED BY <2>1, ElseSame
<1>4. S \in SUBSET Contacts OBVIOUS
<1> HIDE DEF S
<1>5. QED BY <1>2, <1>3, <1>4, LeaveMaps

\* A turn that has nobody in hand goes on or ends.
LEMMA LookingMaps ==
  ASSUME QuietInv, NEW l \in Legs, StaysOff,
         leg[l].pc \in {"start", "sweep", "claim", "hangup", "finish"},
         EndTurn(l) \/ \E pc \in {"sweep", "claim", "hangup", "finish"} : Goto(l, pc)
  PROVE  L!Next
<1> DEFINE r == leg[l]
<1>1. LegOK(r) /\ leg \in [Legs -> Leg] BY DEF QuietInv, TypeInv, LegsInv
<1>2. ~Occupies(r) BY <1>1 DEF LegOK, Occupies, Works
<1>3. ASSUME NEW new, Put(l, new), ~Occupies(new) PROVE L!Next
  <2>1. Moves(l, new) BY <1>1, <1>3 DEF Put, Moves, OthersBegin
  <2>2. QED BY <1>2, <1>3, <2>1, IdleMaps
<1>4. CASE EndTurn(l) BY <1>1, <1>3, <1>4, EndedIdle DEF EndTurn
<1>5. ASSUME NEW pc \in {"sweep", "claim", "hangup", "finish"}, Goto(l, pc) PROVE L!Next
  <2> DEFINE new == [r EXCEPT !.pc = pc]
  <2>1. new.pc = pc /\ new.phone = "none" BY <1>1 DEF LegOK, Leg
  <2>2. Put(l, new) BY <1>5 DEF Goto
  <2> HIDE DEF new
  <2>3. ~Occupies(new) BY <2>1 DEF Occupies, Works
  <2>4. QED BY <1>3, <2>2, <2>3
<1>6. QED BY <1>4, <1>5

LEMMA ListTurn ==
  ASSUME Mild, QuietInv, QuietInv', NEW l \in Legs, TurnStep(l)
  PROVE  L!Next
<1> DEFINE r == leg[l]
<1>0. LegOK(r) /\ GoodTable(row) /\ leg \in [Legs -> Leg] BY DEF QuietInv, TypeInv, LegsInv
<1>m. \A q : Attempted(q) = {q} BY DEF Attempted, Mild
<1>g. ASSUME NEW new, Put(l, new) PROVE Moves(l, new)
  BY <1>0, <1>g DEF Put, Moves, OthersBegin
\* A turn goes on with the contact it has in hand.
<1>h. ASSUME NEW pc \in {"window", "prep", "dial"}, Goto(l, pc), Has(r), UNCHANGED row
      PROVE  L!Next
  <2> DEFINE new == [r EXCEPT !.pc = pc]
  <2>1. new.pc = pc /\ new.contact = r.contact /\ new.room = r.room
    BY <1>0 DEF LegOK, Leg
  <2>2. Moves(l, new) BY <1>g, <1>h DEF Goto
  <2> HIDE DEF new
  <2>3. Has(new) BY <2>1 DEF Has
  <2>4. QED BY <1>h, <2>1, <2>2, <2>3, HeldMaps, KeptOff
\* A turn has nobody in hand any more.
<1>d. ASSUME NEW new, Put(l, new), ~Occupies(new), Has(r),
             \A c \in Contacts \ {r.contact} : row'[c] = row[c]
      PROVE  L!Next
  BY <1>d, <1>g, GiveUpMaps
<1>s. ASSUME NEW e, SetRow(r.contact, e)
      PROVE  \A c \in Contacts \ {r.contact} : row'[c] = row[c]
  BY <1>0, <1>s DEF SetRow, GoodTable
<1>1. CASE StartTurn(l)
  BY <1>1, LookingMaps, KeptOff DEF StartTurn
<1>2. CASE Sweep(l)
  <2>1. StaysOff BY <1>0, <1>2, <1>m, SweepOut DEF Sweep, StaysOff, OffList
  <2>2. QED BY <1>2, <2>1, LookingMaps DEF Sweep
<1>3. CASE Claim(l)
  <2>1. PICK c \in Contacts :
          /\ row[c].state = "queued"
          /\ SetRow(c, Claimed(row[c], User(r.room)))
          /\ Put(l, [r EXCEPT !.pc = "check", !.contact = c, !.late = optOut[c] # "no"])
    BY <1>3 DEF Claim, IsNext, Claimable
  <2> DEFINE new == [r EXCEPT !.pc = "check", !.contact = c, !.late = optOut[c] # "no"]
  <2>2. new.pc = "check" /\ new.contact = c /\ new.room = r.room BY <1>0 DEF LegOK, Leg
  <2>3. Moves(l, new) BY <1>g, <2>1
  <2> HIDE DEF new
  <2>4. \A d \in Contacts \ {c} : row'[d] = row[d] BY <1>0, <2>1 DEF SetRow, GoodTable
  <2>5. QED BY <1>3, <2>1, <2>2, <2>3, <2>4, ClaimMaps DEF Claim
<1>4. CASE ClaimNothing(l) BY <1>4, LookingMaps, KeptOff DEF ClaimNothing
<1>5. CASE CheckOptOut(l)
  <2>1. r.pc = "check" /\ r.phone = "none" /\ Has(r)
    BY <1>0, <1>5 DEF CheckOptOut, LegOK, Has
  <2>2. CASE optOut[r.contact] = "no" BY <1>5, <1>h, <2>1, <2>2 DEF CheckOptOut
  <2>3. CASE optOut[r.contact] # "no"
    <3> DEFINE pc == IF r.refused + 1 < MaxOptOutSkips THEN "claim" ELSE "hangup"
    <3> DEFINE new == [r EXCEPT !.contact = NoContact, !.late = FALSE,
                                !.refused = r.refused + 1, !.pc = pc]
    <3>1. Put(l, new) /\ SetRow(r.contact, Dequeued(row[r.contact]))
      BY <1>5, <2>3 DEF CheckOptOut
    <3>2. new.pc \in {"claim", "hangup"} /\ new.phone = "none" BY <1>0, <2>1 DEF LegOK, Leg
    <3> HIDE DEF new
    <3>3. ~Occupies(new) BY <3>2 DEF Occupies, Works
    <3>4. QED BY <1>d, <1>s, <2>1, <3>1, <3>3
  <2>4. QED BY <2>2, <2>3
<1>6. CASE CheckWindow(l)
  <2>1. r.pc = "window" /\ r.phone = "none" /\ Has(r)
    BY <1>0, <1>6 DEF CheckWindow, LegOK, Has
  <2>2. CASE r.contact \notin Night BY <1>6, <1>h, <2>1, <2>2 DEF CheckWindow
  <2>3. CASE r.contact \in Night
    <3> DEFINE skipped == r.skipped \cup {r.contact}
    <3> DEFINE stop == r.contact \in r.skipped \/ Cardinality(skipped) >= MaxWindowSkips
    <3> DEFINE pc == IF stop THEN "hangup" ELSE "claim"
    <3> DEFINE new == [r EXCEPT !.contact = NoContact, !.late = FALSE, !.refused = 0,
                                !.skipped = skipped, !.pc = pc]
    <3>1. Put(l, new) /\ SetRow(r.contact, Released(row[r.contact]))
      BY <1>6, <2>3 DEF CheckWindow
    <3> HIDE DEF stop, skipped
    <3>2. new.pc \in {"claim", "hangup"} /\ new.phone = "none" BY <1>0, <2>1 DEF LegOK, Leg
    <3> HIDE DEF new
    <3>3. ~Occupies(new) BY <3>2 DEF Occupies, Works
    <3>4. QED BY <1>d, <1>s, <2>1, <3>1, <3>3
  <2>4. QED BY <2>2, <2>3
<1>7. CASE Prepare(l) BY <1>7, <1>h DEF Prepare, Has, Mild
<1>8. CASE Dial(l)
  <2>1. r.pc = "dial" /\ Has(r) /\ Ended(r) = NoLeg /\ ~Occupies(NoLeg)
    BY <1>0, <1>8, EndedIdle DEF Dial, Has
  \* The call is placed: its turn goes on, or ends there.
  <2>2. ASSUME NEW pc \in {"retire", "idle"},
               Put(l, [[r EXCEPT !.phone = "ringing"] EXCEPT !.pc = pc]),
               \A c \in Contacts \ {r.contact} : row'[c] = row[c]
        PROVE  L!Next
    <3> DEFINE new == [[r EXCEPT !.phone = "ringing"] EXCEPT !.pc = pc]
    <3>1. new.pc = pc /\ new.phone = "ringing" /\ new.room = r.room /\ new.contact = r.contact
      BY <1>0 DEF LegOK, Leg
    <3>2. Moves(l, new) BY <1>g, <2>2
    <3> HIDE DEF new
    <3>3. ~Has(new) BY <3>1 DEF Has
    <3>4. QED BY <2>1, <2>2, <3>1, <3>2, <3>3, DialMaps
  <2>3. CASE Put(l, [Placed(l) EXCEPT !.pc = "retire"]) /\ UNCHANGED row
    BY <2>2, <2>3 DEF Placed
  <2>4. CASE EndTurn(l) /\ Revert(r.contact)
    <3>1. SetRow(r.contact, Released(row[r.contact])) BY <1>m, <2>4 DEF Revert, SetRow
    <3>2. QED BY <1>d, <1>s, <2>1, <2>4, <3>1 DEF EndTurn
  <2>5. CASE DialUnclear(l)
    <3>1. row' = DequeueContact(row, r.contact, FALSE, User(r.room)) BY <1>m, <2>5 DEF DialUnclear
    <3>2. \A c \in Contacts \ {r.contact} : row'[c] = row[c] BY <3>1 DEF DequeueContact
    <3>3. CASE EndTurn(l) BY <1>d, <2>1, <3>2, <3>3 DEF EndTurn
    <3>4. CASE Put(l, Ended(Placed(l)))
      <4>1. Ended(Placed(l)) = [[r EXCEPT !.phone = "ringing"] EXCEPT !.pc = "idle"]
        BY <1>0 DEF Placed, Ended, LegOK, Leg
      <4>2. QED BY <2>2, <3>2, <3>4, <4>1
    <3>5. QED BY <2>5, <3>3, <3>4 DEF DialUnclear
  <2>6. QED BY <1>8, <2>3, <2>4, <2>5 DEF Dial
<1>9. CASE Retire(l) \/ Save(l)
  <2> DEFINE new == IF r.pc = "retire" THEN [r EXCEPT !.pc = "save"]
                    ELSE [r EXCEPT !.pc = "idle", !.saved = TRUE]
  <2>1. r.pc \in {"retire", "save"} /\ Put(l, new) BY <1>9 DEF Retire, Save, Goto
  <2>2. /\ new.pc \in {"save", "idle"} /\ new.phone = r.phone
        /\ new.contact = r.contact /\ new.room = r.room
    BY <1>0, <2>1 DEF LegOK, Leg
  <2>3. Moves(l, new) BY <1>g, <2>1
  <2>4. RowsDrop BY <1>9, DequeueDrops DEF Retire, Save, RowsDrop, Drops
  <2>5. StaysOff BY <1>0, <2>4, DropsOut DEF StaysOff, OffList
  <2> HIDE DEF new
  <2>6. ~Has(r) /\ ~Has(new) /\ (Attends(new) => Attends(r)) /\ (Occupies(new) => Occupies(r))
    BY <2>1, <2>2 DEF Has, Attends, Occupies, Works
  <2>7. CASE Occupies(r)
    <3>1. ~Occupies(new) => OffList(row'[r.contact])
      <4>1. r.contact \in Contacts /\ r.room \in Rooms BY <1>0, <2>7, OccupiesType
      <4>2. Guards(r, row[r.contact]) BY <2>7 DEF QuietInv, Guarded
      <4>3. CASE r.pc = "retire"
        <5>1. row' = DequeueContact(row, r.contact, TRUE, User(r.room))
          BY <1>9, <4>3 DEF Retire, Save
        <5>2. Finished(row'[r.contact]) BY <1>0, <4>1, <4>2, <5>1, HolderDequeues, UserAgent DEF Guards
        <5>3. QED BY <5>2 DEF Finished, OffList
      <4>4. CASE r.pc = "save"
        <5>1. Finished(row[r.contact]) BY <4>2, <4>4 DEF Guards, Works
        <5>2. QED BY <2>5, <4>1, <5>1 DEF StaysOff, Finished, OffList
      <4>5. QED BY <2>1, <4>3, <4>4
    <3>2. QED BY <2>2, <2>3, <2>5, <2>6, <2>7, <3>1, UpMaps
  <2>8. CASE ~Occupies(r) BY <2>3, <2>5, <2>6, <2>8, IdleMaps
  <2>9. QED BY <2>7, <2>8
<1>10. CASE HangUpRoom(l)
  <2>1. r.pc = "hangup" /\ UNCHANGED row /\ leg'[l] = [r EXCEPT !.pc = "finish"]
        /\ \A k \in Legs \ {l} : leg'[k] = leg[k] \/ Parts(leg[k], leg'[k])
    BY <1>10, RoomHangsUp DEF HangUpRoom, QuietInv, TypeInv
  <2>2. r.phone = "none" /\ leg'[l].pc = "finish" /\ leg'[l].phone = "none"
    BY <1>0, <2>1 DEF LegOK, Leg
  <2>3. ~Occupies(r) /\ ~Occupies(leg'[l]) BY <2>1, <2>2 DEF Occupies, Works
  <2>4. QED BY <2>1, <2>3, PartMaps
<1>11. CASE Finish(l) BY <1>11, LookingMaps, KeptOff DEF Finish
<1>12. CASE Raise(l) BY <1>12 DEF Raise, Mild
<1>13. QED BY <1>1, <1>2, <1>3, <1>4, <1>5, <1>6, <1>7, <1>8, <1>9, <1>10, <1>11, <1>12
       DEF TurnStep

\* A call that is forgotten is over, and one that goes on rings no agent anew.
LEMMA CallGoes ==
  ASSUME TypeInv, NEW l \in Legs, CallStep(l), ~Parting(l)
  PROVE  \/ leg'[l] = NoLeg /\ ~Occupies(leg[l])
         \/ leg'[l].room = leg[l].room /\ (Attends(leg'[l]) => Attends(leg[l]))
<1> DEFINE r == leg[l]
<1>0. LegOK(r) /\ leg \in [Legs -> Leg] BY DEF TypeInv, LegsInv
<1>1. CASE AnsweredUnknown(l) \/ AnsweredByHuman(l) \/ MachineHungUp(l) \/ NotAnswered(l) \/ HangUp(l)
  <2>1. PICK s \in {"completed", "answered", "noanswer"} :
          leg'[l] = [r EXCEPT !.phone = s] /\ (s = "answered" => r.phone = "ringing")
    BY <1>0, <1>1
       DEF AnsweredUnknown, AnsweredByHuman, MachineHungUp, NotAnswered, HangUp, Parting, Rings, Put
  <2>2. QED BY <1>0, <2>1 DEF Attends, Has, LegOK, Leg
<1>2. CASE AnsweredByMachine(l)
  <2> DEFINE new == [r EXCEPT !.phone = "voicemail"]
  <2>1. r.phone = "ringing" BY <1>2 DEF AnsweredByMachine, Rings
  <2>2. r.room \in Rooms BY <1>0, <2>1 DEF LegOK
  <2>3. new # NoLeg /\ new.room = r.room /\ new.pc = r.pc /\ new.phone = "voicemail"
    BY <1>0, <2>1 DEF LegOK, Leg, NoLeg
  <2>4. leg' = [leg EXCEPT ![l] = new] \/ RunTurn(r.room, [leg EXCEPT ![l] = new])
    BY <1>2 DEF AnsweredByMachine
  <2> HIDE DEF new
  <2>5. leg'[l] = new BY <1>0, <2>2, <2>3, <2>4, RunBegins
  <2>6. QED BY <2>3, <2>5 DEF Attends, Has
<1>3. CASE StatusCallback(l)
  <2>1. PICK s : leg'[l] = [r EXCEPT !.settled = s] BY <1>0, <1>3 DEF StatusCallback, Put
  <2>2. QED BY <1>0, <2>1 DEF Attends, Has, LegOK, Leg
<1>4. CASE HandleStatus(l)
  <2> DEFINE new == [r EXCEPT !.settled = "done"]
  <2>1. r.phone # "none" /\ r.room \in Rooms BY <1>0, <1>4 DEF HandleStatus, LegOK
  <2>2. new # NoLeg /\ new.room = r.room /\ new.pc = r.pc /\ new.phone = r.phone
    BY <1>0, <2>1 DEF LegOK, Leg, NoLeg
  <2>3. leg' = [leg EXCEPT ![l] = new] \/ RunTurn(r.room, [leg EXCEPT ![l] = new])
    BY <1>4 DEF HandleStatus
  <2> HIDE DEF new
  <2>4. leg'[l] = new BY <1>0, <2>1, <2>2, <2>3, RunBegins
  <2>5. QED BY <2>2, <2>4 DEF Attends, Has
<1>5. CASE Forget(l)
  <2>1. leg'[l] = NoLeg /\ r.settled = "done" /\ r.pc = "idle"
    BY <1>0, <1>5 DEF Forget, Put
  <2>2. QED BY <1>0, <2>1 DEF LegOK, Occupies, Works
<1>6. QED BY <1>1, <1>2, <1>3, <1>4, <1>5 DEF CallStep

LEMMA ListCall ==
  ASSUME QuietInv, QuietInv', NEW l \in Legs, CallStep(l), ~Parting(l)
  PROVE  L!Next
<1>x. PICK r, new : r = leg[l] /\ new = leg'[l] OBVIOUS
<1>0. LegOK(r) /\ GoodTable(row) BY <1>x DEF QuietInv, TypeInv, LegsInv
<1>1. r.phone # "none" /\ Carries(r, new) /\ Moves(l, new) /\ RowsDrop
  BY <1>x, CallCarries DEF QuietInv, Moves
<1>2. StaysOff BY <1>0, <1>1, DropsOut DEF StaysOff, OffList
<1>3. \/ new = NoLeg /\ ~Occupies(r)
      \/ new.room = r.room /\ (Attends(new) => Attends(r))
  BY <1>x, CallGoes DEF QuietInv
<1>4. ~Has(r) BY <1>0, <1>1 DEF Has, LegOK
<1>5. CASE Occupies(r)
  <2>1. /\ new.pc = r.pc /\ new.contact = r.contact /\ new.room = r.room
        /\ Attends(new) => Attends(r)
    <3>1. r.room \in Rooms BY <1>0, <1>5, OccupiesType
    <3>2. new # NoLeg BY <1>3, <1>5, <3>1, NoRoomOut DEF NoLeg
    <3>3. QED BY <1>1, <1>3, <3>2 DEF Carries
  <2>2. ~Has(new) BY <1>4, <2>1 DEF Has
  <2>3. ~Occupies(new) => OffList(row'[r.contact])
    <3> SUFFICES ASSUME ~Occupies(new) PROVE OffList(row'[r.contact])
      OBVIOUS
    <3>1. ~Works(r) BY <2>1 DEF Occupies, Works
    <3>2. Finished(row[r.contact]) /\ r.contact \in Contacts
      BY <1>x, <1>0, <1>5, <3>1, OccupiesType DEF QuietInv, Guarded, Guards
    <3>3. QED BY <1>2, <3>2 DEF StaysOff, Finished, OffList
  <2>4. QED BY <1>x, <1>1, <1>2, <1>4, <1>5, <2>1, <2>2, <2>3, UpMaps
<1>6. CASE ~Occupies(r)
  <2>1. ~Occupies(new) BY <1>1, <1>6, NoOccupant DEF Carries, Occupies, Works, Rung
  <2>2. QED BY <1>x, <1>1, <1>2, <1>6, <2>1, IdleMaps
<1>7. QED BY <1>5, <1>6

LEMMA ListParts ==
  ASSUME QuietInv, NEW l \in Legs, Parting(l)
  PROVE  L!Next
<1>1. \A k \in Legs : leg'[k] = leg[k] \/ Parts(leg[k], leg'[k])
  BY ContactHangsUp DEF Parting, HangUp, QuietInv, TypeInv
<1>2. UNCHANGED row BY DEF Parting, HangUp
<1>3. QED BY <1>1, <1>2, PartMaps

\* What changes rows only, and takes none of them back on the list.
LEMMA RowsMap ==
  ASSUME leg' = leg, StaysOff PROVE L!Next
BY ElseView, QuietMaps DEF StaysOff

LEMMA ListAgent ==
  ASSUME QuietInv, NEW q \in Rooms, RoomStep(q) \/ AgentLeaves(q)
  PROVE  L!Next
<1>1. UNCHANGED row BY DEF RoomStep, AgentJoins, RoomOpens, AgentLeaves
<1>2. CASE leg' = leg BY <1>1, <1>2, RowsMap, KeptOff
<1>3. CASE AgentJoins(q)
  <2>0. leg \in [Legs -> Leg] BY DEF QuietInv, TypeInv, LegsInv
  <2>1. PICK k \in Legs : leg[k] = NoLeg /\ leg' = [leg EXCEPT ![k] = Begun(q)]
    BY <1>3 DEF AgentJoins, RunTurn
  <2>2. Moves(k, Begun(q)) BY <2>0, <2>1 DEF Moves, OthersBegin
  <2>3. QED BY <1>1, <2>1, <2>2, IdleMaps, KeptOff, NoOccupant
<1>4. QED BY <1>2, <1>3 DEF RoomStep, RoomOpens, AgentLeaves

LEMMA ListPeople ==
  ASSUME Mild, QuietInv, NEW c \in Contacts,
         \/ Stop(c) \/ StopDequeues(c) \/ ClaimAges(c)
         \/ \E a \in Agents : DequeueByUser(c, a)
         \/ \E requeue \in BOOLEAN : Enqueue(c, requeue)
  PROVE  L!Next
<1>0. GoodTable(row) BY DEF QuietInv, TypeInv
<1>1. CASE Stop(c) BY <1>1, RowsMap, KeptOff DEF Stop
<1>2. CASE StopDequeues(c)
  <2>1. UNCHANGED row \/ row' = [row EXCEPT ![c] = Dequeued(row[c])]
    BY <1>0, <1>2 DEF StopDequeues, SetRow, GoodTable
  <2>2. RowsDrop BY <1>0, <2>1, DropsOne DEF RowsDrop, Drops
  <2>3. StaysOff BY <1>0, <2>2, DropsOut DEF StaysOff, OffList
  <2>4. QED BY <1>2, <2>3, RowsMap DEF StopDequeues
<1>3. CASE ClaimAges(c)
  <2>1. StaysOff BY <1>0, <1>3 DEF ClaimAges, SetRow, GoodTable, StaysOff, OffList
  <2>2. QED BY <1>3, <2>1, RowsMap DEF ClaimAges
<1>4. ASSUME NEW a \in Agents, DequeueByUser(c, a) PROVE L!Next
  <2>1. leg' = leg /\ RowsDrop BY <1>4, DequeueDrops DEF DequeueByUser
  <2>2. StaysOff BY <1>0, <2>1, DropsOut DEF StaysOff, OffList
  <2>3. QED BY <2>1, <2>2, RowsMap
<1>5. ASSUME NEW requeue \in BOOLEAN, Enqueue(c, requeue) PROVE L!Next
  BY <1>5 DEF Enqueue, Edit, Mild
<1>6. QED BY <1>1, <1>2, <1>3, <1>4, <1>5

LEMMA ListStep ==
  ASSUME Mild, QuietInv, QuietInv', [Next]_vars PROVE [L!Next]_L!vars
<1>1. CASE UNCHANGED vars
  BY <1>1, RowsMap, KeptOff DEF vars
<1>2. CASE Next
  <2>1. ASSUME NEW l \in Legs PROVE ~Kill(l) BY DEF Kill, Mild
  <2>2. ~RequeueAll BY DEF RequeueAll, Edit, Mild
  <2>3. QED BY <1>2, <2>1, <2>2, ListTurn, ListCall, ListParts, ListAgent, ListPeople DEF Next
<1>3. QED BY <1>1, <1>2

\* The turns of any number of rooms, their calls and the changes to the queue
\* amount to the list of CallList, as long as every claim is released or retired by
\* the turn that made it: a contact is in the hands of one room and a room has one,
\* only such a contact is called, and nobody who was called or left the list is
\* taken up again.
THEOREM ImplementsCallList == Mild => (Spec => RefinesCallList)
<1> SUFFICES ASSUME Mild PROVE Spec => RefinesCallList
  OBVIOUS
<1>1. Init => QuietInv
  <2>1. Init => \A l \in Legs : leg[l] = NoLeg BY DEF Init
  <2>2. QED BY <2>1, InitTyped, NoOccupant DEF QuietInv, Guarded, Alone
<1>2. Init => L!Init
  <2> SUFFICES ASSUME Init PROVE L!Init
    OBVIOUS
  <2>1. \A l \in Legs : ~Occupies(leg[l]) BY NoOccupant DEF Init
  <2>2. \A c \in Contacts : Stage(c) \in {"waiting", "done"} /\ Hands(c) = {}
    BY <2>1, FreeView, Views
  <2>3. QED BY <2>2 DEF L!Init
<1>3. QuietInv /\ [Next]_vars => QuietInv' /\ [L!Next]_L!vars
  <2>1. QuietInv /\ [Next]_vars => QuietInv' BY QuietNext
  <2>2. QED BY <2>1, ListStep
<1>4. QED BY <1>1, <1>2, <1>3, PTL DEF Spec, RefinesCallList, L!Spec
=============================================================================
