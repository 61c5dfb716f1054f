-------------------------- MODULE AcdRouter_proofs --------------------------
(***************************************************************************)
(* Theorems about AcdRouter, for any number of agents, callers and rows.   *)
(***************************************************************************)
EXTENDS AcdRouter, FiniteSetTheorems, TLAPS

-----------------------------------------------------------------------------
(* Types.                                                                  *)

AgentRow == [status : States, entry : Entries \cup {NoEntry}, fresh : BOOLEAN]
Request == [pc : {"hold", "find", "count", "sweep", "claim", "dial", "undo"},
            entry : Entries \cup {NoEntry}]

\* The parts of TypeOK.
RowsOK ==
  /\ entry \in [Entries -> Entry]
  /\ \A e \in Entries :
       entry[e].state # "unused" => entry[e].agent # NoAgent /\ entry[e].caller # NoCaller
FoundOK ==
  /\ found \subseteq Routines \X Entries
  /\ \A r \in Routines, e \in Entries : <<r, e>> \in found => entry[e].state # "unused"
WaitOK ==
  /\ wait \in [Callers -> Request]
  /\ \A c \in Callers : wait[c].pc \in {"dial", "undo"} => wait[c].entry # NoEntry
TwilioOK ==
  /\ caller \in [Callers -> [at : {"new", "waiting", "talking", "served", "left", "gone"},
                             with : Entries \cup {NoEntry}]]
  /\ ahead \subseteq Callers \X Callers
  /\ phone \in [Entries -> {"none", "ringing", "missed", "answered", "dialing", "talking"}]
AskedOK == asked \in [Agents -> States \cup {"none"}] /\ asks \in Nat

LEMMA TypeParts ==
  TypeOK <=> /\ agent \in [Agents -> AgentRow]
             /\ RowsOK /\ FoundOK /\ WaitOK /\ TwilioOK /\ AskedOK
BY DEF TypeOK, AgentRow, RowsOK, FoundOK, WaitOK, TwilioOK, AskedOK, Request

LEMMA TypePartsNext ==
  TypeOK' <=> /\ agent' \in [Agents -> AgentRow]
              /\ RowsOK' /\ FoundOK' /\ WaitOK' /\ TwilioOK' /\ AskedOK'
BY DEF TypeOK, AgentRow, RowsOK, FoundOK, WaitOK, TwilioOK, AskedOK, Request

LEMMA StepTyped ==
  ASSUME WaitOK, NEW c \in Callers,
         \/ WaitsAt(c, "dial") /\ Step(c, "undo")
         \/ \E pc \in {"hold", "find", "count", "sweep", "claim"} : Step(c, pc)
         \/ Hold(c)
         \/ \E e \in Entries : wait' = [wait EXCEPT ![c] = [pc |-> "dial", entry |-> e]]
         \/ UNCHANGED wait
  PROVE  WaitOK'
<1>1. ASSUME NEW r \in Request, r.pc \in {"dial", "undo"} => r.entry # NoEntry,
             wait' = [wait EXCEPT ![c] = r]
      PROVE  WaitOK'
  BY <1>1 DEF WaitOK
<1>2. ASSUME NEW pc \in {"undo", "hold", "find", "count", "sweep", "claim"}, Step(c, pc),
             pc = "undo" => WaitsAt(c, "dial")
      PROVE  WaitOK'
  <2> DEFINE r == [wait[c] EXCEPT !.pc = pc]
  <2>1. r \in Request /\ (r.pc \in {"dial", "undo"} => r.entry # NoEntry)
    BY <1>2 DEF WaitOK, WaitsAt, Request
  <2>2. wait' = [wait EXCEPT ![c] = r] BY <1>2 DEF Step
  <2>3. QED BY <1>1, <2>1, <2>2
<1>3. CASE Hold(c) BY <1>1, <1>3 DEF Hold, Idle, Request
<1>4. ASSUME NEW e \in Entries, wait' = [wait EXCEPT ![c] = [pc |-> "dial", entry |-> e]]
      PROVE  WaitOK'
  BY <1>1, <1>4, AcdConstantsOK DEF Request
<1>5. CASE UNCHANGED wait BY <1>5 DEF WaitOK
<1>6. QED BY <1>2, <1>3, <1>4, <1>5

LEMMA FreedTyped ==
  ASSUME TypeOK, NEW r, NEW A PROVE Freed(r, A) \in [Agents -> AgentRow]
<1>1. ASSUME NEW a \in Agents PROVE Freed(r, A)[a] \in AgentRow
  <2> DEFINE s == IF r = "release" THEN "available" ELSE "wrap_up"
  <2>1. s \in States BY DEF States
  <2>2. agent[a] \in AgentRow BY DEF TypeOK, AgentRow
  <2>3. Freed(r, A)[a] = IF a \in A THEN [agent[a] EXCEPT !.entry = NoEntry, !.status = s]
                         ELSE agent[a]
    BY DEF Freed
  <2> HIDE DEF s
  <2>4. QED BY <2>1, <2>2, <2>3 DEF AgentRow
<1>2. QED BY <1>1 DEF Freed

LEMMA WrittenAs ==
  ASSUME NEW r \in Routines, NEW x \in Entry
  PROVE  /\ Written(r, x) \in Entry
         /\ Written(r, x).state = NewState(r)
         /\ Written(r, x).agent = x.agent
         /\ Written(r, x).caller = x.caller
         /\ Written(r, x).old = x.old
<1>1. NewState(r) \in {"accepted", "timed_out", "completed"}
  BY DEF NewState, Routines
<1>2. (x.revived \/ (r = "accept" /\ x.state = "timed_out")) \in BOOLEAN BY DEF Entry
<1>3. QED BY <1>1, <1>2 DEF Written, Entry

LEMMA WritesTyped ==
  ASSUME TypeOK, NEW r \in Routines, NEW E \in SUBSET Entries, Writes(r, E),
         \A e \in E : entry[e].state # "unused"
  PROVE  /\ agent' \in [Agents -> AgentRow]
         /\ RowsOK'
         /\ \A e \in Entries : entry[e].state # "unused" => entry'[e].state # "unused"
<1>1. entry' = [e \in Entries |-> IF e \in E THEN Written(r, entry[e]) ELSE entry[e]]
  BY DEF Writes
<1>2. NewState(r) \in {"accepted", "timed_out", "completed"}
  BY DEF NewState, Routines
<1>3. ASSUME NEW e \in Entries
      PROVE  /\ entry'[e] \in Entry
             /\ entry'[e].state # "unused" =>
                  entry'[e].agent # NoAgent /\ entry'[e].caller # NoCaller
             /\ entry[e].state # "unused" => entry'[e].state # "unused"
  <2>1. entry[e] \in Entry BY DEF TypeOK
  <2>2. CASE e \in E
    <3>1. entry'[e] = Written(r, entry[e]) BY <1>1, <2>2
    <3>2. QED BY <1>2, <2>1, <2>2, <3>1, WrittenAs DEF TypeOK
  <2>3. CASE e \notin E BY <1>1, <2>1, <2>3 DEF TypeOK
  <2>4. QED BY <2>2, <2>3
<1>4. agent' \in [Agents -> AgentRow]
  <2>1. CASE r = "accept" BY <2>1, TypeParts DEF Writes
  <2>2. CASE r # "accept" BY <2>2, FreedTyped DEF Writes
  <2>3. QED BY <2>1, <2>2
<1>5. QED BY <1>1, <1>3, <1>4 DEF RowsOK

LEMMA CallsTyped ==
  ASSUME TypeOK, NEW r \in Routines, NEW e \in Entries, Calls(r, e)
  PROVE  agent' \in [Agents -> AgentRow] /\ RowsOK' /\ FoundOK'
<1>0. agent \in [Agents -> AgentRow] /\ RowsOK /\ FoundOK BY TypeParts
<1>1. Selects(r, e) => entry[e].state # "unused" BY DEF Selects, Routines
<1>2. CASE Selects(r, e) /\ Writes(r, {e}) /\ UNCHANGED found
  BY <1>0, <1>1, <1>2, WritesTyped DEF FoundOK
<1>3. CASE Selects(r, e) /\ found' = found \cup {<<r, e>>} /\ UNCHANGED <<agent, entry>>
  BY <1>0, <1>1, <1>3 DEF FoundOK, RowsOK
<1>4. CASE NoRows BY <1>0, <1>4 DEF NoRows, FoundOK, RowsOK
<1>5. QED BY <1>2, <1>3, <1>4 DEF Calls

LEMMA SweepTyped ==
  ASSUME TypeOK, NEW c \in Callers, WaitSweep(c) PROVE TypeOK'
<1>0. /\ agent \in [Agents -> AgentRow]
      /\ RowsOK /\ FoundOK /\ WaitOK /\ TwilioOK /\ AskedOK
  BY TypeParts
<1>1. Stale \in SUBSET Entries /\ (\A e \in Stale : entry[e].state # "unused")
      /\ "release" \in Routines
  BY DEF Stale, Routines
<1>2. agent' \in [Agents -> AgentRow] /\ RowsOK' /\ FoundOK'
  <2>1. CASE Writes("release", Stale) /\ UNCHANGED found
    BY <1>0, <1>1, <2>1, WritesTyped DEF FoundOK
  <2>2. CASE NoRows BY <1>0, <2>2 DEF NoRows, RowsOK, FoundOK
  <2>3. QED BY <2>1, <2>2 DEF WaitSweep
<1>3. WaitOK' BY <1>0, StepTyped DEF WaitSweep
<1>4. TwilioOK' /\ AskedOK' BY <1>0 DEF WaitSweep, TwilioOK, AskedOK
<1>5. QED BY <1>2, <1>3, <1>4, TypePartsNext

LEMMA ClaimTyped ==
  ASSUME TypeOK, NEW c \in Callers, WaitClaim(c) PROVE TypeOK'
<1>0. /\ agent \in [Agents -> AgentRow]
      /\ RowsOK /\ FoundOK /\ WaitOK /\ TwilioOK /\ AskedOK
  BY TypeParts
<1>1. PICK a \in Agents, e \in Entries :
        /\ entry' = [entry EXCEPT ![e] = Offer(a, c)]
        /\ agent' = [agent EXCEPT ![a].status = "busy", ![a].entry = e]
        /\ wait' = [wait EXCEPT ![c] = [pc |-> "dial", entry |-> e]]
  BY DEF WaitClaim
<1>2. /\ Offer(a, c) \in Entry /\ Offer(a, c).state # "unused"
      /\ Offer(a, c).agent # NoAgent /\ Offer(a, c).caller # NoCaller
  BY AcdConstantsOK DEF Offer, Entry
<1>3. RowsOK' /\ FoundOK'
  BY <1>0, <1>1, <1>2 DEF RowsOK, FoundOK, WaitClaim
<1>4. agent' \in [Agents -> AgentRow] BY <1>0, <1>1 DEF AgentRow, States
<1>5. WaitOK' BY <1>0, <1>1, StepTyped
<1>6. TwilioOK' /\ AskedOK' BY <1>0 DEF WaitClaim, TwilioOK, AskedOK
<1>7. QED BY <1>3, <1>4, <1>5, <1>6, TypePartsNext

LEMMA WaitTyped ==
  ASSUME TypeOK, NEW c \in Callers,
         \/ Enqueue(c) \/ WaitAgain(c) \/ WaitTooLong(c) \/ Wait(c)
         \/ WaitKilled(c) \/ Talk(c) \/ HangUp(c) \/ Complete(c)
  PROVE  TypeOK'
<1>0. /\ agent \in [Agents -> AgentRow]
      /\ RowsOK /\ FoundOK /\ WaitOK /\ TwilioOK /\ AskedOK
  BY TypeParts
<1>t. ASSUME agent' \in [Agents -> AgentRow], RowsOK', FoundOK', WaitOK', TwilioOK',
             UNCHANGED <<asked, asks>>
      PROVE  TypeOK'
  BY <1>0, <1>t, TypePartsNext DEF AskedOK
<1>r. ASSUME UNCHANGED <<agent, entry, found>>
      PROVE  agent' \in [Agents -> AgentRow] /\ RowsOK' /\ FoundOK'
  BY <1>0, <1>r DEF RowsOK, FoundOK
<1>1. CASE Enqueue(c)
  <2>1. TwilioOK' BY <1>0, <1>1 DEF Enqueue, TwilioOK
  <2>2. QED BY <1>0, <1>1, <1>r, <1>t, <2>1, StepTyped DEF Enqueue
<1>2. CASE WaitAgain(c) BY <1>0, <1>2, <1>r, <1>t, StepTyped DEF WaitAgain, TwilioOK
<1>3. CASE WaitTooLong(c)
  <2>1. TwilioOK' BY <1>0, <1>3 DEF WaitTooLong, Leaves, TwilioOK
  <2>2. QED BY <1>0, <1>3, <1>r, <1>t, <2>1, StepTyped DEF WaitTooLong
<1>4. CASE WaitFind(c) \/ WaitCount(c)
  <2>1. TwilioOK' BY <1>0, <1>4 DEF WaitFind, WaitCount, Leaves, TwilioOK
  <2>2. WaitOK' BY <1>0, <1>4, StepTyped DEF WaitFind, WaitCount
  <2>3. QED BY <1>4, <1>r, <1>t, <2>1, <2>2 DEF WaitFind, WaitCount
<1>5. CASE WaitClaimNone(c)
  BY <1>0, <1>5, <1>r, <1>t, StepTyped DEF WaitClaimNone, TwilioOK
<1>6. CASE WaitDial(c)
  <2>1. TwilioOK' BY <1>0, <1>6 DEF WaitDial, TwilioOK
  <2>2. WaitOK' BY <1>0, <1>6, StepTyped DEF WaitDial
  <2>3. QED BY <1>6, <1>r, <1>t, <2>1, <2>2 DEF WaitDial
<1>7. CASE WaitKilled(c) BY <1>0, <1>7, <1>r, <1>t, StepTyped DEF WaitKilled, TwilioOK
<1>8. CASE Talk(c)
  <2>1. TwilioOK' BY <1>0, <1>8 DEF Talk, TwilioOK
  <2>2. QED BY <1>0, <1>8, <1>r, <1>t, <2>1, StepTyped DEF Talk
<1>9. CASE HangUp(c)
  <2>1. TwilioOK' BY <1>0, <1>9 DEF HangUp, Leaves, TwilioOK
  <2>2. QED BY <1>0, <1>9, <1>r, <1>t, <2>1, StepTyped DEF HangUp
<1>10. CASE Complete(c)
  <2>1. TwilioOK' BY <1>0, <1>10 DEF Complete, TwilioOK
  <2>2. CASE NoRows
    BY <1>0, <1>10, <1>r, <1>t, <2>1, <2>2, StepTyped DEF Complete, NoRows
  <2>3. ASSUME NEW e \in Entries, Calls("complete", e) PROVE TypeOK'
    <3>1. agent' \in [Agents -> AgentRow] /\ RowsOK' /\ FoundOK'
      BY <2>3, CallsTyped DEF Routines
    <3>2. QED BY <1>0, <1>10, <1>t, <2>1, <3>1, StepTyped DEF Complete
  <2>4. QED BY <1>10, <2>2, <2>3 DEF Complete
<1>11. CASE WaitUndo(c)
  <2>1. wait[c].entry \in Entries BY <1>0, <1>11 DEF WaitUndo, WaitsAt, WaitOK, Request
  <2>2. agent' \in [Agents -> AgentRow] /\ RowsOK' /\ FoundOK'
    BY <1>11, <2>1, CallsTyped DEF WaitUndo, Routines
  <2>3. QED BY <1>0, <1>11, <1>t, <2>2, StepTyped DEF WaitUndo, TwilioOK
<1>12. QED BY <1>1, <1>2, <1>3, <1>4, <1>5, <1>6, <1>7, <1>8, <1>9, <1>10, <1>11,
              SweepTyped, ClaimTyped DEF Wait

LEMMA PhoneTyped ==
  ASSUME TypeOK, NEW e \in Entries,
         \/ Answer(e) \/ Miss(e) \/ Served(e) \/ WebhookLost(e) \/ Bridge(e)
         \/ GiveUp(e) \/ Age(e) \/ \E r \in Routines : Resume(r, e)
  PROVE  TypeOK'
<1>0. /\ agent \in [Agents -> AgentRow]
      /\ RowsOK /\ FoundOK /\ WaitOK /\ TwilioOK /\ AskedOK
  BY TypeParts
<1>t. ASSUME agent' \in [Agents -> AgentRow], RowsOK', FoundOK', TwilioOK',
             UNCHANGED <<wait, asked, asks>>
      PROVE  TypeOK'
  BY <1>0, <1>t, TypePartsNext DEF WaitOK, AskedOK
<1>1. CASE Answer(e) \/ Miss(e) \/ WebhookLost(e) \/ GiveUp(e)
  BY <1>1 DEF Answer, Miss, WebhookLost, GiveUp, Turns, TypeOK
<1>2. CASE Served(e)
  <2>1. TwilioOK' BY <1>0, <1>2 DEF Served, AgentBridge, AgentStatus, Turns, TwilioOK
  <2>2. agent' \in [Agents -> AgentRow] /\ RowsOK' /\ FoundOK'
    BY <1>2, CallsTyped DEF Served, AgentBridge, AgentStatus, Routines
  <2>3. QED BY <1>2, <1>t, <2>1, <2>2 DEF Served, AgentBridge, AgentStatus
<1>3. CASE Bridge(e) BY <1>3 DEF Bridge, Turns, TypeOK
<1>4. CASE Age(e)
  <2>1. entry' = [entry EXCEPT ![e] = [entry[e] EXCEPT !.old = TRUE]] BY <1>4 DEF Age
  <2>2. entry[e] \in Entry /\ [entry[e] EXCEPT !.old = TRUE] \in Entry
    BY <1>0 DEF RowsOK, Entry
  <2>3. RowsOK' /\ FoundOK' BY <1>0, <1>4, <2>1, <2>2 DEF RowsOK, FoundOK, Age, Entry
  <2>4. QED BY <1>0, <1>4, <1>t, <2>3 DEF Age, TwilioOK
<1>5. ASSUME NEW r \in Routines, Resume(r, e) PROVE TypeOK'
  <2>1. entry[e].state # "unused" BY <1>0, <1>5 DEF Resume, FoundOK
  <2>2. /\ agent' \in [Agents -> AgentRow] /\ RowsOK'
        /\ \A f \in Entries : entry[f].state # "unused" => entry'[f].state # "unused"
    BY <1>5, <2>1, WritesTyped DEF Resume
  <2>3. FoundOK' BY <1>0, <1>5, <2>2 DEF Resume, FoundOK
  <2>4. QED BY <1>0, <1>5, <1>t, <2>2, <2>3 DEF Resume, TwilioOK
<1>6. QED BY <1>1, <1>2, <1>3, <1>4, <1>5

LEMMA AgentTyped ==
  ASSUME TypeOK, NEW a \in Agents,
         AskStatus(a) \/ WriteStatus(a) \/ Close(a) \/ Heartbeat(a)
  PROVE  TypeOK'
<1>1. CASE AskStatus(a)
  <2>1. PICK s \in MayFollow[agent[a].status] \cup {agent[a].status} :
          asked' = [asked EXCEPT ![a] = s]
    BY <1>1 DEF AskStatus
  <2>2. agent[a].status \in States BY DEF TypeOK
  <2>3. s \in States BY <2>1, <2>2 DEF MayFollow, States
  <2>4. QED BY <1>1, <2>1, <2>3 DEF AskStatus, TypeOK
<1>2. ASSUME NEW x \in AgentRow, agent' = [agent EXCEPT ![a] = x]
      PROVE  agent' \in [Agents -> AgentRow]
  BY <1>2 DEF TypeOK, AgentRow
<1>3. agent[a] \in AgentRow BY DEF TypeOK, AgentRow
<1>4. CASE WriteStatus(a)
  <2>1. asked[a] \in States BY <1>4 DEF WriteStatus, TypeOK
  <2>2. agent' = [agent EXCEPT ![a] = [agent[a] EXCEPT !.status = asked[a], !.fresh = TRUE]]
    BY <1>4 DEF WriteStatus
  <2>3. agent' \in [Agents -> AgentRow] BY <1>2, <1>3, <2>1, <2>2 DEF AgentRow
  <2>4. QED BY <1>4, <2>3 DEF WriteStatus, TypeOK, AgentRow
<1>5. CASE Close(a) \/ Heartbeat(a)
  <2>1. \E b \in BOOLEAN : agent' = [agent EXCEPT ![a] = [agent[a] EXCEPT !.fresh = b]]
    BY <1>5 DEF Close, Heartbeat
  <2>2. agent' \in [Agents -> AgentRow] BY <1>2, <1>3, <2>1 DEF AgentRow
  <2>3. QED BY <1>5, <2>2 DEF Close, Heartbeat, TypeOK, AgentRow
<1>6. QED BY <1>1, <1>4, <1>5

LEMMA InitTyped == Init => TypeOK
BY AcdConstantsOK DEF Init, TypeOK, Unused, Idle, Entry, States

LEMMA TypeStep == TypeOK /\ [Next]_vars => TypeOK'
<1> SUFFICES ASSUME TypeOK, [Next]_vars PROVE TypeOK'
  OBVIOUS
<1>1. CASE UNCHANGED vars BY <1>1 DEF vars, TypeOK
<1>2. CASE Next BY <1>2, WaitTyped, PhoneTyped, AgentTyped DEF Next
<1>3. QED BY <1>1, <1>2

\* Every state is one the declarations describe: a row that was offered names its
\* agent and its caller, and a routine in flight has a row.
THEOREM TypeCorrect == Spec => []TypeOK
BY InitTyped, TypeStep, PTL DEF Spec

-----------------------------------------------------------------------------
(* One offer per agent, when each routine is one step.                     *)

LEMMA WritesKeepOffers ==
  ASSUME TypeOK, OneOfferPerAgent, NEW r \in Routines, NEW E \in SUBSET Entries,
         Writes(r, E), \A e \in E : Selects(r, e)
  PROVE  OneOfferPerAgent'
<1> SUFFICES ASSUME NEW e \in Entries, NEW a \in Agents
             PROVE  (Active(e) /\ entry[e].agent = a <=> agent[a].entry = e)'
  BY DEF OneOfferPerAgent
<1>0. Active(e) /\ entry[e].agent = a <=> agent[a].entry = e
  BY DEF OneOfferPerAgent
<1>1. \A f \in E : Active(f) BY DEF Selects, Routines, Active
<1>3. entry[e] \in Entry /\ agent[a] \in AgentRow BY DEF TypeOK, AgentRow
<1>2. /\ e \in E => entry'[e].state = NewState(r) /\ entry'[e].agent = entry[e].agent
      /\ e \notin E => entry'[e] = entry[e]
  BY <1>3, WrittenAs DEF Writes
<1>4. entry'[e].agent = entry[e].agent BY <1>2
<1>5. CASE r = "accept"
  <2>1. NewState(r) = "accepted" BY <1>5 DEF NewState
  <2>2. Active(e)' <=> Active(e) BY <1>1, <1>2, <1>3, <2>1 DEF Active, Entry
  <2>3. agent' = agent BY <1>5 DEF Writes
  <2>4. QED BY <1>0, <1>4, <2>2, <2>3
<1>6. CASE r # "accept"
  <2> DEFINE A == {entry[f].agent : f \in E} \cap Agents
  <2>1. NewState(r) \in {"timed_out", "completed"} BY <1>6 DEF NewState, Routines
  <2>2. Active(e)' <=> Active(e) /\ e \notin E BY <1>2, <1>3, <2>1 DEF Active, Entry
  <2>3. agent' = Freed(r, A) BY <1>6 DEF Writes
  <2>4. a \in A <=> \E f \in E : entry[f].agent = a OBVIOUS
  <2> HIDE DEF A
  <2>5. agent'[a].entry = IF a \in A THEN NoEntry ELSE agent[a].entry
    BY <1>3, <2>3 DEF Freed, AgentRow
  <2>6. CASE a \in A
    <3>1. PICK f \in E : entry[f].agent = a BY <2>4, <2>6
    <3>2. agent[a].entry = f BY <1>1, <3>1 DEF OneOfferPerAgent
    <3>3. QED BY <1>0, <1>4, <2>2, <2>5, <2>6, <3>2, AcdConstantsOK
  <2>7. CASE a \notin A BY <1>0, <1>4, <2>2, <2>4, <2>5, <2>7
  <2>8. QED BY <2>6, <2>7
<1>7. QED BY <1>5, <1>6

LEMMA CallsKeepOffers ==
  ASSUME "split" \notin Faults, TypeOK, OneOfferPerAgent,
         NEW r \in Routines, NEW e \in Entries, Calls(r, e)
  PROVE  OneOfferPerAgent' /\ UNCHANGED found
<1>1. CASE Selects(r, e) /\ Writes(r, {e}) /\ UNCHANGED found
  BY <1>1, WritesKeepOffers
<1>2. CASE NoRows BY <1>2 DEF NoRows, OneOfferPerAgent, Active
<1>3. QED BY <1>1, <1>2 DEF Calls

LEMMA SweepKeepsOffers ==
  ASSUME TypeOK, OneOfferPerAgent, NEW c \in Callers, WaitSweep(c)
  PROVE  OneOfferPerAgent' /\ UNCHANGED found
<1>1. CASE Writes("release", Stale) /\ UNCHANGED found
  <2>1. /\ Stale \in SUBSET Entries /\ "release" \in Routines
        /\ \A e \in Stale : Selects("release", e)
    BY DEF Stale, Routines, Selects
  <2>2. QED BY <1>1, <2>1, WritesKeepOffers
<1>2. CASE NoRows BY <1>2 DEF NoRows, OneOfferPerAgent, Active
<1>3. QED BY <1>1, <1>2 DEF WaitSweep

\* The claim takes an agent whose row points nowhere.
LEMMA ClaimKeepsOffers ==
  ASSUME TypeOK, OneOfferPerAgent, NEW c \in Callers, WaitClaim(c)
  PROVE  OneOfferPerAgent' /\ UNCHANGED found
<1>1. PICK b \in Agents, f \in Entries :
        /\ Eligible(b) /\ entry[f].state = "unused"
        /\ entry' = [entry EXCEPT ![f] = Offer(b, c)]
        /\ agent' = [agent EXCEPT ![b].status = "busy", ![b].entry = f]
  BY DEF WaitClaim
<1>2. ASSUME NEW e \in Entries, NEW a \in Agents
      PROVE  (Active(e) /\ entry[e].agent = a <=> agent[a].entry = e)'
  <2>0. Active(e) /\ entry[e].agent = a <=> agent[a].entry = e
    BY DEF OneOfferPerAgent
  <2>1. entry'[e] = IF e = f THEN Offer(b, c) ELSE entry[e] BY <1>1 DEF TypeOK
  <2>2. agent'[a].entry = IF a = b THEN f ELSE agent[a].entry
    BY <1>1 DEF TypeOK
  <2>3. ~Active(f) /\ agent[b].entry = NoEntry BY <1>1 DEF Active, Eligible
  <2>4. CASE e = f
    <3>1. Active(e)' /\ entry'[e].agent = b BY <2>1, <2>4 DEF Offer, Active
    <3>2. QED BY <2>0, <2>2, <2>3, <2>4, <3>1
  <2>5. CASE e # f
    <3>1. Active(e)' = Active(e) /\ entry'[e].agent = entry[e].agent
      BY <2>1, <2>5 DEF Active
    <3>2. QED BY <2>0, <2>2, <2>3, <2>5, <3>1, AcdConstantsOK
  <2>6. QED BY <2>4, <2>5
<1>3. QED BY <1>2 DEF OneOfferPerAgent, WaitClaim

\* An agent's own changes of status, and what only the rows' age or the calls see.
LEMMA RestKeepsOffers ==
  ASSUME TypeOK, OneOfferPerAgent,
         \/ \E a \in Agents : AskStatus(a) \/ WriteStatus(a) \/ Close(a) \/ Heartbeat(a)
         \/ \E e \in Entries : Age(e)
         \/ UNCHANGED <<agent, entry, found>>
  PROVE  OneOfferPerAgent' /\ UNCHANGED found
<1>1. \A a \in Agents : agent[a] \in AgentRow BY DEF TypeOK, AgentRow
<1>2. CASE \E a \in Agents : AskStatus(a) \/ WriteStatus(a) \/ Close(a) \/ Heartbeat(a)
  <2>1. PICK a \in Agents : AskStatus(a) \/ WriteStatus(a) \/ Close(a) \/ Heartbeat(a)
    BY <1>2
  <2>2. ASSUME NEW x, x.entry = agent[a].entry, agent' = [agent EXCEPT ![a] = x]
        PROVE  \A b \in Agents : agent'[b].entry = agent[b].entry
    BY <2>2 DEF TypeOK
  <2>3. \A b \in Agents : agent'[b].entry = agent[b].entry
    <3>1. CASE AskStatus(a) BY <3>1 DEF AskStatus
    <3>2. CASE WriteStatus(a)
      <4> DEFINE x == [agent[a] EXCEPT !.status = asked[a], !.fresh = TRUE]
      <4>1. x.entry = agent[a].entry BY <1>1 DEF AgentRow
      <4>2. agent' = [agent EXCEPT ![a] = x] BY <3>2 DEF WriteStatus
      <4>3. QED BY <2>2, <4>1, <4>2
    <3>3. CASE Close(a)
      <4>1. [agent[a] EXCEPT !.fresh = FALSE].entry = agent[a].entry BY <1>1 DEF AgentRow
      <4>2. QED BY <2>2, <3>3, <4>1 DEF Close
    <3>4. CASE Heartbeat(a)
      <4>1. [agent[a] EXCEPT !.fresh = TRUE].entry = agent[a].entry BY <1>1 DEF AgentRow
      <4>2. QED BY <2>2, <3>4, <4>1 DEF Heartbeat
    <3>5. QED BY <2>1, <3>1, <3>2, <3>3, <3>4
  <2>4. UNCHANGED <<entry, found>>
    BY <2>1 DEF AskStatus, WriteStatus, Close, Heartbeat
  <2>5. QED BY <2>3, <2>4 DEF OneOfferPerAgent, Active
<1>3. ASSUME NEW f \in Entries, Age(f) PROVE OneOfferPerAgent' /\ UNCHANGED found
  <2>1. /\ UNCHANGED <<agent, found>>
        /\ \A e \in Entries : entry'[e].state = entry[e].state /\ entry'[e].agent = entry[e].agent
    BY <1>3 DEF Age, TypeOK, Entry
  <2>2. QED BY <2>1 DEF OneOfferPerAgent, Active
<1>4. CASE UNCHANGED <<agent, entry, found>> BY <1>4 DEF OneOfferPerAgent, Active
<1>5. QED BY <1>2, <1>3, <1>4

OffersInv == TypeOK /\ OneOfferPerAgent /\ found = {}

LEMMA OffersInit == Init => OffersInv
<1>1. Init => TypeOK BY InitTyped
<1>2. Init => OneOfferPerAgent /\ found = {}
  BY AcdConstantsOK DEF Init, OneOfferPerAgent, Active, Unused
<1>3. QED BY <1>1, <1>2 DEF OffersInv

LEMMA OffersStep ==
  ASSUME "split" \notin Faults, OffersInv, [Next]_vars PROVE OffersInv'
<1>0. TypeOK /\ OneOfferPerAgent /\ found = {} /\ TypeOK' BY TypeStep DEF OffersInv
<1>q. ASSUME OneOfferPerAgent', UNCHANGED found PROVE OffersInv'
  BY <1>0, <1>q DEF OffersInv
<1>1. CASE UNCHANGED vars BY <1>0, <1>1, <1>q, RestKeepsOffers DEF vars
<1>2. ASSUME NEW c \in Callers,
             \/ Enqueue(c) \/ WaitAgain(c) \/ WaitTooLong(c) \/ Wait(c)
             \/ WaitKilled(c) \/ Talk(c) \/ HangUp(c) \/ Complete(c)
      PROVE  OffersInv'
  <2>1. CASE \/ Enqueue(c) \/ WaitAgain(c) \/ WaitTooLong(c) \/ WaitFind(c) \/ WaitCount(c)
             \/ WaitClaimNone(c) \/ WaitDial(c) \/ WaitKilled(c) \/ Talk(c) \/ HangUp(c)
    <3>1. UNCHANGED <<agent, entry, found>>
      BY <2>1 DEF Enqueue, WaitAgain, WaitTooLong, WaitFind, WaitCount, WaitClaimNone, WaitDial,
                  WaitKilled, Talk, HangUp
    <3>2. QED BY <1>0, <1>q, <3>1, RestKeepsOffers
  <2>2. CASE WaitSweep(c) BY <1>0, <1>q, <2>2, SweepKeepsOffers
  <2>3. CASE WaitClaim(c) BY <1>0, <1>q, <2>3, ClaimKeepsOffers
  <2>4. CASE WaitUndo(c)
    <3>1. wait[c].entry \in Entries BY <1>0, <2>4 DEF WaitUndo, WaitsAt, TypeOK
    <3>2. QED BY <1>0, <1>q, <2>4, <3>1, CallsKeepOffers DEF WaitUndo, Routines
  <2>5. CASE Complete(c)
    <3>1. CASE UNCHANGED <<agent, entry, found>> BY <1>0, <1>q, <3>1, RestKeepsOffers
    <3>2. CASE \E e \in Entries : Calls("complete", e)
      BY <1>0, <1>q, <3>2, CallsKeepOffers DEF Routines
    <3>3. QED BY <2>5, <3>1, <3>2 DEF Complete, NoRows
  <2>6. QED BY <1>2, <2>1, <2>2, <2>3, <2>4, <2>5 DEF Wait
<1>3. ASSUME NEW e \in Entries,
             \/ Answer(e) \/ Miss(e) \/ Served(e) \/ WebhookLost(e) \/ Bridge(e)
             \/ GiveUp(e) \/ Age(e) \/ \E r \in Routines : Resume(r, e)
      PROVE  OffersInv'
  <2>1. CASE Answer(e) \/ Miss(e) \/ WebhookLost(e) \/ Bridge(e) \/ GiveUp(e)
    <3>1. UNCHANGED <<agent, entry, found>>
      BY <2>1 DEF Answer, Miss, WebhookLost, Bridge, GiveUp
    <3>2. QED BY <1>0, <1>q, <3>1, RestKeepsOffers
  <2>2. CASE Served(e)
    BY <1>0, <1>q, <2>2, CallsKeepOffers DEF Served, AgentBridge, AgentStatus, Routines
  <2>3. CASE Age(e) BY <1>0, <1>q, <2>3, RestKeepsOffers
  <2>4. ASSUME NEW r \in Routines PROVE ~Resume(r, e) BY <1>0 DEF Resume
  <2>5. QED BY <1>3, <2>1, <2>2, <2>3, <2>4
<1>4. ASSUME NEW a \in Agents, AskStatus(a) \/ WriteStatus(a) \/ Close(a) \/ Heartbeat(a)
      PROVE  OffersInv'
  BY <1>0, <1>4, <1>q, RestKeepsOffers
<1>5. QED BY <1>1, <1>2, <1>3, <1>4 DEF Next

\* The two tables stay in step, so no agent is claimed for a second call while
\* the row of the first is open, whatever status the agent asks for meanwhile.
THEOREM TablesInStep == "split" \notin Faults => (Spec => []OneOfferPerAgent)
<1>1. ASSUME "split" \notin Faults PROVE Spec => []OneOfferPerAgent
  <2>1. OffersInv /\ [Next]_vars => OffersInv' BY <1>1, OffersStep
  <2>2. OffersInv => OneOfferPerAgent BY DEF OffersInv
  <2>3. QED BY OffersInit, <2>1, <2>2, PTL DEF Spec
<1>2. QED BY <1>1

-----------------------------------------------------------------------------
(* One phone per caller, when calls are placed or refused, and in time.    *)

Prompt == Faults \cap {"ambiguous", "late", "split"} = {}

Rings(e) == phone[e] \in {"ringing", "answered"}
Pending(e) == Rings(e) \/ phone[e] = "missed"

\* The caller is gone, and so is every request for it.
Over(c) == caller[c].at = "gone" /\ wait[c].pc = "hold"

\* A call that is pending is for an active row, which the sweep does not see.
Backed(e) ==
  /\ Pending(e) => Active(e) \/ Over(entry[e].caller)
  /\ entry[e].old => ~Pending(e)
  /\ entry[e].state = "unused" => phone[e] = "none"

\* A request that has a row is about to place its call.
Dialed(c, e) ==
  /\ wait[c].pc \in {"dial", "undo"}
  /\ Active(e) /\ entry[e].caller = c /\ ~entry[e].old /\ phone[e] = "none"

\* A request that looks for an agent is the only thing there is for its caller.
Alone(c) ==
  /\ caller[c].at = "served" => wait[c].pc = "hold"
  /\ wait[c].pc \in {"count", "sweep", "claim"} =>
       \A e \in Entries : ~(Active(e) /\ entry[e].caller = c)
  /\ \A e \in Entries : wait[c].entry = e => Dialed(c, e)

OneActive ==
  \A e, f \in Entries : Active(e) /\ Active(f) /\ entry[e].caller = entry[f].caller => e = f

PhonesInv ==
  /\ \A e \in Entries : Backed(e)
  /\ \A c \in Callers : Alone(c)
  /\ OneActive
  /\ OnePhonePerCaller

\* The rows keep their callers, and only the rows E may stop being active.
Settles(E) ==
  \A e \in Entries :
    /\ entry'[e].caller = entry[e].caller /\ entry'[e].old = entry[e].old
    /\ entry'[e].state = "unused" <=> entry[e].state = "unused"
    /\ Active(e)' => Active(e)
    /\ Active(e) => Active(e)' \/ e \in E

LEMMA WritesSettle ==
  ASSUME TypeOK, NEW r \in Routines, NEW E \in SUBSET Entries,
         Writes(r, E), \A e \in E : Selects(r, e)
  PROVE  Settles(IF r = "accept" THEN {} ELSE E)
<1> SUFFICES ASSUME NEW e \in Entries
             PROVE  /\ entry'[e].caller = entry[e].caller /\ entry'[e].old = entry[e].old
                    /\ entry'[e].state = "unused" <=> entry[e].state = "unused"
                    /\ Active(e)' => Active(e)
                    /\ Active(e) => Active(e)' \/ e \in (IF r = "accept" THEN {} ELSE E)
  BY DEF Settles
<1>1. entry'[e] = IF e \in E THEN Written(r, entry[e]) ELSE entry[e]
  BY DEF Writes
<1>2. entry[e] \in Entry BY DEF TypeOK
<1>3. CASE e \notin E BY <1>1, <1>3 DEF Active
<1>4. CASE e \in E
  <2>1. Active(e) /\ entry[e].state # "unused" BY <1>4 DEF Selects, Routines, Active
  <2>2. /\ NewState(r) # "unused"
        /\ r = "accept" => NewState(r) = "accepted"
    BY DEF NewState, Routines
  <2>3. /\ entry'[e].caller = entry[e].caller /\ entry'[e].old = entry[e].old
        /\ entry'[e].state = NewState(r)
    BY <1>1, <1>2, <1>4 DEF Written, Entry
  <2>4. QED BY <1>4, <2>1, <2>2, <2>3 DEF Active
<1>5. QED BY <1>3, <1>4

LEMMA SettlesSame == UNCHANGED entry => Settles({})
BY DEF Settles, Active

LEMMA CallsSettle ==
  ASSUME "split" \notin Faults, TypeOK, NEW r \in Routines, NEW e \in Entries, Calls(r, e)
  PROVE  Settles(IF r = "accept" THEN {} ELSE {e})
<1>1. CASE Selects(r, e) /\ Writes(r, {e}) BY <1>1, WritesSettle
<1>2. CASE NoRows BY <1>2, SettlesSame DEF NoRows, Settles
<1>3. QED BY <1>1, <1>2 DEF Calls

\* What a step may do that neither adds a row nor places a call.
LEMMA Steady ==
  ASSUME PhonesInv, NEW E, Settles(E),
         \A e \in Entries : /\ Rings(e)' => Rings(e)
                            /\ Pending(e)' => Pending(e)
                            /\ phone[e] = "none" => phone'[e] = "none",
         \A e \in Entries : e \in E =>
            /\ ~Pending(e)' \/ Over(entry[e].caller)'
            /\ \A c \in Callers : wait'[c].entry # e,
         \A e \in Entries : Pending(e) /\ Over(entry[e].caller) => Over(entry[e].caller)',
         \A c \in Callers :
            /\ caller'[c].at = "served" => wait'[c].pc = "hold"
            /\ wait'[c].pc \in {"count", "sweep", "claim"} =>
                 \/ wait[c].pc \in {"count", "sweep", "claim"}
                 \/ \A e \in Entries : ~(Active(e) /\ entry[e].caller = c)
            /\ \A e \in Entries : wait'[c].entry = e =>
                 wait[c].entry = e /\ wait'[c].pc \in {"dial", "undo"}
  PROVE  PhonesInv'
<1>1. ASSUME NEW e \in Entries PROVE Backed(e)'
  <2>1. Backed(e) BY DEF PhonesInv
  <2>2. Pending(e)' => Active(e)' \/ Over(entry[e].caller)'
    BY <2>1 DEF Backed, Settles
  <2>3. QED BY <2>1, <2>2 DEF Backed, Settles
<1>2. ASSUME NEW c \in Callers PROVE Alone(c)'
  <2>1. Alone(c) BY DEF PhonesInv
  <2>2. ASSUME NEW e \in Entries, wait'[c].entry = e PROVE Dialed(c, e)'
    <3>1. Dialed(c, e) BY <2>1, <2>2 DEF Alone
    <3>2. Active(e)' BY <2>2, <3>1 DEF Settles, Dialed
    <3>3. QED BY <2>2, <3>1, <3>2 DEF Dialed, Settles
  <2>3. ASSUME wait'[c].pc \in {"count", "sweep", "claim"}, NEW e \in Entries
        PROVE  ~(Active(e)' /\ entry'[e].caller = c)
    BY <2>1, <2>3 DEF Alone, Settles
  <2>4. QED BY <2>2, <2>3 DEF Alone
<1>3. OneActive' BY DEF PhonesInv, OneActive, Settles
<1>4. OnePhonePerCaller' BY DEF PhonesInv, OnePhonePerCaller, Settles, Rings
<1>5. QED BY <1>1, <1>2, <1>3, <1>4 DEF PhonesInv

\* A step that changes no row and takes no call further than it was.
LEMMA SteadyCalls ==
  ASSUME TypeOK, PhonesInv, UNCHANGED entry,
         \A e \in Entries : /\ Rings(e)' => Rings(e)
                            /\ Pending(e)' => Pending(e)
                            /\ phone[e] = "none" => phone'[e] = "none",
         \A c \in Callers :
            /\ Over(c) => Over(c)'
            /\ caller'[c].at = "served" => wait'[c].pc = "hold"
            /\ wait'[c].pc \in {"count", "sweep", "claim"} =>
                 \/ wait[c].pc \in {"count", "sweep", "claim"}
                 \/ \A e \in Entries : ~(Active(e) /\ entry[e].caller = c)
            /\ \A e \in Entries : wait'[c].entry = e =>
                 wait[c].entry = e /\ wait'[c].pc \in {"dial", "undo"}
  PROVE  PhonesInv'
<1>1. Settles({}) BY SettlesSame
<1>2. ASSUME NEW e \in Entries, Pending(e) PROVE entry[e].caller \in Callers
  <2>1. entry[e].state # "unused" BY <1>2 DEF PhonesInv, Backed, Pending, Rings
  <2>2. QED BY <2>1 DEF TypeOK, Entry
<1>3. ASSUME NEW e \in Entries, Pending(e), Over(entry[e].caller) PROVE Over(entry[e].caller)'
  BY <1>2, <1>3 DEF Over
<1>4. QED BY <1>1, <1>3, Steady

LEMMA PhonesTwilio ==
  ASSUME Prompt, TypeOK, PhonesInv,
         \/ \E e \in Entries : Answer(e) \/ Miss(e) \/ WebhookLost(e) \/ GiveUp(e) \/ Bridge(e)
         \/ \E c \in Callers : Talk(c) \/ HangUp(c)
  PROVE  PhonesInv'
<1>0. \A c \in Callers : Alone(c) BY DEF PhonesInv
<1>1. UNCHANGED <<entry, wait>>
  BY DEF Answer, Miss, WebhookLost, GiveUp, Bridge, Talk, HangUp
<1>2. \A e \in Entries : /\ Rings(e)' => Rings(e)
                         /\ Pending(e)' => Pending(e)
                         /\ phone[e] = "none" => phone'[e] = "none"
  BY DEF Answer, Miss, WebhookLost, GiveUp, Bridge, Talk, HangUp, Turns, Rings, Pending, TypeOK
<1>3. ASSUME NEW c \in Callers
      PROVE  /\ Over(c) => Over(c)'
             /\ caller'[c].at = "served" => wait'[c].pc = "hold"
  <2>1. CASE \E e \in Entries : Answer(e) \/ Miss(e) \/ WebhookLost(e) \/ GiveUp(e)
    BY <1>0, <1>1, <2>1 DEF Answer, Miss, WebhookLost, GiveUp, Over, Alone
  <2>2. CASE \E e \in Entries : Bridge(e)
    BY <1>0, <1>1, <2>2 DEF Bridge, Over, Alone, TypeOK
  <2>3. CASE \E d \in Callers : Talk(d)
    BY <1>0, <1>1, <2>3 DEF Talk, Over, Alone, TypeOK, Prompt, WaitsAt
  <2>4. CASE \E d \in Callers : HangUp(d)
    BY <1>0, <1>1, <2>4 DEF HangUp, Leaves, Over, Alone, TypeOK
  <2>5. QED BY <2>1, <2>2, <2>3, <2>4
<1>4. \A c \in Callers, e \in Entries : wait[c].entry = e => wait[c].pc \in {"dial", "undo"}
  BY <1>0 DEF Alone, Dialed
<1>5. QED BY <1>1, <1>2, <1>3, <1>4, SteadyCalls

\* The request's steps that look at the rows or give up.
LEMMA PhonesWait ==
  ASSUME TypeOK, PhonesInv, NEW c \in Callers,
         \/ Enqueue(c) \/ WaitAgain(c) \/ WaitTooLong(c) \/ WaitFind(c)
         \/ WaitCount(c) \/ WaitClaimNone(c) \/ WaitKilled(c)
  PROVE  PhonesInv'
<1>0. \A d \in Callers : Alone(d) BY DEF PhonesInv
<1>1. UNCHANGED <<entry, phone>>
  BY DEF Enqueue, WaitAgain, WaitTooLong, WaitFind, WaitCount, WaitClaimNone, WaitKilled
<1>2. \A d \in Callers : d # c => caller'[d] = caller[d] /\ wait'[d] = wait[d]
  BY DEF Enqueue, WaitAgain, WaitTooLong, WaitFind, WaitCount, WaitClaimNone, WaitKilled,
         Hold, Step, Leaves, TypeOK
<1>3. \A d \in Callers, e \in Entries : wait[d].entry = e => wait[d].pc \in {"dial", "undo"}
  BY <1>0 DEF Alone, Dialed
<1>4. wait[c] \in Request /\ NoEntry \notin Entries BY AcdConstantsOK DEF TypeOK, Request
<1>c. SUFFICES /\ Over(c) => Over(c)'
               /\ caller'[c].at = "served" => wait'[c].pc = "hold"
               /\ wait'[c].pc \in {"count", "sweep", "claim"} =>
                    \A e \in Entries : ~(Active(e) /\ entry[e].caller = c)
               /\ \A e \in Entries : wait'[c].entry # e
  <2>1. ASSUME NEW d \in Callers, d # c
        PROVE  /\ Over(d) => Over(d)'
               /\ caller'[d].at = "served" => wait'[d].pc = "hold"
    BY <1>0, <1>2, <2>1 DEF Over, Alone
  <2>2. QED BY <1>1, <1>2, <1>3, <2>1, SteadyCalls DEF Rings, Pending
<1>5. CASE Enqueue(c) \/ WaitAgain(c)
  <2>1. /\ wait[c].pc = "hold" /\ caller[c].at \in {"new", "waiting"}
        /\ caller'[c].at = "waiting"
    BY <1>5 DEF Enqueue, WaitAgain, WaitsAt, TypeOK
  <2>2. wait' = [wait EXCEPT ![c] = [wait[c] EXCEPT !.pc = "find"]]
    BY <1>5 DEF Enqueue, WaitAgain, Step
  <2>3. wait'[c].pc = "find" /\ wait'[c].entry = wait[c].entry
    BY <1>4, <2>2 DEF Request, TypeOK
  <2>4. QED BY <1>3, <2>1, <2>3 DEF Over
<1>6. CASE Hold(c) /\ wait[c].pc # "hold"
  <2>1. wait'[c] = Idle BY <1>6 DEF Hold, TypeOK
  <2>2. QED BY <1>4, <1>6, <2>1 DEF Over, Idle
<1>7. CASE WaitFind(c) /\ Step(c, "count")
  <2>1. /\ wait[c].pc = "find" /\ UNCHANGED caller
        /\ ~\E e \in Entries : entry[e].caller = c /\ Active(e)
    BY <1>7 DEF WaitFind, WaitsAt, Hold, Step, Idle, TypeOK
  <2>2. wait' = [wait EXCEPT ![c] = [wait[c] EXCEPT !.pc = "count"]] BY <1>7 DEF Step
  <2>3. wait'[c].pc = "count" /\ wait'[c].entry = wait[c].entry
    BY <1>4, <2>2 DEF Request, TypeOK
  <2>4. caller[c].at # "served" BY <1>0, <2>1 DEF Alone
  <2>5. QED BY <1>3, <2>1, <2>3, <2>4 DEF Over
<1>8. CASE WaitCount(c) /\ Step(c, "sweep") /\ UNCHANGED caller
  <2>1. wait[c].pc = "count" BY <1>8 DEF WaitCount, WaitsAt
  <2>2. wait' = [wait EXCEPT ![c] = [wait[c] EXCEPT !.pc = "sweep"]] BY <1>8 DEF Step
  <2>3. wait'[c].pc = "sweep" /\ wait'[c].entry = wait[c].entry
    BY <1>4, <2>2 DEF Request, TypeOK
  <2>4. /\ caller[c].at # "served"
        /\ \A e \in Entries : ~(Active(e) /\ entry[e].caller = c)
    BY <1>0, <2>1 DEF Alone
  <2>5. QED BY <1>3, <1>8, <2>1, <2>3, <2>4 DEF Over
<1>9. QED
  BY <1>5, <1>6, <1>7, <1>8
     DEF WaitTooLong, WaitFind, WaitCount, WaitClaimNone, WaitKilled, WaitsAt

\* The steps that write rows: what stops being active has no call and no request.
LEMMA PhonesRows ==
  ASSUME Prompt, TypeOK, PhonesInv,
         \/ \E c \in Callers : WaitSweep(c) \/ WaitUndo(c) \/ Complete(c)
         \/ \E e \in Entries : Served(e)
  PROVE  PhonesInv'
<1>0. /\ \A d \in Callers : Alone(d)
      /\ \A e \in Entries : Backed(e)
      /\ \A d \in Callers : wait[d] \in Request
      /\ NoEntry \notin Entries /\ "split" \notin Faults
  BY AcdConstantsOK DEF PhonesInv, TypeOK, Request, Prompt
<1>1. \A d \in Callers, e \in Entries : wait[d].entry = e => wait[d].pc \in {"dial", "undo"}
  BY <1>0 DEF Alone, Dialed
<1>2. \A e \in Entries : Pending(e) => entry[e].caller \in Callers
  <2>1. \A e \in Entries : Pending(e) => entry[e].state # "unused"
    BY <1>0 DEF Backed, Pending, Rings
  <2>2. QED BY <2>1 DEF TypeOK, Entry
<1>3. ASSUME NEW c \in Callers, WaitSweep(c) PROVE PhonesInv'
  <2>1. UNCHANGED <<phone, caller>> /\ Step(c, "claim") /\ wait[c].pc = "sweep"
    BY <1>3 DEF WaitSweep, WaitsAt
  <2>2. wait' = [wait EXCEPT ![c] = [wait[c] EXCEPT !.pc = "claim"]] BY <2>1 DEF Step
  <2>3. /\ wait'[c].pc = "claim" /\ wait'[c].entry = wait[c].entry
        /\ \A d \in Callers : d # c => wait'[d] = wait[d]
    BY <1>0, <2>2 DEF Request, TypeOK
  <2>4. Settles(Stale)
    <3>1. Stale \in SUBSET Entries /\ (\A e \in Stale : Selects("release", e))
          /\ "release" \in Routines
      BY DEF Stale, Selects, Routines
    <3>2. CASE Writes("release", Stale) BY <3>1, <3>2, WritesSettle
    <3>3. CASE NoRows BY <3>3, SettlesSame DEF NoRows, Settles
    <3>4. QED BY <1>3, <3>2, <3>3 DEF WaitSweep
  <2>5. ASSUME NEW e \in Entries, e \in Stale
        PROVE  ~Pending(e) /\ \A d \in Callers : wait[d].entry # e
    BY <1>0, <2>5 DEF Stale, Backed, Alone, Dialed
  <2>6. \A d \in Callers : wait'[d].entry = wait[d].entry BY <2>3
  <2>7. ASSUME NEW e \in Entries, Pending(e), Over(entry[e].caller)
        PROVE  Over(entry[e].caller)'
    BY <1>2, <2>1, <2>3, <2>4, <2>7 DEF Over, Settles
  <2>8. QED BY <1>0, <1>1, <2>1, <2>3, <2>4, <2>5, <2>6, <2>7, Steady
            DEF Rings, Pending, Alone
<1>4. ASSUME NEW c \in Callers, WaitUndo(c) PROVE PhonesInv'
  <2> DEFINE e == wait[c].entry
  <2>1. /\ UNCHANGED <<phone, caller>> /\ wait[c].pc = "undo" /\ Calls("release", e)
        /\ wait' = [wait EXCEPT ![c] = Idle]
    BY <1>4 DEF WaitUndo, WaitsAt, Hold
  <2>2. e \in Entries BY <2>1 DEF TypeOK
  <2>3. /\ wait'[c] = Idle
        /\ \A d \in Callers : d # c => wait'[d] = wait[d]
    BY <2>1 DEF TypeOK
  <2>4. Settles({e}) BY <1>0, <2>1, <2>2, CallsSettle DEF Routines
  <2>5. ~Pending(e) /\ entry[e].caller = c /\ \A d \in Callers : wait[d].entry = e => d = c
    BY <1>0, <2>2 DEF Alone, Dialed, Pending, Rings
  <2> HIDE DEF e
  <2>6. \A d \in Callers : wait'[d].entry # e BY <1>0, <2>2, <2>3, <2>5 DEF Idle
  <2>7. ASSUME NEW f \in Entries, Pending(f), Over(entry[f].caller)
        PROVE  Over(entry[f].caller)'
    BY <1>2, <2>1, <2>3, <2>4, <2>7 DEF Over, Settles
  <2>8. QED BY <1>0, <1>1, <2>1, <2>2, <2>3, <2>4, <2>5, <2>6, <2>7, Steady
            DEF Rings, Pending, Alone, Idle
<1>5. ASSUME NEW c \in Callers, Complete(c) PROVE PhonesInv'
  <2>1. /\ UNCHANGED <<phone, wait>> /\ caller[c].at \in {"served", "left"}
        /\ caller' = [caller EXCEPT ![c].at = "gone"]
    BY <1>5 DEF Complete
  <2>2. /\ caller'[c].at = "gone"
        /\ \A d \in Callers : d # c => caller'[d] = caller[d]
    BY <2>1 DEF TypeOK
  <2>3. \A d \in Callers : Over(d) => Over(d)' BY <2>1, <2>2 DEF Over
  <2>4. CASE NoRows
    BY <1>0, <1>1, <2>1, <2>2, <2>3, <2>4, SteadyCalls DEF NoRows, Rings, Pending, Alone
  <2>5. ASSUME NEW e \in Entries, entry[e].caller = c, Active(e), caller[c].at = "served",
               Calls("complete", e)
        PROVE  PhonesInv'
    <3>1. Settles({e}) BY <1>0, <2>5, CallsSettle DEF Routines
    <3>2. wait[c].pc = "hold" BY <1>0, <2>5 DEF Alone
    <3>3. Over(entry[e].caller)' BY <2>1, <2>2, <2>5, <3>1, <3>2 DEF Over, Settles
    <3>4. \A d \in Callers : wait[d].entry # e
      BY <1>0, <2>5, <3>2 DEF Alone, Dialed
    <3>5. ASSUME NEW f \in Entries, Pending(f), Over(entry[f].caller)
          PROVE  Over(entry[f].caller)'
      BY <1>2, <2>3, <3>1, <3>5 DEF Over, Settles
    <3>6. QED BY <1>0, <1>1, <2>1, <2>2, <3>1, <3>3, <3>4, <3>5, Steady
              DEF Rings, Pending, Alone
  <2>6. QED BY <1>5, <2>4, <2>5 DEF Complete
<1>6. ASSUME NEW e \in Entries, Served(e) PROVE PhonesInv'
  <2>1. /\ UNCHANGED <<caller, wait>>
        /\ \/ AgentBridge(e) /\ phone[e] = "answered" /\ phone'[e] = "dialing"
           \/ AgentStatus(e) /\ phone[e] = "missed" /\ phone'[e] = "none"
        /\ \A f \in Entries : f # e => phone'[f] = phone[f]
    BY <1>6 DEF Served, AgentBridge, AgentStatus, Turns, TypeOK
  <2>2. Settles({e})
    <3>1. CASE Calls("accept", e)
      BY <1>0, <3>1, CallsSettle DEF Routines, Settles
    <3>2. CASE Calls("release", e)
      BY <1>0, <3>2, CallsSettle DEF Routines
    <3>3. QED BY <1>6, <3>1, <3>2 DEF Served, AgentBridge, AgentStatus
  <2>3. ~Pending(e)' BY <2>1 DEF Pending, Rings
  <2>4. \A d \in Callers : wait[d].entry # e BY <1>0, <2>1 DEF Alone, Dialed
  <2>5. ASSUME NEW f \in Entries, Pending(f), Over(entry[f].caller)
        PROVE  Over(entry[f].caller)'
    BY <2>1, <2>2, <2>5 DEF Over, Settles
  <2>6. QED BY <1>0, <1>1, <2>1, <2>2, <2>3, <2>4, <2>5, Steady
            DEF Rings, Pending, Alone
<1>7. QED BY <1>3, <1>4, <1>5, <1>6

\* A new row is for a caller that has none active.
LEMMA PhonesClaim ==
  ASSUME TypeOK, PhonesInv, NEW c \in Callers, WaitClaim(c)
  PROVE  PhonesInv'
<1>0. /\ \A d \in Callers : Alone(d)
      /\ \A e \in Entries : Backed(e)
  BY DEF PhonesInv
<1>1. PICK a \in Agents, n \in Entries :
        /\ entry[n].state = "unused"
        /\ entry' = [entry EXCEPT ![n] = Offer(a, c)]
        /\ wait' = [wait EXCEPT ![c] = [pc |-> "dial", entry |-> n]]
  BY DEF WaitClaim
<1>2. UNCHANGED <<phone, caller>> /\ wait[c].pc = "claim" BY DEF WaitClaim, WaitsAt
<1>3. /\ entry'[n] = Offer(a, c)
      /\ \A e \in Entries : e # n => entry'[e] = entry[e]
      /\ wait'[c] = [pc |-> "dial", entry |-> n]
      /\ \A d \in Callers : d # c => wait'[d] = wait[d]
  BY <1>1 DEF TypeOK
<1>4. /\ phone[n] = "none" /\ ~Active(n)
      /\ \A d \in Callers : wait[d].entry # n
      /\ \A e \in Entries : ~(Active(e) /\ entry[e].caller = c)
  BY <1>0, <1>1, <1>2 DEF Backed, Alone, Dialed, Active
<1>5. /\ Active(n)' /\ entry'[n].caller = c /\ ~entry'[n].old /\ entry'[n].state # "unused"
      /\ \A e \in Entries : e # n => Active(e)' = Active(e)
  BY <1>3 DEF Offer, Active
<1>6. ASSUME NEW e \in Entries PROVE Backed(e)'
  <2>1. CASE e = n BY <1>2, <1>4, <1>5, <2>1 DEF Backed, Pending, Rings
  <2>2. CASE e # n
    <3>1. entry[e].caller = c => ~Over(c) BY <1>2 DEF Over
    <3>2. Pending(e) => entry[e].caller \in Callers
      BY <1>0 DEF Backed, Pending, Rings, TypeOK, Entry
    <3>3. QED BY <1>0, <1>2, <1>3, <1>5, <2>2, <3>1, <3>2 DEF Backed, Pending, Rings, Over
  <2>3. QED BY <2>1, <2>2
<1>7. ASSUME NEW d \in Callers PROVE Alone(d)'
  <2>1. CASE d = c
    <3>1. caller[c].at # "served" BY <1>0, <1>2 DEF Alone
    <3>2. QED BY <1>2, <1>3, <1>4, <1>5, <2>1, <3>1 DEF Alone, Dialed
  <2>2. CASE d # c
    BY <1>0, <1>2, <1>3, <1>4, <1>5, <2>2 DEF Alone, Dialed
  <2>3. QED BY <2>1, <2>2
<1>8. OneActive' BY <1>3, <1>4, <1>5 DEF PhonesInv, OneActive
<1>9. OnePhonePerCaller'
  BY <1>2, <1>3, <1>4 DEF PhonesInv, OnePhonePerCaller
<1>10. QED BY <1>6, <1>7, <1>8, <1>9 DEF PhonesInv

\* A call is placed for the caller's active row, and another call would have one too.
LEMMA PhonesDial ==
  ASSUME Prompt, TypeOK, PhonesInv, NEW c \in Callers, WaitDial(c)
  PROVE  PhonesInv'
<1>0. /\ \A d \in Callers : Alone(d)
      /\ \A e \in Entries : Backed(e)
      /\ \A d \in Callers : wait[d] \in Request
      /\ NoEntry \notin Entries
  BY AcdConstantsOK DEF PhonesInv, TypeOK, Request
<1> DEFINE e == wait[c].entry
<1>1. wait[c].pc = "dial" /\ UNCHANGED <<entry, caller>> BY DEF WaitDial, WaitsAt
<1>2. e \in Entries BY <1>1 DEF TypeOK
<1>3. /\ Dialed(c, e)
      /\ \A d \in Callers : wait[d].entry = e => d = c
  BY <1>0, <1>2 DEF Alone, Dialed
<1>4. \A d \in Callers, f \in Entries : wait[d].entry = f => wait[d].pc \in {"dial", "undo"}
  BY <1>0 DEF Alone, Dialed
<1>5. caller[c].at # "served" BY <1>0, <1>1 DEF Alone
<1> HIDE DEF e
<1>6. CASE Step(c, "undo") /\ UNCHANGED phone
  <2>1. wait' = [wait EXCEPT ![c] = [wait[c] EXCEPT !.pc = "undo"]] BY <1>6 DEF Step
  <2>2. /\ wait'[c].pc = "undo" /\ wait'[c].entry = wait[c].entry
        /\ \A d \in Callers : d # c => wait'[d] = wait[d]
    BY <1>0, <2>1 DEF Request, TypeOK
  <2>3. \A d \in Callers : Over(d) => Over(d)' BY <1>1, <2>2 DEF Over
  <2>4. QED BY <1>0, <1>1, <1>4, <1>5, <1>6, <2>2, <2>3, SteadyCalls
            DEF Alone, Rings, Pending
<1>7. CASE Hold(c) /\ phone' = [phone EXCEPT ![e] = "ringing"]
  <2>1. /\ wait'[c] = Idle /\ \A d \in Callers : d # c => wait'[d] = wait[d]
        /\ phone'[e] = "ringing" /\ \A f \in Entries : f # e => phone'[f] = phone[f]
    BY <1>2, <1>7 DEF Hold, TypeOK
  <2>2. \A d \in Callers : Over(d) => Over(d)' BY <1>1, <2>1 DEF Over
  <2>3. \A f \in Entries : /\ entry'[f] = entry[f] /\ Active(f)' = Active(f)
                           /\ Pending(f) => entry[f].caller \in Callers
    BY <1>0, <1>1 DEF Active, Backed, Pending, Rings, TypeOK, Entry
  <2>4. ASSUME NEW f \in Entries PROVE Backed(f)'
    <3>1. CASE f = e BY <1>1, <1>2, <1>3, <2>3, <3>1 DEF Backed, Dialed, Active
    <3>2. CASE f # e
      BY <1>0, <2>1, <2>2, <2>3, <3>2 DEF Backed, Pending, Rings, Over
    <3>3. QED BY <3>1, <3>2
  <2>5. ASSUME NEW d \in Callers PROVE Alone(d)'
    <3>1. CASE d = c
      BY <1>0, <1>1, <1>5, <2>1, <3>1 DEF Alone, Idle
    <3>2. CASE d # c
      BY <1>0, <1>1, <1>2, <1>3, <2>1, <2>3, <3>2 DEF Alone, Dialed
    <3>3. QED BY <3>1, <3>2
  <2>6. OneActive' BY <2>3 DEF PhonesInv, OneActive
  <2>7. ASSUME NEW f \in Entries, Rings(f), entry[f].caller = c PROVE f = e
    <3>1. ~Over(c) BY <1>1 DEF Over
    <3>2. Active(f) BY <1>0, <2>7, <3>1 DEF Backed, Pending
    <3>3. QED BY <1>2, <1>3, <2>7, <3>2 DEF PhonesInv, OneActive, Dialed
  <2>8. OnePhonePerCaller'
    BY <1>2, <1>3, <2>1, <2>3, <2>7 DEF PhonesInv, OnePhonePerCaller, Rings, Dialed
  <2>9. QED BY <2>4, <2>5, <2>6, <2>8 DEF PhonesInv
<1>8. QED BY <1>6, <1>7 DEF WaitDial, Prompt, e

LEMMA PhonesAge ==
  ASSUME Prompt, TypeOK, PhonesInv, NEW n \in Entries, Age(n) PROVE PhonesInv'
<1>1. /\ phone[n] = "none" /\ \A c \in Callers : wait[c].entry # n
      /\ entry[n].state = "offered"
      /\ UNCHANGED <<phone, caller, wait>>
  BY DEF Age, Prompt
<1>2. entry' = [entry EXCEPT ![n] = [entry[n] EXCEPT !.old = TRUE]] /\ entry[n] \in Entry
  BY DEF Age, TypeOK
<1>3. \A e \in Entries : /\ entry'[e].caller = entry[e].caller
                         /\ entry'[e].state = entry[e].state
                         /\ e # n => entry'[e].old = entry[e].old
  BY <1>2 DEF TypeOK, Entry
<1>4. \A e \in Entries : Active(e)' = Active(e) BY <1>3 DEF Active
<1>5. ASSUME NEW e \in Entries PROVE Backed(e)'
  <2>1. Pending(e)' = Pending(e) BY <1>1 DEF Pending, Rings
  <2>2. Over(entry[e].caller)' = Over(entry[e].caller) BY <1>1, <1>3 DEF Over
  <2>3. QED BY <1>1, <1>3, <1>4, <2>1, <2>2 DEF PhonesInv, Backed, Pending, Rings
<1>6. ASSUME NEW c \in Callers PROVE Alone(c)'
  BY <1>1, <1>3, <1>4 DEF PhonesInv, Alone, Dialed
<1>7. OneActive' BY <1>3, <1>4 DEF PhonesInv, OneActive
<1>8. OnePhonePerCaller' BY <1>1, <1>3 DEF PhonesInv, OnePhonePerCaller
<1>9. QED BY <1>5, <1>6, <1>7, <1>8 DEF PhonesInv

PromptInv == OffersInv /\ PhonesInv

LEMMA PromptStep == ASSUME Prompt, PromptInv, [Next]_vars PROVE PromptInv'
<1>0. /\ TypeOK /\ PhonesInv /\ found = {} /\ "split" \notin Faults
      /\ \A d \in Callers : Alone(d)
  BY DEF PromptInv, OffersInv, Prompt, PhonesInv
<1>1. OffersInv' BY <1>0, OffersStep DEF PromptInv
<1>2. CASE UNCHANGED <<entry, caller, wait, phone>>
  <2>1. \A c \in Callers, e \in Entries : wait[c].entry = e => wait[c].pc \in {"dial", "undo"}
    BY <1>0 DEF Alone, Dialed
  <2>2. PhonesInv' BY <1>0, <1>2, <2>1, SteadyCalls DEF Rings, Pending, Over, Alone
  <2>3. QED BY <1>1, <2>2 DEF PromptInv
<1>3. ASSUME NEW c \in Callers,
             \/ Enqueue(c) \/ WaitAgain(c) \/ WaitTooLong(c) \/ Wait(c)
             \/ WaitKilled(c) \/ Talk(c) \/ HangUp(c) \/ Complete(c)
      PROVE  PromptInv'
  BY <1>0, <1>1, <1>3, PhonesTwilio, PhonesWait, PhonesRows, PhonesClaim, PhonesDial
     DEF Wait, PromptInv
<1>4. ASSUME NEW e \in Entries,
             \/ Answer(e) \/ Miss(e) \/ Served(e) \/ WebhookLost(e) \/ Bridge(e)
             \/ GiveUp(e) \/ Age(e) \/ \E r \in Routines : Resume(r, e)
      PROVE  PromptInv'
  <2>1. ASSUME NEW r \in Routines PROVE ~Resume(r, e) BY <1>0 DEF Resume
  <2>2. QED BY <1>0, <1>1, <1>4, <2>1, PhonesTwilio, PhonesRows, PhonesAge DEF PromptInv
<1>5. ASSUME NEW a \in Agents, AskStatus(a) \/ WriteStatus(a) \/ Close(a) \/ Heartbeat(a)
      PROVE  PromptInv'
  BY <1>2, <1>5 DEF AskStatus, WriteStatus, Close, Heartbeat
<1>6. CASE UNCHANGED vars BY <1>2, <1>6 DEF vars
<1>7. QED BY <1>3, <1>4, <1>5, <1>6 DEF Next

\* A caller has one agent's phone ringing at a time, as long as a call that fails
\* to be created does not exist and calls, requests and webhooks keep their time.
THEOREM OnePhoneRings == Prompt => (Spec => []OnePhonePerCaller)
<1>1. Init => PromptInv
  <2>1. Init => PhonesInv
    BY AcdConstantsOK DEF Init, PhonesInv, Backed, Alone, Dialed, OneActive,
       OnePhonePerCaller, Pending, Rings, Active, Unused, Idle
  <2>2. QED BY <2>1, OffersInit DEF PromptInv
<1>2. PromptInv => OnePhonePerCaller BY DEF PromptInv, PhonesInv
<1>3. ASSUME Prompt PROVE Spec => []OnePhonePerCaller
  <2>1. PromptInv /\ [Next]_vars => PromptInv' BY <1>3, PromptStep
  <2>2. QED BY <1>1, <1>2, <2>1, PTL DEF Spec
<1>4. QED BY <1>3
-----------------------------------------------------------------------------
(* The limit of offers, under every fault.                                 *)

Rows(c) == {e \in Entries : entry[e].caller = c}

\* Only the row of a call that is over is completed, at once or by a routine that has
\* still to write.
Finals ==
  \A e \in Entries, c \in Callers :
    /\ entry[e].caller = c
    /\ entry[e].state = "completed" \/ <<"complete", e>> \in found
    => caller[c].at = "gone"

\* Rows no answer was written over after they had timed out.
Plain(c) == {e \in Rows(c) : ~entry[e].revived}

\* What makes OffersBounded inductive: a request that is about to count counts every
\* plain row, one that is past the count has room for the row it may add, and only a
\* caller's own request adds rows for it.
Limit(c) ==
  /\ caller[c].at = "new" => Rows(c) = {} /\ wait[c].pc = "hold"
  /\ caller[c].at = "waiting" => Cardinality(Plain(c)) <= MaxOffers
  /\ caller[c].at = "waiting" /\ wait[c].pc = "count" =>
       \A e \in Plain(c) : entry[e].state = "timed_out"
  /\ caller[c].at = "waiting" /\ wait[c].pc \in {"sweep", "claim"} =>
       Cardinality(Plain(c)) < MaxOffers

\* A row that was not given out belongs to nobody.
Blank == \A e \in Entries : entry[e].state = "unused" => entry[e].caller = NoCaller

LimitInv == TypeOK /\ Blank /\ Finals /\ \A c \in Callers : Limit(c)

LEMMA PlainFinite == \A c \in Callers : IsFiniteSet(Plain(c)) /\ Cardinality(Plain(c)) \in Nat
<1>1. \A c \in Callers : Plain(c) \in SUBSET Entries BY DEF Plain, Rows
<1>2. QED BY <1>1, FS_Subset, FS_CardinalityType, AcdConstantsOK

\* The routines: no row changes its caller, a row that has timed out stays so unless it
\* is completed or revived, and a row is completed by a routine that asked for it.
KeepsRow(r, f) ==
  /\ f.caller = r.caller
  /\ f.state = "unused" => r.state = "unused"
  /\ ~f.revived => ~r.revived /\ (r.state = "timed_out" => f.state \in {"timed_out", "completed"})
Keeps ==
  \A e \in Entries :
    /\ KeepsRow(entry[e], entry'[e])
    /\ entry'[e].state = "completed" \/ <<"complete", e>> \in found' =>
         entry[e].state = "completed" \/ <<"complete", e>> \in found

LEMMA WritesKeep ==
  ASSUME TypeOK, NEW r \in Routines, NEW E \in SUBSET Entries, Writes(r, E)
  PROVE  \A e \in Entries :
           /\ KeepsRow(entry[e], entry'[e])
           /\ entry'[e].state = "completed" =>
                entry[e].state = "completed" \/ (r = "complete" /\ e \in E)
<1> SUFFICES ASSUME NEW e \in Entries
             PROVE  /\ KeepsRow(entry[e], entry'[e])
                    /\ entry'[e].state = "completed" =>
                         entry[e].state = "completed" \/ (r = "complete" /\ e \in E)
  OBVIOUS
<1>1. entry'[e] = IF e \in E THEN Written(r, entry[e]) ELSE entry[e]
  BY DEF Writes
<1>2. /\ NewState(r) # "unused" /\ (NewState(r) = "completed" => r = "complete")
      /\ r # "accept" => NewState(r) \in {"timed_out", "completed"}
  BY DEF NewState, Routines
<1>3. entry[e] \in Entry BY DEF TypeOK
<1>4. CASE e \notin E BY <1>1, <1>4 DEF KeepsRow
<1>5. CASE e \in E
  <2>1. /\ entry'[e].caller = entry[e].caller /\ entry'[e].state = NewState(r)
        /\ entry'[e].revived = (entry[e].revived \/ (r = "accept" /\ entry[e].state = "timed_out"))
    BY <1>1, <1>3, <1>5 DEF Written, Entry
  <2>2. QED BY <1>2, <1>5, <2>1 DEF KeepsRow
<1>6. QED BY <1>4, <1>5

LEMMA CallsKeep ==
  ASSUME TypeOK, NEW r \in {"accept", "release"}, NEW e \in Entries, Calls(r, e)
  PROVE  Keeps
<1>0. r \in Routines /\ r # "complete" BY DEF Routines
<1>1. CASE Writes(r, {e}) /\ UNCHANGED found BY <1>0, <1>1, WritesKeep DEF Keeps
<1>2. CASE found' = found \cup {<<r, e>>} /\ UNCHANGED entry BY <1>0, <1>2 DEF Keeps, KeepsRow
<1>3. CASE NoRows BY <1>3 DEF NoRows, Keeps, KeepsRow
<1>4. QED BY <1>1, <1>2, <1>3 DEF Calls

LEMMA ResumeKeeps ==
  ASSUME TypeOK, NEW r \in Routines, NEW e \in Entries, Resume(r, e) PROVE Keeps
BY WritesKeep DEF Resume, Keeps

LEMMA SweepKeeps ==
  ASSUME TypeOK, NEW c \in Callers, WaitSweep(c) PROVE Keeps
<1>1. Stale \in SUBSET Entries /\ "release" \in Routines BY DEF Stale, Routines
<1>2. CASE Writes("release", Stale) /\ UNCHANGED found BY <1>1, <1>2, WritesKeep DEF Keeps
<1>3. CASE NoRows BY <1>3 DEF NoRows, Keeps, KeepsRow
<1>4. QED BY <1>2, <1>3 DEF WaitSweep

\* A step that adds no row and lets no request to the count or past it.
LEMMA LimitKept ==
  ASSUME LimitInv, TypeOK', Keeps,
         \A c \in Callers :
           /\ \/ caller'[c].at = caller[c].at
              \/ caller'[c].at \notin {"new", "waiting"} /\ caller[c].at # "gone"
           /\ caller'[c].at = "new" => wait'[c].pc = wait[c].pc
           /\ wait'[c].pc \in {"sweep", "claim"} /\ caller'[c].at = "waiting" =>
                wait[c].pc \in {"sweep", "claim"}
           /\ wait'[c].pc = "count" /\ caller'[c].at = "waiting" => wait[c].pc = "count"
  PROVE  LimitInv'
<1>1. \A c \in Callers : Rows(c)' = Rows(c) BY DEF Rows, Keeps, KeepsRow
<1>2. Finals' BY DEF LimitInv, Finals, Keeps, KeepsRow
<1>3. ASSUME NEW c \in Callers PROVE Limit(c)'
  <2>1. Plain(c)' \subseteq Plain(c) BY <1>1 DEF Plain, Rows, Keeps, KeepsRow
  <2>2. Cardinality(Plain(c)') <= Cardinality(Plain(c)) /\ Cardinality(Plain(c)') \in Nat
    BY <2>1, PlainFinite, FS_Subset, FS_CardinalityType
  <2>3. Cardinality(Plain(c))' = Cardinality(Plain(c)') OBVIOUS
  <2>4. ASSUME caller'[c].at = "waiting", wait'[c].pc = "count", NEW e \in Plain(c)'
        PROVE  entry'[e].state = "timed_out"
    <3>1. entry[e].state = "timed_out" /\ e \in Entries
      BY <2>1, <2>4 DEF LimitInv, Limit, Plain, Rows
    <3>2. entry'[e].state # "completed" /\ ~entry'[e].revived
      BY <1>2, <2>4 DEF Finals, Plain, Rows
    <3>3. QED BY <3>1, <3>2 DEF Keeps, KeepsRow
  <2>5. QED
    BY <1>1, <2>2, <2>3, <2>4, PlainFinite, AcdConstantsOK DEF LimitInv, Limit
<1>4. Blank' BY DEF LimitInv, Blank, Keeps, KeepsRow
<1>5. QED BY <1>2, <1>3, <1>4 DEF LimitInv

LEMMA SameRowsKeep == UNCHANGED <<entry, found>> => Keeps
BY DEF Keeps, KeepsRow

LEMMA NewCaller ==
  ASSUME LimitInv, TypeOK', NEW c \in Callers, Enqueue(c) PROVE LimitInv'
<1>1. /\ caller[c].at = "new" /\ Rows(c) = {}
      /\ UNCHANGED <<entry, found>>
      /\ caller' = [caller EXCEPT ![c].at = "waiting"]
      /\ wait' = [wait EXCEPT ![c].pc = "find"]
  BY DEF LimitInv, Limit, Enqueue, Step
<1>2. \A d \in Callers : Rows(d)' = Rows(d) /\ Plain(d)' = Plain(d) BY <1>1 DEF Rows, Plain
<1>3. Limit(c)'
  <2>1. caller'[c].at = "waiting" /\ wait'[c].pc = "find" BY <1>1 DEF LimitInv, TypeOK
  <2>2. Cardinality({}) = 0 BY FS_EmptySet
  <2>3. Plain(c)' = {} BY <1>1, <1>2 DEF Plain
  <2>4. QED BY <1>1, <1>2, <2>1, <2>2, <2>3, AcdConstantsOK DEF Limit
<1>4. ASSUME NEW d \in Callers, d # c PROVE Limit(d)'
  <2>1. caller'[d] = caller[d] /\ wait'[d] = wait[d] BY <1>1, <1>4 DEF LimitInv, TypeOK
  <2>2. QED BY <1>1, <1>2, <2>1 DEF LimitInv, Limit
<1>5. Finals'
  <2>1. \A d \in Callers : caller[d].at = "gone" => caller'[d].at = "gone"
    BY <1>1 DEF LimitInv, TypeOK
  <2>2. QED BY <1>1, <2>1 DEF LimitInv, Finals
<1>6. Blank' BY <1>1 DEF LimitInv, Blank
<1>7. QED BY <1>3, <1>4, <1>5, <1>6 DEF LimitInv

\* A request's step over the rows that leaves them alone.
LEMMA RequestStep ==
  ASSUME LimitInv, TypeOK', NEW c \in Callers, NEW r, UNCHANGED <<entry, found>>,
         wait' = [wait EXCEPT ![c] = r], wait[c].pc # "hold",
         UNCHANGED caller \/ Leaves(c),
         caller[c].at = "waiting" /\ UNCHANGED caller =>
           /\ r.pc = "count" => \A e \in Plain(c) : entry[e].state = "timed_out"
           /\ r.pc \in {"sweep", "claim"} => Cardinality(Plain(c)) < MaxOffers
  PROVE  LimitInv'
<1>1. TypeOK BY DEF LimitInv
<1>2. \A d \in Callers : wait'[d] = IF d = c THEN r ELSE wait[d] BY <1>1 DEF TypeOK
<1>3. \A d \in Callers : \/ caller'[d].at = caller[d].at
                         \/ d = c /\ caller'[d].at = "left" /\ caller[d].at = "waiting"
  BY <1>1 DEF TypeOK, Leaves
<1>4. \A d \in Callers : Rows(d)' = Rows(d) /\ Plain(d)' = Plain(d) BY DEF Rows, Plain
<1>5. caller[c].at # "new" BY DEF LimitInv, Limit
<1>6. Finals' BY <1>3 DEF LimitInv, Finals
<1>7. Blank' BY DEF LimitInv, Blank
<1>8. ASSUME NEW d \in Callers, d # c PROVE Limit(d)'
  BY <1>2, <1>3, <1>4, <1>8 DEF LimitInv, Limit
<1>9. Limit(c)'
  <2>1. CASE UNCHANGED caller BY <1>2, <1>4, <1>5, <2>1 DEF LimitInv, Limit
  <2>2. CASE Leaves(c)
    <3>1. caller'[c].at \notin {"new", "waiting"} BY <1>1, <1>5, <2>2 DEF TypeOK, Leaves
    <3>2. QED BY <3>1 DEF Limit
  <2>3. QED BY <2>1, <2>2
<1>10. QED BY <1>6, <1>7, <1>8, <1>9 DEF LimitInv

\* The first SELECT: no row of the caller is active, so its plain rows have timed out.
LEMMA Found ==
  ASSUME LimitInv, TypeOK', NEW c \in Callers, WaitFind(c) PROVE LimitInv'
<1>0. /\ TypeOK /\ UNCHANGED <<entry, found, caller>> /\ wait[c].pc = "find"
  BY DEF LimitInv, WaitFind, WaitsAt
<1>1. CASE Hold(c) BY <1>0, <1>1, RequestStep DEF Hold, Idle
<1>2. CASE ~(\E e \in Entries : entry[e].caller = c /\ Active(e)) /\ Step(c, "count")
  <2>1. ASSUME caller[c].at = "waiting", NEW e \in Plain(c) PROVE entry[e].state = "timed_out"
    <3>1. entry[e].caller = c /\ e \in Entries BY <2>1 DEF Plain, Rows
    <3>2. entry[e].state # "completed" BY <2>1, <3>1 DEF LimitInv, Finals
    <3>3. entry[e].state # "unused" BY <3>1, AcdConstantsOK DEF LimitInv, Blank
    <3>4. QED BY <1>0, <1>2, <3>1, <3>2, <3>3 DEF TypeOK, Entry, Active
  <2> DEFINE r == [wait[c] EXCEPT !.pc = "count"]
  <2>2. wait' = [wait EXCEPT ![c] = r] BY <1>2 DEF Step
  <2>3. r.pc = "count" BY <1>0 DEF TypeOK
  <2> HIDE DEF r
  <2>4. QED BY <1>0, <2>1, <2>2, <2>3, RequestStep
<1>3. QED BY <1>1, <1>2 DEF WaitFind

\* The count: the plain rows are among those it counts.
LEMMA Counted ==
  ASSUME LimitInv, TypeOK', NEW c \in Callers, WaitCount(c) PROVE LimitInv'
<1>0. TypeOK /\ UNCHANGED <<entry, found>> /\ wait[c].pc = "count"
  BY DEF LimitInv, WaitCount, WaitsAt
<1>1. CASE Hold(c) /\ Leaves(c) BY <1>0, <1>1, RequestStep DEF Hold, Idle
<1>2. CASE /\ ~(Cardinality(Attempts(c)) >= MaxOffers)
           /\ Step(c, "sweep") /\ UNCHANGED caller
  <2>1. ASSUME caller[c].at = "waiting" PROVE Cardinality(Plain(c)) < MaxOffers
    <3>1. Plain(c) \subseteq Attempts(c)
      BY <1>0, <2>1 DEF LimitInv, Limit, Plain, Rows, Attempts
    <3>2. IsFiniteSet(Attempts(c)) BY FS_Subset, AcdConstantsOK DEF Attempts
    <3>3. /\ Cardinality(Plain(c)) <= Cardinality(Attempts(c))
          /\ Cardinality(Attempts(c)) \in Nat
      BY <3>1, <3>2, FS_Subset, FS_CardinalityType
    <3>4. QED BY <1>2, <3>3, PlainFinite, AcdConstantsOK
  <2> DEFINE r == [wait[c] EXCEPT !.pc = "sweep"]
  <2>2. wait' = [wait EXCEPT ![c] = r] BY <1>2 DEF Step
  <2>3. r.pc = "sweep" BY <1>0 DEF TypeOK
  <2> HIDE DEF r
  <2>4. QED BY <1>0, <1>2, <2>1, <2>2, <2>3, RequestStep
<1>3. QED BY <1>1, <1>2 DEF WaitCount

\* The row that is added.
LEMMA Claimed ==
  ASSUME LimitInv, TypeOK', NEW c \in Callers, WaitClaim(c) PROVE LimitInv'
<1>0. TypeOK BY DEF LimitInv
<1>1. PICK a \in Agents, f \in Entries :
        /\ entry[f].state = "unused"
        /\ entry' = [entry EXCEPT ![f] = Offer(a, c)]
        /\ wait' = [wait EXCEPT ![c] = [pc |-> "dial", entry |-> f]]
  BY DEF WaitClaim
<1>2. WaitsAt(c, "claim") /\ UNCHANGED <<found, caller>> BY DEF WaitClaim
<1>3. \A e \in Entries : entry'[e] = IF e = f THEN Offer(a, c) ELSE entry[e] BY <1>0, <1>1 DEF TypeOK
<1>4. \A d \in Callers : f \notin Rows(d)
  BY <1>0, <1>1, AcdConstantsOK DEF Rows, LimitInv, Blank
<1>5. Plain(c)' = Plain(c) \cup {f} BY <1>3, <1>4 DEF Plain, Rows, Offer
<1>6. \A d \in Callers \ {c} : Rows(d)' = Rows(d) BY <1>3, <1>4 DEF Rows, Offer
<1>7. Cardinality(Plain(c)') = Cardinality(Plain(c)) + 1
  <2>1. f \notin Plain(c) BY <1>4 DEF Plain
  <2>2. QED BY <1>5, <2>1, PlainFinite, FS_AddElement
<1>8. caller[c].at # "new" BY <1>2 DEF LimitInv, Limit, WaitsAt
<1>9. Limit(c)'
  <2>1. caller[c].at = "waiting" => Cardinality(Plain(c)) < MaxOffers
    BY <1>2 DEF LimitInv, Limit, WaitsAt
  <2>2. wait'[c].pc = "dial" BY <1>0, <1>1 DEF TypeOK
  <2>3. Cardinality(Plain(c)) \in Nat BY PlainFinite
  <2>4. Cardinality(Plain(c)') = Cardinality(Plain(c))' OBVIOUS
  <2>5. QED BY <1>2, <1>7, <1>8, <2>1, <2>2, <2>3, <2>4, AcdConstantsOK DEF Limit
<1>10. ASSUME NEW d \in Callers, d # c PROVE Limit(d)'
  <2>1. wait'[d] = wait[d] BY <1>0, <1>1, <1>10 DEF TypeOK
  <2>2. Plain(d)' = Plain(d) /\ \A e \in Plain(d) : entry'[e] = entry[e]
    BY <1>3, <1>4, <1>6, <1>10 DEF Plain, Rows
  <2>3. QED BY <1>2, <1>6, <1>10, <2>1, <2>2 DEF LimitInv, Limit
<1>11. Finals'
  <2>1. <<"complete", f>> \notin found
    BY <1>0, <1>1 DEF TypeOK, Routines
  <2>2. QED BY <1>2, <1>3, <2>1 DEF LimitInv, Finals, Offer
<1>12. Blank' BY <1>3 DEF LimitInv, Blank, Offer
<1>13. QED BY <1>9, <1>10, <1>11, <1>12 DEF LimitInv

\* A call that ends has its row completed.
LEMMA CallOver ==
  ASSUME LimitInv, TypeOK', NEW c \in Callers, Complete(c) PROVE LimitInv'
<1>0. TypeOK /\ UNCHANGED wait BY DEF LimitInv, Complete
<1>1. \A d \in Callers : caller'[d].at = IF d = c THEN "gone" ELSE caller[d].at
  BY <1>0 DEF Complete, TypeOK
<1>2. caller[c].at \in {"served", "left"} BY DEF Complete
<1>3. CASE NoRows
  BY <1>0, <1>1, <1>2, <1>3, SameRowsKeep, LimitKept DEF NoRows
<1>4. ASSUME NEW f \in Entries, entry[f].caller = c, Calls("complete", f)
      PROVE  LimitInv'
  <2>1. \A e \in Entries :
          /\ KeepsRow(entry[e], entry'[e])
          /\ e # f => entry'[e] = entry[e]
          /\ entry'[e].state = "completed" \/ <<"complete", e>> \in found' =>
               entry[e].state = "completed" \/ <<"complete", e>> \in found \/ e = f
    <3>1. CASE Writes("complete", {f}) /\ UNCHANGED found
      <4>1. \A e \in Entries : e # f => entry'[e] = entry[e] BY <3>1 DEF Writes
      <4>2. QED BY <1>0, <3>1, <4>1, WritesKeep DEF Routines
    <3>2. CASE found' = found \cup {<<"complete", f>>} /\ UNCHANGED entry BY <3>2 DEF KeepsRow
    <3>3. CASE NoRows BY <3>3 DEF NoRows, KeepsRow
    <3>4. QED BY <1>4, <3>1, <3>2, <3>3 DEF Calls
  <2>2. \A d \in Callers : Rows(d)' = Rows(d) BY <2>1 DEF Rows, KeepsRow
  <2>3. ASSUME NEW d \in Callers PROVE Limit(d)'
    <3>1. CASE d = c
      <4>1. caller'[d].at = "gone" BY <1>1, <3>1
      <4>2. QED BY <4>1 DEF Limit
    <3>2. CASE d # c
      <4>1. f \notin Rows(d) BY <1>4, <3>2 DEF Rows
      <4>2. Plain(d)' = Plain(d) /\ \A e \in Plain(d) : entry'[e] = entry[e]
        BY <2>1, <2>2, <4>1 DEF Plain, Rows
      <4>3. QED BY <1>0, <1>1, <2>2, <3>2, <4>2 DEF LimitInv, Limit
    <3>3. QED BY <3>1, <3>2
  <2>4. Finals' BY <1>1, <1>2, <1>4, <2>1 DEF LimitInv, Finals, KeepsRow
  <2>5. Blank' BY <2>1 DEF LimitInv, Blank, KeepsRow
  <2>6. QED BY <2>3, <2>4, <2>5 DEF LimitInv
<1>5. QED BY <1>3, <1>4 DEF Complete

LEMMA LimitStep == ASSUME LimitInv, [Next]_vars PROVE LimitInv'
<1>0. TypeOK /\ TypeOK' BY TypeStep DEF LimitInv
<1>1. ASSUME Keeps, UNCHANGED <<caller, wait>> PROVE LimitInv' BY <1>0, <1>1, LimitKept
<1>2. ASSUME NEW c \in Callers,
             \/ Enqueue(c) \/ WaitAgain(c) \/ WaitTooLong(c) \/ Wait(c)
             \/ WaitKilled(c) \/ Talk(c) \/ HangUp(c) \/ Complete(c)
      PROVE  LimitInv'
  <2>1. CASE \/ WaitAgain(c) \/ WaitTooLong(c) \/ WaitSweep(c) \/ WaitClaimNone(c)
             \/ WaitDial(c) \/ WaitUndo(c) \/ WaitKilled(c)
    <3>1. Keeps
      <4>1. CASE WaitSweep(c) BY <1>0, <4>1, SweepKeeps
      <4>2. CASE WaitUndo(c)
        <5>1. wait[c].entry \in Entries BY <1>0, <4>2 DEF WaitUndo, WaitsAt, TypeOK
        <5>2. QED BY <1>0, <4>2, <5>1, CallsKeep DEF WaitUndo
      <4>3. CASE UNCHANGED <<entry, found>> BY <4>3, SameRowsKeep
      <4>4. QED BY <2>1, <4>1, <4>2, <4>3
            DEF WaitAgain, WaitTooLong, WaitClaimNone, WaitDial, WaitKilled
    <3>2. \A d \in Callers \ {c} : wait'[d] = wait[d]
      BY <1>0, <2>1 DEF TypeOK, WaitAgain, WaitTooLong, WaitSweep, WaitClaimNone, WaitDial,
         WaitUndo, WaitKilled, Hold, Step
    <3>3. \A d \in Callers : \/ caller'[d].at = caller[d].at
                             \/ caller'[d].at = "left" /\ caller[d].at = "waiting"
      BY <1>0, <2>1 DEF TypeOK, WaitAgain, WaitTooLong, WaitSweep, WaitClaimNone, WaitDial,
         WaitUndo, WaitKilled, Leaves
    <3>4. /\ wait'[c].pc \in {"sweep", "claim"} => wait[c].pc \in {"sweep", "claim"}
          /\ wait'[c].pc # "count"
          /\ wait[c].pc # "hold" \/ caller[c].at = "waiting"
      BY <1>0, <2>1 DEF TypeOK, WaitAgain, WaitTooLong, WaitSweep, WaitClaimNone, WaitDial,
         WaitUndo, WaitKilled, WaitsAt, Hold, Step, Idle
    <3>5. caller[c].at # "new" BY <3>4 DEF LimitInv, Limit
    <3>6. QED BY <1>0, <3>1, <3>2, <3>3, <3>4, <3>5, LimitKept
  <2>2. CASE Talk(c) \/ HangUp(c)
    <3>1. UNCHANGED <<entry, found, wait>> BY <2>2 DEF Talk, HangUp
    <3>2. \A d \in Callers : \/ caller'[d].at = caller[d].at
                             \/ caller'[d].at \in {"left", "served"} /\ caller[d].at \in {"waiting", "talking"}
      BY <1>0, <2>2 DEF TypeOK, Talk, HangUp, Leaves
    <3>3. QED BY <1>0, <3>1, <3>2, SameRowsKeep, LimitKept
  <2>3. QED BY <1>0, <1>2, <2>1, <2>2, NewCaller, Found, Counted, Claimed, CallOver
      DEF Wait
<1>3. ASSUME NEW e \in Entries,
             \/ Answer(e) \/ Miss(e) \/ Served(e) \/ WebhookLost(e) \/ Bridge(e)
             \/ GiveUp(e) \/ Age(e) \/ \E r \in Routines : Resume(r, e)
      PROVE  LimitInv'
  <2>1. CASE Answer(e) \/ Miss(e) \/ WebhookLost(e) \/ GiveUp(e)
    BY <1>1, <2>1, SameRowsKeep DEF Answer, Miss, WebhookLost, GiveUp
  <2>2. CASE Served(e)
    BY <1>0, <1>1, <2>2, CallsKeep DEF Served, AgentBridge, AgentStatus
  <2>3. CASE Bridge(e)
    <3>1. PICK c \in Callers : /\ caller[c].at = "waiting"
                               /\ caller' = [caller EXCEPT ![c] = [at |-> "talking", with |-> e]]
      BY <2>3 DEF Bridge
    <3>2. \A d \in Callers : caller'[d].at = IF d = c THEN "talking" ELSE caller[d].at
      BY <1>0, <3>1 DEF TypeOK
    <3>3. UNCHANGED <<entry, found, wait>> BY <2>3 DEF Bridge
    <3>4. QED BY <1>0, <3>1, <3>2, <3>3, SameRowsKeep, LimitKept
  <2>4. CASE Age(e)
    <3>1. Keeps BY <1>0, <2>4 DEF Age, Keeps, KeepsRow, TypeOK, Entry
    <3>2. QED BY <1>1, <2>4, <3>1 DEF Age
  <2>5. ASSUME NEW r \in Routines, Resume(r, e) PROVE LimitInv'
    BY <1>0, <1>1, <2>5, ResumeKeeps DEF Resume
  <2>6. QED BY <1>3, <2>1, <2>2, <2>3, <2>4, <2>5
<1>4. ASSUME NEW a \in Agents, AskStatus(a) \/ WriteStatus(a) \/ Close(a) \/ Heartbeat(a)
      PROVE  LimitInv'
  BY <1>1, <1>4, SameRowsKeep DEF AskStatus, WriteStatus, Close, Heartbeat
<1>5. CASE UNCHANGED vars BY <1>1, <1>5, SameRowsKeep DEF vars
<1>6. QED BY <1>2, <1>3, <1>4, <1>5 DEF Next

\* A caller who is still in the queue was offered at most MAX_OFFER_ATTEMPTS times, under
\* every fault: lost webhooks, killed requests, routines that overlap, late phones.  Not
\* counted are the offers that an agent answered after they had timed out, which only
\* routines that overlap allow, and which both SELECTs of a request may miss.
THEOREM OffersLimited == Spec => []OffersBounded
<1>1. Init => LimitInv
  <2>1. Init => \A c \in Callers : Rows(c) = {} /\ wait[c].pc = "hold" /\ caller[c].at = "new"
    BY AcdConstantsOK DEF Init, Rows, Unused, Idle
  <2>2. Init => Blank /\ Finals BY AcdConstantsOK DEF Init, Blank, Finals, Unused
  <2>3. QED BY <2>1, <2>2, InitTyped DEF LimitInv, Limit
<1>2. LimitInv => OffersBounded
  <2> SUFFICES ASSUME LimitInv, NEW c \in Callers, caller[c].at = "waiting"
               PROVE  Cardinality({e \in Entries : entry[e].caller = c /\ ~entry[e].revived})
                        <= MaxOffers
    BY DEF OffersBounded
  <2>1. Plain(c) = {e \in Entries : entry[e].caller = c /\ ~entry[e].revived} BY DEF Plain, Rows
  <2>2. QED BY <2>1 DEF LimitInv, Limit
<1>3. QED BY <1>1, <1>2, LimitStep, PTL DEF Spec

-----------------------------------------------------------------------------
(* The router implements the abstract reception, when each routine is one  *)
(* step.                                                                   *)

\* The reception's variables, as the mapping reads them off the tables.
Offered == [e \in Entries |-> [stage |-> entry[e].state, agent |-> entry[e].agent,
                               caller |-> entry[e].caller]]
Serving == [a \in Agents |-> agent[a].entry]

\* A request that looks for an agent does it for a caller without an open offer, and
\* once it has counted the offers, for one whose offers have not come to nothing too often.
Looks(c) == wait[c].pc \in {"count", "sweep", "claim"}
HasCounted(c) == wait[c].pc \in {"sweep", "claim"}
MayLook(c) ==
  /\ \A e \in Entries : ~(Active(e) /\ entry[e].caller = c)
  /\ HasCounted(c) => Cardinality(Attempts(c)) < MaxOffers
NoneBegin == \A c \in Callers : (Looks(c)' => Looks(c)) /\ (HasCounted(c)' => HasCounted(c))
Looking == \A c \in Callers : Looks(c) => MayLook(c)

ReceptionInv == OffersInv /\ Looking

LEMMA WritesEnd ==
  ASSUME TypeOK, OneOfferPerAgent, NEW r \in {"release", "complete"}, NEW E \in SUBSET Entries,
         Writes(r, E), \A e \in E : Selects(r, e)
  PROVE  R!End(E, NewState(r))
<1> DEFINE s == NewState(r)
<1>1. Offered' = [e \in Entries |-> IF e \in E THEN [Offered[e] EXCEPT !.stage = s] ELSE Offered[e]]
  <2>1. \A e \in Entries : entry[e] \in Entry BY DEF TypeOK
  <2>2. \A e \in Entries :
          /\ entry'[e].state = IF e \in E THEN s ELSE entry[e].state
          /\ entry'[e].agent = entry[e].agent /\ entry'[e].caller = entry[e].caller
    BY <2>1, WrittenAs DEF Writes, Routines
  <2> HIDE DEF s
  <2>3. ASSUME NEW e \in Entries
        PROVE  [stage |-> entry'[e].state, agent |-> entry'[e].agent, caller |-> entry'[e].caller]
               = IF e \in E THEN [Offered[e] EXCEPT !.stage = s] ELSE Offered[e]
    BY <2>2 DEF Offered
  <2>4. QED BY <2>3 DEF Offered
<1>2. Serving' = [a \in Agents |-> IF Serving[a] \in E THEN NoEntry ELSE Serving[a]]
  <2> DEFINE A == {entry[e].agent : e \in E} \cap Agents
  <2>1. agent' = Freed(r, A) BY DEF Writes
  <2>2. \A a \in Agents : agent[a] \in AgentRow BY DEF TypeOK, AgentRow
  <2>3. \A a \in Agents : a \in A <=> agent[a].entry \in E
    <3>1. \A e \in E : e \in Entries /\ Active(e) BY DEF Selects, Active
    <3>2. \A e \in E, a \in Agents : entry[e].agent = a <=> agent[a].entry = e
      BY <3>1 DEF OneOfferPerAgent
    <3>3. QED BY <3>2
  <2> HIDE DEF A
  <2>4. \A a \in Agents : agent'[a].entry = IF a \in A THEN NoEntry ELSE agent[a].entry
    BY <2>1, <2>2 DEF Freed, AgentRow
  <2>5. QED BY <2>3, <2>4 DEF Serving
<1>3. QED BY <1>1, <1>2 DEF R!End, Offered, Serving

LEMMA WritesAccept ==
  ASSUME TypeOK, NEW e \in Entries, Writes("accept", {e}), Selects("accept", e)
  PROVE  R!Accept(e)
<1>1. agent' = agent /\ entry[e].state = "offered" BY DEF Writes, Selects
<1>2. \A f \in Entries :
        /\ entry'[f].state = IF f = e THEN "accepted" ELSE entry[f].state
        /\ entry'[f].agent = entry[f].agent /\ entry'[f].caller = entry[f].caller
  <2>1. \A f \in Entries : entry[f] \in Entry BY DEF TypeOK
  <2>2. "accept" \in Routines /\ NewState("accept") = "accepted" BY DEF Routines, NewState
  <2>3. \A f \in Entries : entry'[f] = IF f = e THEN Written("accept", entry[f]) ELSE entry[f]
    BY DEF Writes
  <2>4. QED BY <2>1, <2>2, <2>3, WrittenAs
<1>3. Offered' = [Offered EXCEPT ![e] = [Offered[e] EXCEPT !.stage = "accepted"]]
  <2>1. ASSUME NEW f \in Entries
        PROVE  [stage |-> entry'[f].state, agent |-> entry'[f].agent, caller |-> entry'[f].caller]
               = IF f = e THEN [Offered[e] EXCEPT !.stage = "accepted"] ELSE Offered[f]
    BY <1>2 DEF Offered
  <2>2. QED BY <2>1 DEF Offered
<1>4. Offered[e].stage = "offered" BY <1>1 DEF Offered
<1>5. QED BY <1>1, <1>3, <1>4 DEF R!Accept, Offered

\* A routine ends or accepts one offer, or does nothing.
LEMMA CallsMap ==
  ASSUME "split" \notin Faults, TypeOK, OneOfferPerAgent,
         NEW r \in Routines, NEW e \in Entries, Calls(r, e)
  PROVE  [R!Next]_R!vars
<1>1. CASE Selects(r, e) /\ Writes(r, {e})
  <2>0. Offered[e].stage = entry[e].state BY DEF Offered
  <2>1. CASE r = "accept" BY <1>1, <2>1, WritesAccept DEF R!Next
  <2>2. CASE r = "release"
    <3>1. R!End({e}, "timed_out") BY <1>1, <2>2, WritesEnd DEF NewState
    <3>2. entry[e].state = "offered" BY <1>1, <2>2 DEF Selects
    <3>3. R!TimeOut({e}) BY <2>0, <3>1, <3>2 DEF R!TimeOut, Offered
    <3>4. QED BY <3>3 DEF R!Next
  <2>3. CASE r = "complete"
    <3>1. R!End({e}, "completed") BY <1>1, <2>3, WritesEnd DEF NewState
    <3>2. entry[e].state \in {"offered", "accepted"} BY <1>1, <2>3 DEF Selects
    <3>3. R!Complete(e) BY <2>0, <3>1, <3>2 DEF R!Complete, R!Open, Offered
    <3>4. QED BY <3>3 DEF R!Next
  <2>4. QED BY <2>1, <2>2, <2>3 DEF Routines
<1>2. CASE NoRows BY <1>2 DEF NoRows, R!vars
<1>3. QED BY <1>1, <1>2 DEF Calls

LEMMA SweepMaps ==
  ASSUME TypeOK, OneOfferPerAgent, NEW c \in Callers, WaitSweep(c)
  PROVE  [R!Next]_R!vars
<1>1. CASE Writes("release", Stale)
  <2>1. PICK E \in SUBSET Entries : E = Stale BY DEF Stale
  <2>2. Writes("release", E) BY <1>1, <2>1
  <2>3. \A e \in E : entry[e].state = "offered" BY <2>1 DEF Stale
  <2>4. R!End(E, "timed_out") BY <2>2, <2>3, WritesEnd DEF Selects, NewState
  <2>5. R!TimeOut(E) BY <2>3, <2>4 DEF R!TimeOut
  <2>6. QED BY <2>5 DEF R!Next
<1>2. CASE NoRows BY <1>2 DEF NoRows, R!vars
<1>3. QED BY <1>1, <1>2 DEF WaitSweep

LEMMA ClaimMaps ==
  ASSUME ReceptionInv, NEW c \in Callers, WaitClaim(c)
  PROVE  [R!Next]_R!vars
<1>1. PICK a \in Agents, e \in Entries :
        /\ Eligible(a) /\ entry[e].state = "unused"
        /\ entry' = [entry EXCEPT ![e] = Offer(a, c)]
        /\ agent' = [agent EXCEPT ![a].status = "busy", ![a].entry = e]
  BY DEF WaitClaim
<1>2. TypeOK /\ MayLook(c) BY DEF ReceptionInv, OffersInv, Looking, Looks, WaitClaim, WaitsAt
<1>3. Serving[a] = NoEntry /\ Offered[e].stage = "unused"
  BY <1>1 DEF Serving, Offered, Eligible
<1>4. \A p \in Entries : Offered[p].stage \in {"offered", "accepted"} => Offered[p].caller # c
  BY <1>2 DEF MayLook, Active, Offered
<1>5. {o \in Entries : Offered[o].caller = c /\ Offered[o].stage = "timed_out"} = Attempts(c)
  BY <1>2 DEF MayLook, Active, Attempts, Offered
<1>6. Offered' = [Offered EXCEPT ![e] = [stage |-> "offered", agent |-> a, caller |-> c]]
  <2>1. \A f \in Entries : entry'[f] = IF f = e THEN Offer(a, c) ELSE entry[f]
    BY <1>1, <1>2 DEF TypeOK
  <2>2. \A f \in Entries :
          [stage |-> entry'[f].state, agent |-> entry'[f].agent, caller |-> entry'[f].caller]
          = IF f = e THEN [stage |-> "offered", agent |-> a, caller |-> c] ELSE Offered[f]
    BY <2>1 DEF Offered, Offer
  <2>3. QED BY <2>2 DEF Offered
<1>7. Serving' = [Serving EXCEPT ![a] = e]
  <2>1. \A b \in Agents : agent'[b].entry = IF b = a THEN e ELSE agent[b].entry
    BY <1>1, <1>2 DEF TypeOK
  <2>2. QED BY <2>1 DEF Serving
<1>m. R!Missed(c) = Attempts(c) BY <1>5 DEF R!Missed, Offered
<1>n. R!Cardinality(R!Missed(c)) < MaxOffers
  <2>1. \A S : R!Cardinality(S) = Cardinality(S) BY DEF R!Cardinality, Cardinality
  <2>2. HasCounted(c) BY DEF HasCounted, WaitClaim, WaitsAt
  <2>3. QED BY <1>2, <1>m, <2>1, <2>2 DEF MayLook
<1>o. \A p \in Entries : R!Open(p) => Offered[p].caller # c
  BY <1>4 DEF R!Open, Offered
<1>8. R!Ring(a, c, e)
  <2> USE <1>3, <1>6, <1>7, <1>n, <1>o
  <2>1. Serving[a] = NoEntry /\ Offered[e].stage = "unused" OBVIOUS
  <2>2. QED BY ZenonT(30) DEF R!Ring, Offered, Serving
<1>9. QED BY <1>8 DEF R!Next

\* The agents' rows keep pointing where they did.
LEMMA PointersStay ==
  ASSUME TypeOK, NEW a \in Agents, AskStatus(a) \/ WriteStatus(a) \/ Close(a) \/ Heartbeat(a)
  PROVE  UNCHANGED Serving /\ UNCHANGED <<entry, wait>>
<1>1. agent[a] \in AgentRow BY DEF TypeOK, AgentRow
<1>2. ASSUME NEW x, x.entry = agent[a].entry, agent' = [agent EXCEPT ![a] = x]
      PROVE  UNCHANGED Serving
  BY <1>2 DEF TypeOK, Serving
<1>3. UNCHANGED <<entry, wait>> BY DEF AskStatus, WriteStatus, Close, Heartbeat
<1>4. CASE AskStatus(a) BY <1>3, <1>4 DEF AskStatus, Serving
<1>5. CASE WriteStatus(a)
  <2> DEFINE x == [agent[a] EXCEPT !.status = asked[a], !.fresh = TRUE]
  <2>1. x.entry = agent[a].entry BY <1>1 DEF AgentRow
  <2>2. agent' = [agent EXCEPT ![a] = x] BY <1>5 DEF WriteStatus
  <2> HIDE DEF x
  <2>3. QED BY <1>2, <1>3, <2>1, <2>2
<1>6. CASE Close(a)
  <2>1. [agent[a] EXCEPT !.fresh = FALSE].entry = agent[a].entry BY <1>1 DEF AgentRow
  <2>2. QED BY <1>2, <1>3, <1>6, <2>1 DEF Close
<1>7. CASE Heartbeat(a)
  <2>1. [agent[a] EXCEPT !.fresh = TRUE].entry = agent[a].entry BY <1>1 DEF AgentRow
  <2>2. QED BY <1>2, <1>3, <1>7, <2>1 DEF Heartbeat
<1>8. QED BY <1>4, <1>5, <1>6, <1>7

LEMMA RowsStay ==
  ASSUME TypeOK, NEW e \in Entries, Age(e)
  PROVE  UNCHANGED Offered /\ UNCHANGED <<agent, wait>>
<1>1. \A f \in Entries : /\ entry'[f].state = entry[f].state
                         /\ entry'[f].agent = entry[f].agent
                         /\ entry'[f].caller = entry[f].caller
  BY DEF Age, TypeOK, Entry
<1>2. QED BY <1>1 DEF Age, Offered

-----------------------------------------------------------------------------
(* The requests that look for an agent keep their right to.                *)

\* A step that changes no row of a caller who is looking, and lets nobody look.
LEMMA LooksOn ==
  ASSUME Looking, NEW c \in Callers, Looks(c)', Looks(c), HasCounted(c)' => HasCounted(c),
         \A e \in Entries :
           entry[e].caller = c \/ entry'[e].caller = c =>
             /\ entry'[e].caller = entry[e].caller
             /\ entry'[e].state = entry[e].state
  PROVE  MayLook(c)'
<1>1. MayLook(c) BY DEF Looking
<1>2. Attempts(c)' = Attempts(c) BY DEF Attempts
<1>3. QED BY <1>1, <1>2 DEF MayLook, Active

\* A routine leaves the rows of a caller who is looking alone: it only selects
\* open ones.
LEMMA CallsLook ==
  ASSUME "split" \notin Faults, TypeOK, Looking, NEW r \in Routines, NEW e \in Entries,
         Calls(r, e), NoneBegin
  PROVE  Looking'
<1> SUFFICES ASSUME NEW c \in Callers, Looks(c)' PROVE MayLook(c)'
  BY DEF Looking
<1>1. Looks(c) /\ MayLook(c) /\ (HasCounted(c)' => HasCounted(c)) BY DEF Looking, NoneBegin
<1>2. CASE Selects(r, e) /\ Writes(r, {e})
  <2>1. entry[e].caller # c BY <1>1, <1>2 DEF MayLook, Selects, Routines, Active
  <2>2. \A f \in Entries : /\ entry'[f].caller = entry[f].caller
                           /\ f # e => entry'[f] = entry[f]
    BY <1>2, WrittenAs DEF Writes, TypeOK
  <2>3. QED BY <1>1, <2>1, <2>2, LooksOn
<1>3. CASE NoRows BY <1>1, <1>3, LooksOn DEF NoRows
<1>4. QED BY <1>2, <1>3 DEF Calls

LEMMA SweepLooks ==
  ASSUME TypeOK, Looking, NEW d \in Callers, WaitSweep(d)
  PROVE  Looking'
<1> SUFFICES ASSUME NEW c \in Callers, Looks(c)' PROVE MayLook(c)'
  BY DEF Looking
<1>1. Looks(c) /\ (HasCounted(c)' => HasCounted(c))
  BY DEF WaitSweep, WaitsAt, Step, Looks, HasCounted, TypeOK
<1>2. MayLook(c) BY <1>1 DEF Looking
<1>3. CASE Writes("release", Stale)
  <2>1. \A e \in Stale : entry[e].caller # c BY <1>2 DEF MayLook, Stale, Active
  <2>2. \A f \in Entries : /\ entry'[f].caller = entry[f].caller
                           /\ f \notin Stale => entry'[f] = entry[f]
    BY <1>3, WrittenAs DEF Writes, TypeOK, Routines
  <2>3. QED BY <1>1, <2>1, <2>2, LooksOn
<1>4. CASE NoRows BY <1>1, <1>4, LooksOn DEF NoRows
<1>5. QED BY <1>3, <1>4 DEF WaitSweep

LEMMA ClaimLooks ==
  ASSUME TypeOK, Looking, NEW d \in Callers, WaitClaim(d)
  PROVE  Looking'
<1> SUFFICES ASSUME NEW c \in Callers, Looks(c)' PROVE MayLook(c)'
  BY DEF Looking
<1>1. PICK a \in Agents, e \in Entries :
        /\ entry[e].state = "unused"
        /\ entry' = [entry EXCEPT ![e] = Offer(a, d)]
        /\ wait' = [wait EXCEPT ![d] = [pc |-> "dial", entry |-> e]]
  BY DEF WaitClaim
<1>2. c # d /\ Looks(c) /\ (HasCounted(c)' <=> HasCounted(c))
  BY <1>1 DEF Looks, HasCounted, TypeOK
<1>3. MayLook(c) BY <1>2 DEF Looking
<1>4. \A f \in Entries : entry'[f] = IF f = e THEN Offer(a, d) ELSE entry[f]
  BY <1>1 DEF TypeOK
<1>5. Attempts(c)' = Attempts(c) BY <1>1, <1>2, <1>4 DEF Attempts, Offer
<1>6. QED BY <1>2, <1>3, <1>4, <1>5 DEF MayLook, Active, Offer

\* A request for hold music goes on to look once it has found that it may.
LEMMA FindLooks ==
  ASSUME TypeOK, Looking, NEW d \in Callers, WaitFind(d) \/ WaitCount(d)
  PROVE  Looking'
<1> SUFFICES ASSUME NEW c \in Callers, Looks(c)' PROVE MayLook(c)'
  BY DEF Looking
<1>1. UNCHANGED entry BY DEF WaitFind, WaitCount
<1>2. Attempts(c)' = Attempts(c) /\ \A e \in Entries : Active(e)' <=> Active(e)
  BY <1>1 DEF Attempts, Active
<1>3. CASE c # d
  <2>1. wait'[c] = wait[c] BY <1>3 DEF WaitFind, WaitCount, Hold, Step, TypeOK
  <2>2. QED BY <1>1, <1>2, <2>1 DEF Looking, Looks, MayLook, HasCounted
<1>4. CASE c = d /\ WaitFind(d)
  <2>1. wait'[d].pc # "hold" BY <1>4 DEF Looks
  <2>2. ~Hold(d) BY <2>1 DEF Hold, Idle, TypeOK
  <2>3. (~\E e \in Entries : entry[e].caller = d /\ Active(e)) /\ Step(d, "count")
    BY <1>4, <2>2 DEF WaitFind
  <2>4. wait'[d].pc = "count" BY <2>3 DEF Step, TypeOK
  <2>5. QED BY <1>1, <1>2, <1>4, <2>3, <2>4 DEF MayLook, HasCounted
<1>5. CASE c = d /\ WaitCount(d)
  <2>1. Looks(d) BY <1>5 DEF WaitCount, WaitsAt, Looks
  <2>2. wait'[d].pc # "hold" BY <1>5 DEF Looks
  <2>3. ~Hold(d) BY <2>2 DEF Hold, Idle, TypeOK
  <2>4. ~(Cardinality(Attempts(d)) >= MaxOffers)
    BY <1>5, <2>3 DEF WaitCount
  <2>5. Cardinality(Attempts(d)) \in Nat
    BY AcdConstantsOK, FS_Subset, FS_CardinalityType DEF Attempts
  <2>6. QED BY <1>1, <1>2, <1>5, <2>1, <2>4, <2>5, AcdConstantsOK DEF Looking, MayLook
<1>6. QED BY <1>3, <1>4, <1>5

\* Whatever else happens no request begins to look.
LEMMA SameLooks ==
  ASSUME Looking, UNCHANGED Offered, NoneBegin
  PROVE  Looking'
<1>1. \A e \in Entries : entry'[e].caller = entry[e].caller /\ entry'[e].state = entry[e].state
  <2>1. \A e \in Entries : Offered'[e] = Offered[e] OBVIOUS
  <2>2. QED BY <2>1 DEF Offered
<1>2. QED BY <1>1, LooksOn DEF Looking, NoneBegin

LEMMA ReceptionStep ==
  ASSUME "split" \notin Faults, ReceptionInv, [Next]_vars
  PROVE  ReceptionInv' /\ [R!Next]_R!vars
<1>0. TypeOK /\ OneOfferPerAgent /\ found = {} /\ Looking
  BY DEF ReceptionInv, OffersInv
<1>i. OffersInv' BY OffersStep DEF ReceptionInv
<1>s. ASSUME UNCHANGED Offered, UNCHANGED Serving PROVE [R!Next]_R!vars
  BY <1>s DEF R!vars, Offered, Serving
<1>u. ASSUME UNCHANGED <<agent, entry>>, NoneBegin
      PROVE  ReceptionInv' /\ [R!Next]_R!vars
  <2>1. UNCHANGED Offered /\ UNCHANGED Serving BY <1>u DEF Offered, Serving
  <2>2. QED BY <1>0, <1>i, <1>s, <1>u, <2>1, SameLooks DEF ReceptionInv
<1>c. ASSUME NEW r \in Routines, NEW e \in Entries, Calls(r, e),
             NoneBegin
      PROVE  ReceptionInv' /\ [R!Next]_R!vars
  BY <1>0, <1>c, <1>i, CallsMap, CallsLook DEF ReceptionInv
<1>1. CASE UNCHANGED vars BY <1>1, <1>u DEF vars, NoneBegin, Looks, HasCounted
<1>2. ASSUME NEW c \in Callers,
             \/ Enqueue(c) \/ WaitAgain(c) \/ WaitTooLong(c) \/ Wait(c)
             \/ WaitKilled(c) \/ Talk(c) \/ HangUp(c) \/ Complete(c)
      PROVE  ReceptionInv' /\ [R!Next]_R!vars
  <2>1. CASE \/ Enqueue(c) \/ WaitAgain(c) \/ WaitTooLong(c) \/ WaitClaimNone(c)
             \/ WaitDial(c) \/ WaitKilled(c) \/ Talk(c) \/ HangUp(c)
    <3>1. UNCHANGED <<agent, entry>>
      BY <2>1 DEF Enqueue, WaitAgain, WaitTooLong, WaitClaimNone, WaitDial, WaitKilled, Talk, HangUp
    <3>2. \/ UNCHANGED wait \/ Hold(c) \/ Step(c, "find") \/ Step(c, "undo")
      BY <2>1 DEF Enqueue, WaitAgain, WaitTooLong, WaitClaimNone, WaitDial, WaitKilled, Talk, HangUp
    <3>3. NoneBegin
      <4>1. CASE UNCHANGED wait BY <4>1 DEF NoneBegin, Looks, HasCounted
      <4>2. ASSUME NEW p \in {"hold", "find", "undo"}, NEW x,
                   wait' = [wait EXCEPT ![c] = x], x.pc = p
            PROVE  NoneBegin
        BY <1>0, <4>2 DEF NoneBegin, Looks, HasCounted, TypeOK
      <4>3. CASE Hold(c)
        <5>1. Idle.pc = "hold" BY DEF Idle
        <5>2. QED BY <4>2, <4>3, <5>1 DEF Hold
      <4>4. ASSUME NEW p \in {"find", "undo"}, Step(c, p)
            PROVE  NoneBegin
        <5>1. \A d \in Callers : wait'[d].pc = IF d = c THEN p ELSE wait[d].pc
          BY <1>0, <4>4 DEF Step, TypeOK
        <5>2. QED BY <5>1 DEF NoneBegin, Looks, HasCounted
      <4>5. QED BY <3>2, <4>1, <4>3, <4>4
    <3>4. QED BY <1>u, <3>1, <3>3
  <2>2. CASE WaitFind(c) \/ WaitCount(c)
    <3>1. UNCHANGED <<agent, entry>> BY <2>2 DEF WaitFind, WaitCount
    <3>2. UNCHANGED Offered /\ UNCHANGED Serving BY <3>1 DEF Offered, Serving
    <3>3. QED BY <1>0, <1>i, <1>s, <2>2, <3>2, FindLooks DEF ReceptionInv
  <2>3. CASE WaitSweep(c)
    BY <1>0, <1>i, <2>3, SweepMaps, SweepLooks DEF ReceptionInv
  <2>4. CASE WaitClaim(c)
    BY <1>0, <1>i, <2>4, ClaimMaps, ClaimLooks DEF ReceptionInv
  <2>5. CASE WaitUndo(c)
    <3>1. wait[c].entry \in Entries BY <1>0, <2>5 DEF WaitUndo, WaitsAt, TypeOK
    <3>2. NoneBegin
      BY <1>0, <2>5 DEF WaitUndo, Hold, Idle, NoneBegin, Looks, HasCounted, TypeOK
    <3>3. QED BY <1>c, <2>5, <3>1, <3>2 DEF WaitUndo, Routines
  <2>6. CASE Complete(c)
    <3>1. NoneBegin BY <2>6 DEF Complete, NoneBegin, Looks, HasCounted
    <3>2. CASE NoRows BY <1>u, <3>1, <3>2 DEF NoRows
    <3>3. CASE \E e \in Entries : Calls("complete", e) BY <1>c, <3>1, <3>3 DEF Routines
    <3>4. QED BY <2>6, <3>2, <3>3 DEF Complete
  <2>7. QED BY <1>2, <2>1, <2>2, <2>3, <2>4, <2>5, <2>6 DEF Wait
<1>3. ASSUME NEW e \in Entries,
             \/ Answer(e) \/ Miss(e) \/ Served(e) \/ WebhookLost(e) \/ Bridge(e)
             \/ GiveUp(e) \/ Age(e) \/ \E r \in Routines : Resume(r, e)
      PROVE  ReceptionInv' /\ [R!Next]_R!vars
  <2>1. UNCHANGED wait => NoneBegin BY DEF NoneBegin, Looks, HasCounted
  <2>2. CASE Answer(e) \/ Miss(e) \/ WebhookLost(e) \/ Bridge(e) \/ GiveUp(e)
    BY <1>u, <2>1, <2>2 DEF Answer, Miss, WebhookLost, Bridge, GiveUp
  <2>3. CASE Served(e)
    BY <1>c, <2>1, <2>3 DEF Served, AgentBridge, AgentStatus, Routines
  <2>4. CASE Age(e)
    <3>1. UNCHANGED Offered /\ UNCHANGED <<agent, wait>> BY <1>0, <2>4, RowsStay
    <3>2. UNCHANGED Serving BY <3>1 DEF Serving
    <3>3. QED BY <1>0, <1>i, <1>s, <2>1, <3>1, <3>2, SameLooks DEF ReceptionInv
  <2>5. ASSUME NEW r \in Routines PROVE ~Resume(r, e) BY <1>0 DEF Resume
  <2>6. QED BY <1>3, <2>2, <2>3, <2>4, <2>5
<1>4. ASSUME NEW a \in Agents, AskStatus(a) \/ WriteStatus(a) \/ Close(a) \/ Heartbeat(a)
      PROVE  ReceptionInv' /\ [R!Next]_R!vars
  <2>1. UNCHANGED Serving /\ UNCHANGED <<entry, wait>> BY <1>0, <1>4, PointersStay
  <2>2. UNCHANGED Offered /\ NoneBegin
    BY <2>1 DEF Offered, NoneBegin, Looks, HasCounted
  <2>3. QED BY <1>0, <1>i, <1>s, <2>1, <2>2, SameLooks DEF ReceptionInv
<1>5. QED BY <1>1, <1>2, <1>3, <1>4 DEF Next

\* Agents and callers are matched one to one, each offer ends once and frees its
\* agent, and a caller's unanswered offers are counted, whatever is lost, killed,
\* refused or late, as long as no two routines overlap on a row.
THEOREM ImplementsReception == "split" \notin Faults => (Spec => RefinesReception)
<1> SUFFICES ASSUME "split" \notin Faults PROVE Spec => RefinesReception
  OBVIOUS
<1>1. Init => R!Init BY DEF Init, R!Init, Unused
<1>2. Init => ReceptionInv
  <2>1. Init => Looking BY DEF Init, Looking, Looks, Idle
  <2>2. QED BY <2>1, OffersInit DEF ReceptionInv
<1>3. ReceptionInv /\ [Next]_vars => ReceptionInv' /\ [R!Next]_R!vars BY ReceptionStep
<1>4. QED BY <1>1, <1>2, <1>3, PTL DEF Spec, RefinesReception, R!Spec
=============================================================================
