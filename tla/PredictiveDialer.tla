-------------------------- MODULE PredictiveDialer --------------------------
(***************************************************************************)
(* The predictive dialer of one campaign.  Each start of it by an agent    *)
(* opens a room, and Twilio's webhooks drive the room: each runs, in its   *)
(* own request, a turn that claims the next contact, places a call and     *)
(* takes the contact off the queue.  A leg is one such turn together with  *)
(* the call it places.  Turns of several rooms, of one agent or of many,   *)
(* share the queue's rows, which STOP messages and the queue page change   *)
(* as well.                                                                *)
(***************************************************************************)
EXTENDS CampaignQueue, FiniteSets

CONSTANTS
  Legs,            \* turns and calls there can be at one time: a bound
  Uuids,           \* names of an agent's rooms: a bound on those open at one time
  NoContact,
  Later,           \* contacts that are not on the queue at first
  Night,           \* contacts outside their calling window (8am to 9pm)
  GroupHouseholds, \* campaign.group_household_queue
  VoicemailFile,   \* the campaign has a voicemail recording
  LegacyRooms,     \* conferences named "user", which the code still serves,
                   \* not "user~uuid", as startAutoDialConference names them
  MaxOptOutSkips,  \* MAX_OPT_OUT_CLAIM_SKIPS
  MaxWindowSkips,  \* MAX_WINDOW_SKIPS_PER_TURN
  Faults,          \* what the environment may do, see FaultKinds
  Edits,           \* what people do to the queue, see EditKinds
  MaxEdits         \* how many edits and kills there can be: a bound

\* kill:      the process stops in the middle of a request
\* reject:    Twilio refuses a call with an HTTP status
\* ambiguous: calls.create fails and may or may not have placed the call
\* dberror:   a statement of a turn raises, without effect
\* stall:     a turn takes longer than stale_after
\* redeliver: a status callback arrives again
\* instant:   a call is over before the request that placed it, or the response
\*            that opens its agent's room
\* midturn:   a claim reaches stale_after between two statements of another turn
FaultKinds == {"kill", "reject", "ambiguous", "dberror", "stall", "redeliver",
               "instant", "midturn"}
EditKinds == {"stop", "dequeue", "enqueue", "requeueAll"}

ASSUME DialerConstantsOK ==
  /\ NoContact \notin Contacts
  /\ Later \subseteq Contacts /\ Night \subseteq Contacts
  /\ {GroupHouseholds, VoicemailFile, LegacyRooms} \subseteq BOOLEAN
  /\ MaxOptOutSkips \in Nat \ {0} /\ MaxWindowSkips \in Nat \ {0}
  /\ Faults \subseteq FaultKinds /\ Edits \subseteq EditKinds
  /\ MaxEdits \in Nat

VARIABLES
  row,      \* campaign_queue
  ahead,    \* its queue_order
  optOut,   \* contact.opt_out, and whether STOP has dequeued the contact yet
  room,     \* per room: the agent's own call to it
  leg,      \* turns and their calls
  status,   \* campaign.status
  edits,    \* edits and kills so far
  tried     \* history: contacts a call was requested for since they were queued

vars == <<row, ahead, optOut, room, leg, status, edits, tried>>

\* A room's name holds its agent's user id.
Rooms == Agents \X Uuids
User(r) == r[1]
NoRoom == <<NoAgent, NoAgent>>

TurnPC == {"start", "sweep", "claim", "check", "window", "prep", "dial",
           "retire", "save", "hangup", "finish"}
Leg == [room : Rooms \cup {NoRoom}, pc : TurnPC \cup {"idle"},
        contact : Contacts \cup {NoContact},
        skipped : SUBSET Contacts,   \* releasedQueueIds
        refused : Nat,               \* opted-out claims of this claimNextQueueContact
        late : BOOLEAN,              \* history: the contact had opted out when claimed
        phone : {"none", "ringing", "answered", "voicemail", "completed", "noanswer"},
        saved : BOOLEAN,             \* the call row exists
        settled : {"no", "claimed", "done"}]  \* how far its terminal status got

NoLeg == [room |-> NoRoom, pc |-> "idle", contact |-> NoContact, skipped |-> {},
          refused |-> 0, late |-> FALSE, phone |-> "none", saved |-> FALSE,
          settled |-> "no"]

TypeOK ==
  /\ row \in [Contacts -> Entry]
  /\ \A c \in Contacts : row[c].state = "assigned" <=> row[c].holder # NoAgent
  /\ ahead \subseteq Contacts \X Contacts
  /\ optOut \in [Contacts -> {"no", "set", "done"}]
  /\ room \in [Rooms -> {"none", "opening", "open"}]
  /\ leg \in [Legs -> Leg]
  /\ status \in {"running", "complete"}
  /\ edits \in Nat
  /\ tried \subseteq Contacts

Init ==
  /\ row = [c \in Contacts |->
              IF c \in Later THEN [Fresh EXCEPT !.state = "absent"] ELSE Fresh]
  /\ ahead = {p \in Contacts \X Contacts : p[1] < p[2]}
  /\ optOut = [c \in Contacts |-> "no"]
  /\ room = [r \in Rooms |-> "none"]
  /\ leg = [l \in Legs |-> NoLeg]
  /\ status = "running"
  /\ edits = 0
  /\ tried = {}

-----------------------------------------------------------------------------
(* The turn: runAutoDialerTurn.                                            *)

Put(l, r) == leg' = [leg EXCEPT ![l] = r]
Goto(l, pc) == Put(l, [leg[l] EXCEPT !.pc = pc])
SetRow(c, e) == row' = [row EXCEPT ![c] = e]

\* The outcomes of a statement whose failure the turn only logs.
Attempted(q) == {q} \cup (IF "dberror" \in Faults THEN {row} ELSE {})

\* The turn is over; what is left of the leg is the call, if there is one.
Ended(r) == IF r.phone = "none" THEN NoLeg ELSE [r EXCEPT !.pc = "idle"]
EndTurn(l) == Put(l, Ended(leg[l]))

Begun(r) == [NoLeg EXCEPT !.room = r, !.pc = "start"]

\* The rooms that Twilio takes for the one conference of their name.
Conference(r) == IF LegacyRooms THEN {q \in Rooms : User(q) = User(r)} ELSE {r}

\* The conference has a participant.
InProgress(r) ==
  \E q \in Conference(r) :
    room[q] = "open" \/ \E l \in Legs : leg[l].room = q /\ leg[l].phone = "answered"

\* A "user~uuid" room whose conference is not in progress stops the dialer.
StartTurn(l) ==
  /\ leg[l].pc = "start"
  /\ IF LegacyRooms \/ InProgress(leg[l].room) THEN Goto(l, "sweep") ELSE EndTurn(l)
  /\ UNCHANGED <<row, ahead, optOut, room, status, edits, tried>>

\* Best effort: a failed sweep does not stop the turn.
Sweep(l) ==
  /\ leg[l].pc = "sweep"
  /\ Goto(l, "claim")
  /\ row' \in Attempted(ResetStale(row))
  /\ UNCHANGED <<ahead, optOut, room, status, edits, tried>>

Claim(l) ==
  /\ leg[l].pc = "claim"
  /\ \E c \in Contacts :
       /\ IsNext(row, ahead, c)
       /\ SetRow(c, Claimed(row[c], User(leg[l].room)))
       /\ Put(l, [leg[l] EXCEPT !.pc = "check", !.contact = c, !.late = optOut[c] # "no"])
  /\ UNCHANGED <<ahead, optOut, room, status, edits, tried>>

ClaimNothing(l) ==
  /\ leg[l].pc = "claim"
  /\ Claimable(row) = {}
  /\ Goto(l, "hangup")
  /\ UNCHANGED <<row, ahead, optOut, room, status, edits, tried>>

\* (mutant) The claim trusts that no writer sets opt_out without dequeuing.
CheckOptOut_Trusting(l) ==
  /\ leg[l].pc = "check"
  /\ Goto(l, "window")
  /\ UNCHANGED <<row, ahead, optOut, room, status, edits, tried>>

\* The rest of claimNextQueueContact: opted-out claims are dequeued and skipped.
CheckOptOut(l) ==
  /\ leg[l].pc = "check"
  /\ LET c == leg[l].contact
         refused == leg[l].refused + 1
     IN IF optOut[c] = "no"
        THEN Goto(l, "window") /\ UNCHANGED row
        ELSE /\ SetRow(c, Dequeued(row[c]))
             /\ Put(l, [leg[l] EXCEPT
                  !.contact = NoContact, !.late = FALSE, !.refused = refused,
                  !.pc = IF refused < MaxOptOutSkips THEN "claim" ELSE "hangup"])
  /\ UNCHANGED <<ahead, optOut, room, status, edits, tried>>

\* A contact outside the calling window is released, and the next one claimed
\* until one comes up again.
CheckWindow(l) ==
  /\ leg[l].pc = "window"
  /\ LET c == leg[l].contact
         skipped == leg[l].skipped \cup {c}
         stop == c \in leg[l].skipped \/ Cardinality(skipped) >= MaxWindowSkips
     IN IF c \notin Night
        THEN Goto(l, "prep") /\ UNCHANGED row
        ELSE /\ SetRow(c, Released(row[c]))
             /\ Put(l, [leg[l] EXCEPT
                  !.contact = NoContact, !.late = FALSE, !.refused = 0, !.skipped = skipped,
                  !.pc = IF stop THEN "hangup" ELSE "claim"])
  /\ UNCHANGED <<ahead, optOut, room, status, edits, tried>>

\* The turn has failed before a call was placed: its claim is released.
Revert(c) == row' \in Attempted([row EXCEPT ![c] = Released(@)])

\* createOutreachAttempt
Prepare(l) ==
  /\ leg[l].pc = "prep"
  /\ \/ Goto(l, "dial") /\ UNCHANGED row
     \/ /\ "dberror" \in Faults
        /\ EndTurn(l)
        /\ Revert(leg[l].contact)
  /\ UNCHANGED <<ahead, optOut, room, status, edits, tried>>

Placed(l) == [leg[l] EXCEPT !.phone = "ringing"]

\* (mutant) An ambiguous failure is retried like a refusal.
DialUnclear_Requeue(l) ==
  /\ "ambiguous" \in Faults
  /\ SetRow(leg[l].contact, Released(row[leg[l].contact]))
  /\ Put(l, Ended(Placed(l))) \/ EndTurn(l)

\* A failure without an HTTP status may have placed a call: the row is parked.
DialUnclear(l) ==
  /\ "ambiguous" \in Faults
  /\ row' \in Attempted(DequeueContact(row, leg[l].contact, FALSE, User(leg[l].room)))
  /\ Put(l, Ended(Placed(l))) \/ EndTurn(l)

\* createTwilioCall
Dial(l) ==
  /\ leg[l].pc = "dial"
  /\ tried' = tried \cup {leg[l].contact}
  /\ \/ Put(l, [Placed(l) EXCEPT !.pc = "retire"]) /\ UNCHANGED row
     \/ /\ "reject" \in Faults
        /\ EndTurn(l)
        /\ Revert(leg[l].contact)
     \/ DialUnclear(l)
  /\ UNCHANGED <<ahead, optOut, room, status, edits>>

\* "Predictive Dialer called contact": the household leaves the queue.
Retire(l) ==
  /\ leg[l].pc = "retire"
  /\ row' = DequeueContact(row, leg[l].contact, TRUE, User(leg[l].room))
  /\ Goto(l, "save")
  /\ UNCHANGED <<ahead, optOut, room, status, edits, tried>>

\* saveCallToDatabase
Save(l) ==
  /\ leg[l].pc = "save"
  /\ Put(l, [leg[l] EXCEPT !.pc = "idle", !.saved = TRUE])
  /\ UNCHANGED <<row, ahead, optOut, room, status, edits, tried>>

\* A conference ends, for everyone in it; who is not in it yet still enters it.
Parted(r, x) ==
  IF x.phone = "answered" /\ x.room \in Conference(r) THEN [x EXCEPT !.phone = "completed"] ELSE x
EndConference(r, legs) ==
  /\ room' = [q \in Rooms |->
                IF q \in Conference(r) /\ room[q] = "open" THEN "none" ELSE room[q]]
  /\ leg' = [k \in Legs |-> Parted(r, legs[k])]

\* completeAllConferences
HangUpRoom(l) ==
  /\ leg[l].pc = "hangup"
  /\ EndConference(leg[l].room, [leg EXCEPT ![l].pc = "finish"])
  /\ UNCHANGED <<row, ahead, optOut, status, edits, tried>>

\* try_complete_campaign_if_drained, best effort.
Finish(l) ==
  /\ leg[l].pc = "finish"
  /\ EndTurn(l)
  /\ \/ status' = IF PendingWork(row) THEN status ELSE "complete"
     \/ /\ "dberror" \in Faults
        /\ UNCHANGED status
  /\ UNCHANGED <<row, ahead, optOut, room, edits, tried>>

\* Whatever else raises ends the turn and nothing it did is undone;
\* saveCallToDatabase swallows its error as the turn's last step.
Raise(l) ==
  /\ "dberror" \in Faults
  /\ leg[l].pc \in {"start", "claim", "check", "window", "retire", "save", "hangup"}
  /\ EndTurn(l)
  /\ UNCHANGED <<row, ahead, optOut, room, status, edits, tried>>

TurnStep(l) ==
  \/ StartTurn(l) \/ Sweep(l) \/ Claim(l) \/ ClaimNothing(l) \/ CheckOptOut(l)
  \/ CheckWindow(l) \/ Prepare(l) \/ Dial(l) \/ Retire(l) \/ Save(l)
  \/ HangUpRoom(l) \/ Finish(l) \/ Raise(l)

\* The process stops: the turn is gone, its claim and its call are not; or the
\* callback that claimed a terminal status is gone.
Kill(l) ==
  /\ "kill" \in Faults /\ edits < MaxEdits
  /\ \/ leg[l].pc # "idle" /\ EndTurn(l)
     \/ leg[l].settled = "claimed" /\ Put(l, [leg[l] EXCEPT !.settled = "done"])
  /\ edits' = edits + 1
  /\ UNCHANGED <<row, ahead, optOut, room, status, tried>>

-----------------------------------------------------------------------------
(* Calls and rooms at Twilio, and the webhooks they cause.                 *)

\* The turn a webhook runs in-process takes a free leg.
RunTurn(r, legs) ==
  \E k \in Legs : legs[k] = NoLeg /\ leg' = [legs EXCEPT ![k] = Begun(r)]

\* startAutoDialConference, and the agent's device answering: the room handler
\* runs a turn before it returns the TwiML that puts the agent in the room.  An
\* agent may start again whatever other rooms and calls they have; a uuid is used
\* again when nothing is left of the room before: a bound.
AgentJoins(r) ==
  /\ status = "running"
  /\ room[r] = "none" /\ \A l \in Legs : leg[l].room # r
  /\ room' = [room EXCEPT ![r] = "opening"]
  /\ RunTurn(r, leg)
  /\ UNCHANGED <<row, ahead, optOut, status, edits, tried>>

InTurn(r) == \E l \in Legs : leg[l].room = r /\ leg[l].pc # "idle"

RoomOpens(r) ==
  /\ room[r] = "opening"
  /\ ~InTurn(r)
  /\ room' = [room EXCEPT ![r] = "open"]
  /\ UNCHANGED <<row, ahead, optOut, leg, status, edits, tried>>

AgentLeaves(r) ==
  /\ room[r] = "open"
  /\ room' = [room EXCEPT ![r] = "none"]
  /\ UNCHANGED <<row, ahead, optOut, leg, status, edits, tried>>

\* A phone rings for longer than a request takes.
Rings(l) ==
  /\ leg[l].phone = "ringing"
  /\ \/ "instant" \in Faults
     \/ leg[l].pc = "idle" /\ room[leg[l].room] # "opening"

\* A call without a row is hung up: the room handler finds nothing to join.
AnsweredUnknown(l) ==
  /\ Rings(l) /\ ~leg[l].saved
  /\ Put(l, [leg[l] EXCEPT !.phone = "completed"])
  /\ UNCHANGED <<row, ahead, optOut, room, status, edits, tried>>

\* handleHumanAnswer
AnsweredByHuman(l) ==
  /\ Rings(l) /\ leg[l].saved
  /\ Put(l, [leg[l] EXCEPT !.phone = "answered"])
  /\ UNCHANGED <<row, ahead, optOut, room, status, edits, tried>>

\* dequeueContact of the room handler
MachineDequeue(c, a) ==
  IF GroupHouseholds THEN row' = DequeueContact(row, c, TRUE, a)
  ELSE SetRow(c, Dequeued(row[c]))

\* handleMachineAnswer: the recording plays while the agent's next turn runs.
AnsweredByMachine(l) ==
  /\ Rings(l) /\ leg[l].saved
  /\ VoicemailFile
  /\ MachineDequeue(leg[l].contact, User(leg[l].room))
  /\ LET legs == [leg EXCEPT ![l].phone = "voicemail"]
     IN IF InProgress(leg[l].room) THEN RunTurn(leg[l].room, legs) ELSE leg' = legs
  /\ UNCHANGED <<ahead, optOut, room, status, edits, tried>>

\* No recording: the machine is hung up on.
MachineHungUp(l) ==
  /\ Rings(l) /\ leg[l].saved
  /\ ~VoicemailFile
  /\ Put(l, [leg[l] EXCEPT !.phone = "completed"])
  /\ UNCHANGED <<row, ahead, optOut, room, status, edits, tried>>

\* no-answer, busy or failed
NotAnswered(l) ==
  /\ Rings(l)
  /\ Put(l, [leg[l] EXCEPT !.phone = "noanswer"])
  /\ UNCHANGED <<row, ahead, optOut, room, status, edits, tried>>

\* endConferenceOnExit: a contact who leaves ends the agent's conference.
HangUp(l) ==
  /\ \/ leg[l].phone = "answered" /\ EndConference(leg[l].room, leg)
     \/ /\ leg[l].phone = "voicemail"
        /\ Put(l, [leg[l] EXCEPT !.phone = "completed"])
        /\ UNCHANGED room
  /\ UNCHANGED <<row, ahead, optOut, status, edits, tried>>

\* (mutant) The status is compared with the row read before.
ClaimTerminal_Always(r) == TRUE

\* claimTerminalCallStatus: an UPDATE that only one delivery can make.
ClaimTerminal(r) == r.settled = "no"

\* The terminal status callback claims the status, or acknowledges a replay or a
\* call without a row.
StatusCallback(l) ==
  /\ leg[l].phone \in {"completed", "noanswer"}
  /\ leg[l].settled = "no" \/ "redeliver" \in Faults
  /\ Put(l, [leg[l] EXCEPT !.settled = IF ~leg[l].saved THEN "done"
                                      ELSE IF ClaimTerminal(leg[l]) THEN "claimed" ELSE @])
  /\ UNCHANGED <<row, ahead, optOut, room, status, edits, tried>>

\* triggerAutoDialer is skipped for the status "completed".
TriggersTurn(x) == x.phone # "completed"

\* handleCallStatus, for the delivery that claimed the status
HandleStatus(l) ==
  /\ leg[l].settled = "claimed"
  /\ LET r == leg[l].room
         legs == [leg EXCEPT ![l].settled = "done"]
     IN /\ row' = DequeueContact(row, leg[l].contact, TRUE, User(r))
        /\ IF InProgress(r) /\ TriggersTurn(leg[l]) THEN RunTurn(r, legs) ELSE leg' = legs
  /\ UNCHANGED <<ahead, optOut, room, status, edits, tried>>

\* Nothing more is heard of a call that is over.
Forget(l) ==
  /\ leg[l].settled = "done" /\ leg[l].pc = "idle"
  /\ Put(l, NoLeg)
  /\ UNCHANGED <<row, ahead, optOut, room, status, edits, tried>>

CallStep(l) ==
  \/ AnsweredUnknown(l) \/ AnsweredByHuman(l) \/ AnsweredByMachine(l)
  \/ MachineHungUp(l) \/ NotAnswered(l) \/ HangUp(l)
  \/ StatusCallback(l) \/ HandleStatus(l) \/ Forget(l)

-----------------------------------------------------------------------------
(* People and time.                                                        *)

Edit(kind) ==
  /\ kind \in Edits /\ edits < MaxEdits
  /\ edits' = edits + 1

\* An inbound STOP sets opt_out, and then dequeues the contact's rows.
Stop(c) ==
  /\ Edit("stop")
  /\ optOut[c] = "no"
  /\ optOut' = [optOut EXCEPT ![c] = "set"]
  /\ UNCHANGED <<row, ahead, room, leg, status, tried>>

StopDequeues(c) ==
  /\ optOut[c] = "set"
  /\ optOut' = [optOut EXCEPT ![c] = "done"]
  /\ SetRow(c, IF row[c].state = "absent" THEN row[c] ELSE Dequeued(row[c]))
  /\ UNCHANGED <<ahead, room, leg, status, edits, tried>>

\* POST /api/queues, with or without the household
DequeueByUser(c, a) ==
  /\ Edit("dequeue")
  /\ \E household \in BOOLEAN : row' = DequeueContact(row, c, household, a)
  /\ UNCHANGED <<ahead, optOut, room, leg, status, tried>>

\* rpcHandleCampaignQueueEntry
Enqueue(c, requeue) ==
  /\ Edit("enqueue")
  /\ row' = EnqueueEntry(row, c, requeue)
  /\ ahead' = EnqueueOrder(row, ahead, c, requeue)
  /\ tried' = IF Reused(row, c, requeue) THEN tried ELSE tried \ {c}
  /\ UNCHANGED <<optOut, room, leg, status>>

\* DELETE /api/queues
RequeueAll ==
  /\ Edit("requeueAll")
  /\ row' = [c \in Contacts |->
               IF row[c].state = "absent" THEN row[c] ELSE Released(row[c])]
  /\ tried' = {}
  /\ UNCHANGED <<ahead, optOut, room, leg, status>>

Working(l) == leg[l].pc \in {"check", "window", "prep", "dial", "retire"}

\* stale_after (10 minutes) passes; a turn takes less unless it stalls.
ClaimAges(c) ==
  /\ row[c].state = "assigned" /\ row[c].claim = "fresh"
  /\ "stall" \notin Faults => \A l \in Legs : Working(l) => leg[l].contact # c
  /\ "midturn" \notin Faults => \A l \in Legs : leg[l].pc = "idle"
  /\ SetRow(c, [row[c] EXCEPT !.claim = "stale"])
  /\ UNCHANGED <<ahead, optOut, room, leg, status, edits, tried>>

RoomStep(r) == AgentJoins(r) \/ RoomOpens(r)

Next ==
  \/ \E l \in Legs : TurnStep(l) \/ CallStep(l) \/ Kill(l)
  \/ \E r \in Rooms : RoomStep(r) \/ AgentLeaves(r)
  \/ \E c \in Contacts : \/ Stop(c) \/ StopDequeues(c) \/ ClaimAges(c)
                         \/ \E a \in Agents : DequeueByUser(c, a)
                         \/ \E requeue \in BOOLEAN : Enqueue(c, requeue)
  \/ RequeueAll

Spec == Init /\ [][Next]_vars

\* Requests and calls end, callbacks arrive, STOP is processed, agents start the
\* dialer for as long as the campaign runs, and claims age: their time passes
\* whatever else happens, so that turns which keep coming do not hold it up.
Fairness ==
  /\ \A l \in Legs : WF_vars(TurnStep(l)) /\ WF_vars(CallStep(l))
  /\ \A r \in Rooms : WF_vars(RoomStep(r))
  /\ \A c \in Contacts : WF_vars(StopDequeues(c)) /\ SF_vars(ClaimAges(c))

FairSpec == Spec /\ Fairness

\* Agents do not stay in a room for ever either.
RestlessSpec == FairSpec /\ \A r \in Rooms : WF_vars(AgentLeaves(r))

-----------------------------------------------------------------------------
(* What the dialer promises.                                               *)

OnPhone(l) == leg[l].phone \in {"ringing", "answered", "voicemail"}

\* Two calls are never up to one contact at a time, whoever placed them: the
\* claim, the sweep, the release and the dequeue keep a contact that is being
\* dialed or talked to away from every other turn.
NoDoubleDial ==
  \A k, l \in Legs :
    OnPhone(k) /\ OnPhone(l) /\ leg[k].contact = leg[l].contact => k = l

\* A room is given one contact at a time: while a turn of it looks for a contact,
\* or a contact's phone rings or is connected to it, no other does, however often
\* a status callback arrives and however many rooms the agent has.
Attending(l) ==
  \/ leg[l].pc \in TurnPC \ {"retire", "save"}
  \/ leg[l].phone \in {"ringing", "answered"}
OneContactPerRoom ==
  \A k, l \in Legs :
    Attending(k) /\ Attending(l) /\ leg[k].room = leg[l].room => k = l

\* A contact who had opted out before being claimed is not called, even when a
\* turn that still held the contact has put the row back on the queue.
Dials(l) == leg[l].pc = "dial" /\ leg[l].phone = "none" /\ leg'[l].phone = "ringing"
OptOutHonoured == [][\A l \in Legs : Dials(l) => ~leg[l].late]_vars

\* The campaign is not completed while a contact waits or one that has attempts
\* left is claimed, whatever other turns do between the sweep and the completion.
Completes == status = "running" /\ status' = "complete"
CompletionSparesAttempts ==
  [][Completes => \A c \in Contacts :
       /\ row[c].state # "queued"
       /\ row[c].state = "assigned" => Exhausted(row[c])]_vars

\* A contact is given up as having used its attempts only after a call to it
\* was requested since it was last put on the queue.
FailedWasTried == \A c \in Contacts : row[c].state = "failed" => c \in tried

\* While the call to one member of a household is up and saved, no turn of any agent
\* takes another member, but one whom a turn held then and whose call was refused.
Claims(l, c) == leg[l].pc = "claim" /\ leg'[l].contact = c
Housemate(c, d) == c # d /\ \E h \in Households : {c, d} \subseteq h
HouseholdLeft ==
  [][\A k, l \in Legs, c \in Contacts :
       Claims(l, c) /\ OnPhone(k) /\ leg[k].saved /\ Housemate(c, leg[k].contact)
         => c \in tried]_vars

\* An agent in the room does not wait for ever while contacts wait: a turn runs
\* or a call is up, or the agent or the last contact goes.
Served(r) == \E l \in Legs : leg[l].room = r
AgentIsServed ==
  \A r \in Rooms :
    room[r] = "open" /\ Claimable(row) # {} ~>
      room[r] # "open" \/ Claimable(row) = {} \/ Served(r)

\* No contact is forgotten: in the end each has been called, dequeued or given up,
\* whatever a killed request left behind.
QueueDrains == <>[](\A c \in Contacts : row[c].state = "absent" \/ Finished(row[c]))

\* A campaign whose agents keep dialing is eventually marked complete.
CampaignCompletes == <>(status = "complete")

-----------------------------------------------------------------------------
(* The dialer implements the list that a campaign's manager thinks of.     *)

\* A turn has claimed the contact and has not called it.
Considers(l, c) == leg[l].contact = c /\ leg[l].pc \in {"check", "window", "prep", "dial"}

\* The contact is on the phone, or the turn has not taken it off the queue yet.
Reaches(l, c) == leg[l].contact = c /\ (OnPhone(l) \/ leg[l].pc = "retire")

OffList(e) == e.state \notin {"queued", "assigned"}
Stage(c) ==
  IF \E l \in Legs : Considers(l, c) THEN "held"
  ELSE IF \E l \in Legs : Reaches(l, c) THEN "called"
  ELSE IF OffList(row[c]) THEN "done" ELSE "waiting"
Hands(c) ==
  {r \in Rooms : \E l \in Legs :
     /\ leg[l].room = r /\ leg[l].contact = c
     /\ Considers(l, c) \/ leg[l].phone \in {"ringing", "answered"}}

L == INSTANCE CallList WITH stage <- [c \in Contacts |-> Stage(c)],
                            hands <- [c \in Contacts |-> Hands(c)]

\* With no turn cut short and nobody put back by hand, the turns of any number of
\* rooms amount to one list: whoever was called, or left it, is not taken again.
RefinesCallList == L!Spec
=============================================================================
