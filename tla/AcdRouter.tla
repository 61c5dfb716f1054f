----------------------------- MODULE AcdRouter -----------------------------
(***************************************************************************)
(* Routing of inbound calls to the agents of one queue.  A caller waits in *)
(* Twilio's queue; each request Twilio makes for its hold music offers the *)
(* caller to an agent, by a row of inbound_queue_entry and a call to the   *)
(* agent's browser.  An agent who answers is joined to the head of         *)
(* Twilio's queue.  Webhooks close the rows, a sweep the ones they forgot. *)
(***************************************************************************)
EXTENDS Naturals, FiniteSets

CONSTANTS
  Agents,     \* members of the queue
  Callers,    \* calls, by CallSid
  Entries,    \* ids inbound_queue_entry may give out: a bound
  NoAgent, NoCaller, NoEntry,
  MaxOffers,  \* MAX_OFFER_ATTEMPTS
  HoldAudio,  \* inbound_queue.hold_audio is set; the spoken text never ends
  MaxAsks,    \* status changes the agents ask for: a bound
  Faults      \* what the environment may do, see FaultKinds

\* hangup:    a caller hangs up before an agent answers
\* lost:      a webhook about an agent's call never arrives
\* kill:      the process stops in the middle of a hold music request
\* dberror:   a routine raises, without effect
\* reject:    Twilio refuses the call to the agent
\* ambiguous: calls.create fails although the call was placed
\* late:      an agent's phone or its webhook takes longer than stale_after, a
\*            hold music request longer than the conversation that follows
\* split:     another transaction commits between a routine's SELECT and UPDATE
FaultKinds == {"hangup", "lost", "kill", "dberror", "reject", "ambiguous", "late", "split"}

ASSUME AcdConstantsOK ==
  /\ NoAgent \notin Agents /\ NoCaller \notin Callers /\ NoEntry \notin Entries
  /\ IsFiniteSet(Entries)
  /\ MaxOffers \in Nat \ {0}
  /\ MaxAsks \in Nat
  /\ HoldAudio \in BOOLEAN
  /\ Faults \subseteq FaultKinds

VARIABLES
  agent,   \* agent_status
  entry,   \* inbound_queue_entry
  found,   \* routines whose SELECT found its row and whose UPDATE is to come
  caller,  \* the caller's call
  ahead,   \* Twilio's queue: pairs of callers in the order they joined
  wait,    \* per caller: the request for its hold music
  phone,   \* per entry: the call to the agent
  asked,   \* per agent: a status change validated and not yet written
  asks     \* status changes so far

vars == <<agent, entry, found, caller, ahead, wait, phone, asked, asks>>

States == {"offline", "available", "busy", "wrap_up", "away"}
Routines == {"accept", "release", "complete"}

\* old: offered_at is more than stale_after ago.  revived: history, an agent's answer
\* was written over a row that had timed out, see OffersBounded.
Entry == [state : {"unused", "offered", "accepted", "timed_out", "completed"},
          agent : Agents \cup {NoAgent}, caller : Callers \cup {NoCaller}, old : BOOLEAN,
          revived : BOOLEAN]

Idle == [pc |-> "hold", entry |-> NoEntry]
Unused == [state |-> "unused", agent |-> NoAgent, caller |-> NoCaller, old |-> FALSE,
           revived |-> FALSE]

TypeOK ==
  /\ agent \in [Agents -> [status : States, entry : Entries \cup {NoEntry}, fresh : BOOLEAN]]
  /\ entry \in [Entries -> Entry]
  /\ \A e \in Entries :
       entry[e].state # "unused" => entry[e].agent # NoAgent /\ entry[e].caller # NoCaller
  /\ found \subseteq Routines \X Entries
  /\ \A r \in Routines, e \in Entries : <<r, e>> \in found => entry[e].state # "unused"
  /\ caller \in [Callers -> [at : {"new", "waiting", "talking", "served", "left", "gone"},
                             with : Entries \cup {NoEntry}]]
  /\ ahead \subseteq Callers \X Callers
  /\ wait \in [Callers -> [pc : {"hold", "find", "count", "sweep", "claim", "dial", "undo"},
                           entry : Entries \cup {NoEntry}]]
  /\ \A c \in Callers : wait[c].pc \in {"dial", "undo"} => wait[c].entry # NoEntry
  /\ phone \in [Entries -> {"none", "ringing", "missed", "answered", "dialing",
                            "talking"}]
  /\ asked \in [Agents -> States \cup {"none"}]
  /\ asks \in Nat

\* Agents sign in through updateAgentStatus; nobody has called yet.
Init ==
  /\ agent = [a \in Agents |-> [status |-> "available", entry |-> NoEntry, fresh |-> TRUE]]
  /\ entry = [e \in Entries |-> Unused]
  /\ found = {}
  /\ caller = [c \in Callers |-> [at |-> "new", with |-> NoEntry]]
  /\ ahead = {}
  /\ wait = [c \in Callers |-> Idle]
  /\ phone = [e \in Entries |-> "none"]
  /\ asked = [a \in Agents |-> "none"]
  /\ asks = 0

-----------------------------------------------------------------------------
(* The routines, over the tables.                                          *)

\* ACTIVE_ENTRY_STATES_SQL; nothing creates a row in the state "queued".
Active(e) == entry[e].state \in {"offered", "accepted"}

Selects(r, e) ==
  CASE r = "accept"   -> entry[e].state = "offered"
    [] r = "release"  -> entry[e].state = "offered"
    [] r = "complete" -> entry[e].state \in {"offered", "accepted"}

NewState(r) == CASE r = "accept"   -> "accepted"
                 [] r = "release"  -> "timed_out"
                 [] r = "complete" -> "completed"

\* The agents A after release_inbound_offer or complete_inbound_queue_entry.
Freed(r, A) ==
  [a \in Agents |->
     IF a \in A
     THEN [agent[a] EXCEPT !.entry = NoEntry,
                           !.status = IF r = "release" THEN "available" ELSE "wrap_up"]
     ELSE agent[a]]

\* The row a routine leaves, whatever it is by the time of the UPDATE.
Written(r, row) ==
  [row EXCEPT !.state = NewState(r),
              !.revived = @ \/ (r = "accept" /\ row.state = "timed_out")]

\* The UPDATEs of a routine on the rows E, which go by id and ask no state.
Writes(r, E) ==
  /\ entry' = [e \in Entries |-> IF e \in E THEN Written(r, entry[e]) ELSE entry[e]]
  /\ IF r = "accept" THEN UNCHANGED agent
     ELSE agent' = Freed(r, {entry[e].agent : e \in E} \cap Agents)

NoRows == UNCHANGED <<agent, entry, found>>

\* A call of a routine whose error, if any, its caller only logs.
Calls(r, e) ==
  \/ /\ Selects(r, e)
     /\ Writes(r, {e})
     /\ UNCHANGED found
  \/ /\ "split" \in Faults
     /\ Selects(r, e)
     /\ found' = found \cup {<<r, e>>}
     /\ UNCHANGED <<agent, entry>>
  \/ /\ ~Selects(r, e) \/ "dberror" \in Faults
     /\ NoRows

\* The UPDATEs of a routine whose SELECT ran earlier.
Resume(r, e) ==
  /\ <<r, e>> \in found
  /\ Writes(r, {e})
  /\ found' = found \ {<<r, e>>}
  /\ UNCHANGED <<caller, ahead, wait, phone, asked, asks>>

\* (mutant) The sweep takes every offer, however young.
Stale_AnyAge == {e \in Entries : entry[e].state = "offered"}

\* The rows reset_stale_inbound_offers releases; it locks them first.
Stale == {e \in Entries : entry[e].state = "offered" /\ entry[e].old}

\* (mutant) The claim looks at the agent's status only.
Eligible_ByStatus(a) == agent[a].status = "available" /\ agent[a].fresh

\* The agents claim_inbound_queue_entry may take.
Eligible(a) ==
  /\ agent[a].status = "available"
  /\ agent[a].entry = NoEntry
  /\ agent[a].fresh

\* (mutants) The row does not say whom it was offered to; an offer that was not
\* answered is not counted.
Offer_Anonymous(a, c) == [Unused EXCEPT !.state = "offered", !.caller = c]
Attempts_Open(c) == {e \in Entries : entry[e].caller = c /\ entry[e].state = "offered"}

Offer(a, c) == [state |-> "offered", agent |-> a, caller |-> c, old |-> FALSE,
                revived |-> FALSE]

\* The rows countInboundQueueOfferAttempts counts.
Attempts(c) ==
  {e \in Entries : entry[e].caller = c /\ entry[e].state \in {"offered", "timed_out"}}

-----------------------------------------------------------------------------
(* handleWaitUrl: Twilio asks for the caller's hold music.                 *)

WaitsAt(c, pc) == wait[c].pc = pc
Step(c, pc) == wait' = [wait EXCEPT ![c].pc = pc]
Hold(c) == wait' = [wait EXCEPT ![c] = Idle]

\* The caller leaves Twilio's queue; /complete is to come.
Leaves(c) ==
  caller' = [caller EXCEPT ![c].at = IF @ = "waiting" THEN "left" ELSE @]

\* Number webhook: <Enqueue>; Twilio asks for the hold music at once.
Enqueue(c) ==
  /\ caller[c].at = "new" /\ WaitsAt(c, "hold")
  /\ caller' = [caller EXCEPT ![c].at = "waiting"]
  /\ ahead' = ahead \cup ({d \in Callers : caller[d].at = "waiting"} \X {c})
  /\ Step(c, "find")
  /\ UNCHANGED <<agent, entry, found, phone, asked, asks>>

\* The hold music is over.
WaitAgain(c) ==
  /\ caller[c].at = "waiting" /\ WaitsAt(c, "hold") /\ HoldAudio
  /\ Step(c, "find")
  /\ UNCHANGED <<agent, entry, found, caller, ahead, phone, asked, asks>>

\* MAX_QUEUE_TIME_SECONDS is over when the music is.
WaitTooLong(c) ==
  /\ WaitsAt(c, "find") /\ "hangup" \in Faults
  /\ Hold(c)
  /\ Leaves(c)
  /\ UNCHANGED <<agent, entry, found, ahead, phone, asked, asks>>

\* findExistingInboundQueueEntry
WaitFind(c) ==
  /\ WaitsAt(c, "find")
  /\ IF \E e \in Entries : entry[e].caller = c /\ Active(e) THEN Hold(c) ELSE Step(c, "count")
  /\ UNCHANGED <<agent, entry, found, caller, ahead, phone, asked, asks>>

\* countInboundQueueOfferAttempts, a statement of its own
WaitCount(c) ==
  /\ WaitsAt(c, "count")
  /\ IF Cardinality(Attempts(c)) >= MaxOffers
     THEN Hold(c) /\ Leaves(c)
     ELSE Step(c, "sweep") /\ UNCHANGED caller
  /\ UNCHANGED <<agent, entry, found, ahead, phone, asked, asks>>

WaitSweep(c) ==
  /\ WaitsAt(c, "sweep")
  /\ Step(c, "claim")
  /\ \/ Writes("release", Stale) /\ UNCHANGED found
     \/ "dberror" \in Faults /\ NoRows
  /\ UNCHANGED <<caller, ahead, phone, asked, asks>>

WaitClaim(c) ==
  /\ WaitsAt(c, "claim")
  /\ \E a \in Agents, e \in Entries :
       /\ Eligible(a)
       /\ entry[e].state = "unused"
       /\ entry' = [entry EXCEPT ![e] = Offer(a, c)]
       /\ agent' = [agent EXCEPT ![a].status = "busy", ![a].entry = e]
       /\ wait' = [wait EXCEPT ![c] = [pc |-> "dial", entry |-> e]]
  /\ UNCHANGED <<found, caller, ahead, phone, asked, asks>>

WaitClaimNone(c) ==
  /\ WaitsAt(c, "claim")
  /\ (\A a \in Agents : ~Eligible(a)) \/ "dberror" \in Faults
  /\ Hold(c)
  /\ UNCHANGED <<agent, entry, found, caller, ahead, phone, asked, asks>>

\* calls.create; a call that fails to be created gives the agent back.
WaitDial(c) ==
  /\ WaitsAt(c, "dial")
  /\ \/ Hold(c) /\ phone' = [phone EXCEPT ![wait[c].entry] = "ringing"]
     \/ /\ "ambiguous" \in Faults
        /\ Step(c, "undo")
        /\ phone' = [phone EXCEPT ![wait[c].entry] = "ringing"]
     \/ "reject" \in Faults /\ Step(c, "undo") /\ UNCHANGED phone
  /\ UNCHANGED <<agent, entry, found, caller, ahead, asked, asks>>

WaitUndo(c) ==
  /\ WaitsAt(c, "undo")
  /\ Hold(c)
  /\ Calls("release", wait[c].entry)
  /\ UNCHANGED <<caller, ahead, phone, asked, asks>>

\* The same follows when the workspace has no Twilio credentials left to dial with.
WaitKilled(c) ==
  /\ ~WaitsAt(c, "hold") /\ "kill" \in Faults
  /\ Hold(c)
  /\ UNCHANGED <<agent, entry, found, caller, ahead, phone, asked, asks>>

Wait(c) == WaitFind(c) \/ WaitCount(c) \/ WaitSweep(c) \/ WaitClaim(c)
           \/ WaitClaimNone(c) \/ WaitDial(c) \/ WaitUndo(c)

-----------------------------------------------------------------------------
(* The call to the agent, and its webhooks.                                *)

Turns(e, s) == phone' = [phone EXCEPT ![e] = s]

Answer(e) ==
  /\ phone[e] = "ringing"
  /\ Turns(e, "answered")
  /\ UNCHANGED <<agent, entry, found, caller, ahead, wait, asked, asks>>

\* No answer within the offer's timeout, or declined.
Miss(e) ==
  /\ phone[e] = "ringing"
  /\ Turns(e, "missed")
  /\ UNCHANGED <<agent, entry, found, caller, ahead, wait, asked, asks>>

\* handleAgentBridge: best effort; the response dials Twilio's queue.
AgentBridge(e) ==
  /\ phone[e] = "answered"
  /\ Turns(e, "dialing")
  /\ Calls("accept", e)
  /\ UNCHANGED <<caller, ahead, wait, asked, asks>>

\* handleAgentStatus with no-answer, busy, failed or canceled.
AgentStatus(e) ==
  /\ phone[e] = "missed"
  /\ Turns(e, "none")
  /\ Calls("release", e)
  /\ UNCHANGED <<caller, ahead, wait, asked, asks>>

\* A lost /agent-bridge ends the call, which is then completed, not missed.
WebhookLost(e) ==
  /\ phone[e] \in {"answered", "missed"} /\ "lost" \in Faults
  /\ Turns(e, "none")
  /\ UNCHANGED <<agent, entry, found, caller, ahead, wait, asked, asks>>

\* <Dial><Queue>: whoever waits longest, whomever the agent was rung for.
Bridge(e) ==
  /\ phone[e] = "dialing"
  /\ \E c \in Callers :
       /\ caller[c].at = "waiting"
       /\ \A d \in Callers : caller[d].at = "waiting" => <<d, c>> \notin ahead
       /\ caller' = [caller EXCEPT ![c] = [at |-> "talking", with |-> e]]
  /\ Turns(e, "talking")
  /\ UNCHANGED <<agent, entry, found, ahead, wait, asked, asks>>

\* Nobody is left in Twilio's queue; the status callback says completed.
GiveUp(e) ==
  /\ phone[e] = "dialing"
  /\ \A c \in Callers : caller[c].at # "waiting"
  /\ Turns(e, "none")
  /\ UNCHANGED <<agent, entry, found, caller, ahead, wait, asked, asks>>

Talk(c) ==
  /\ caller[c].at = "talking"
  /\ WaitsAt(c, "hold") \/ "late" \in Faults
  /\ caller' = [caller EXCEPT ![c] = [at |-> "served", with |-> NoEntry]]
  /\ phone' = [phone EXCEPT ![caller[c].with] = "none"]
  /\ UNCHANGED <<agent, entry, found, ahead, wait, asked, asks>>

HangUp(c) ==
  /\ caller[c].at = "waiting" /\ "hangup" \in Faults
  /\ Leaves(c)
  /\ UNCHANGED <<agent, entry, found, ahead, wait, phone, asked, asks>>

\* handleComplete: the caller's active entry is completed after a bridged call.
\* After a hangup abandon_inbound_queue_entry looks for a row that is "queued".
Complete(c) ==
  /\ caller[c].at \in {"served", "left"}
  /\ caller' = [caller EXCEPT ![c].at = "gone"]
  /\ LET mine == {e \in Entries : entry[e].caller = c /\ Active(e)}
     IN IF caller[c].at = "served" /\ mine # {}
        THEN \E e \in mine : Calls("complete", e)
        ELSE NoRows
  /\ UNCHANGED <<ahead, wait, phone, asked, asks>>

\* The offer gets old.  Without "late" it does only once nothing happens to it.
Age(e) ==
  /\ entry[e].state = "offered" /\ ~entry[e].old
  /\ \/ "late" \in Faults
     \/ phone[e] = "none" /\ \A c \in Callers : wait[c].entry # e
  /\ entry' = [entry EXCEPT ![e].old = TRUE]
  /\ UNCHANGED <<agent, found, caller, ahead, wait, phone, asked, asks>>

-----------------------------------------------------------------------------
(* The agent's own status: updateAgentStatus.                              *)

MayFollow == [offline   |-> {"available", "away"},
              available |-> {"busy", "away", "offline", "wrap_up"},
              busy      |-> {"wrap_up", "away", "offline"},
              wrap_up   |-> {"available", "away", "offline"},
              away      |-> {"available", "offline"}]

\* The row is read and the change validated,
AskStatus(a) ==
  /\ asked[a] = "none" /\ asks < MaxAsks
  /\ asks' = asks + 1
  /\ \E s \in MayFollow[agent[a].status] \cup {agent[a].status} :
       asked' = [asked EXCEPT ![a] = s]
  /\ UNCHANGED <<agent, entry, found, caller, ahead, wait, phone>>

\* and the row written whatever it says by then; it counts as a heartbeat.
WriteStatus(a) ==
  /\ asked[a] # "none"
  /\ agent' = [agent EXCEPT ![a].status = asked[a], ![a].fresh = TRUE]
  /\ asked' = [asked EXCEPT ![a] = "none"]
  /\ UNCHANGED <<entry, found, caller, ahead, wait, phone, asks>>

\* The browser is closed: last_heartbeat_at gets older than two minutes.
Close(a) ==
  /\ agent[a].fresh /\ asks < MaxAsks
  /\ agent' = [agent EXCEPT ![a].fresh = FALSE]
  /\ asks' = asks + 1
  /\ UNCHANGED <<entry, found, caller, ahead, wait, phone, asked>>

\* heartbeatAgentStatus
Heartbeat(a) ==
  /\ ~agent[a].fresh
  /\ agent' = [agent EXCEPT ![a].fresh = TRUE]
  /\ UNCHANGED <<entry, found, caller, ahead, wait, phone, asked, asks>>

-----------------------------------------------------------------------------
Served(e) == AgentBridge(e) \/ AgentStatus(e)

Next ==
  \/ \E c \in Callers : \/ Enqueue(c) \/ WaitAgain(c) \/ WaitTooLong(c) \/ Wait(c)
                        \/ WaitKilled(c) \/ Talk(c) \/ HangUp(c) \/ Complete(c)
  \/ \E e \in Entries : \/ Answer(e) \/ Miss(e) \/ Served(e) \/ WebhookLost(e)
                        \/ Bridge(e) \/ GiveUp(e) \/ Age(e)
                        \/ \E r \in Routines : Resume(r, e)
  \/ \E a \in Agents : AskStatus(a) \/ WriteStatus(a) \/ Close(a) \/ Heartbeat(a)

Spec == Init /\ [][Next]_vars

\* Requests end, phones ring out, calls end and Twilio delivers its webhooks;
\* callers need not call and agents need not change their status.
FairSpec ==
  /\ Spec
  /\ \A c \in Callers : /\ WF_vars(WaitAgain(c)) /\ WF_vars(Wait(c))
                        /\ WF_vars(Talk(c)) /\ WF_vars(Complete(c))
  /\ \A e \in Entries : /\ WF_vars(Answer(e) \/ Miss(e)) /\ WF_vars(Served(e))
                        /\ WF_vars(Bridge(e) \/ GiveUp(e)) /\ WF_vars(Age(e))
  /\ \A a \in Agents : WF_vars(WriteStatus(a))

-----------------------------------------------------------------------------
(* Properties.                                                             *)

\* An agent has one offer or accepted call at a time, and it is the one its
\* row points to, whatever the sweep, the webhooks and the agent's own status
\* changes do: the claim and the three routines keep two tables in step.
OneOfferPerAgent ==
  \A e \in Entries, a \in Agents :
    Active(e) /\ entry[e].agent = a <=> agent[a].entry = e

\* A caller does not make two agents' phones ring at once, though each request
\* for hold music looks for agents anew and other callers' requests sweep its rows.
OnePhonePerCaller ==
  \A e, f \in Entries :
    /\ phone[e] \in {"ringing", "answered"} /\ phone[f] \in {"ringing", "answered"}
    /\ entry[e].caller = entry[f].caller
    => e = f

\* A caller in the queue was offered at most MAX_OFFER_ATTEMPTS times, however its
\* offers ended and however late, but for the offers an agent answered after they had
\* timed out, when the routines overlap: neither SELECT of handleWaitUrl sees a row
\* that goes from timed_out to accepted between them, so each may cost one more.
OffersBounded ==
  \A c \in Callers :
    caller[c].at = "waiting" =>
      Cardinality({e \in Entries : entry[e].caller = c /\ ~entry[e].revived}) <= MaxOffers

R == INSTANCE Reception WITH Offers <- Entries, NoOffer <- NoEntry,
       offer <- [e \in Entries |-> [stage |-> entry[e].state, agent |-> entry[e].agent,
                                    caller |-> entry[e].caller]],
       serving <- [a \in Agents |-> agent[a].entry]

\* With each routine one step, the requests for hold music, the claims, webhooks,
\* sweeps and status changes, whichever fail, amount to one receptionist who makes
\* one offer at a time to each side and ends each once.
RefinesReception == R!Spec

\* The call an agent was claimed for ends and the agent can be claimed again
\* (acd-router.server.ts:162-166: the sweep repairs what a lost webhook leaves).
AgentReturns ==
  \A a \in Agents : agent[a].entry # NoEntry ~> agent[a].entry = NoEntry
=============================================================================
