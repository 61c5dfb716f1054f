----------------------------- MODULE ManualDial -----------------------------
(***************************************************************************)
(* The manual dialer: an agent's call screens, the request each sends to   *)
(* /api/dial, and what else the screens do to the queue.  A request is a   *)
(* sequence of statements, dial[t].pc the next one; requests of two tabs   *)
(* interleave, those of one tab do not.                                    *)
(***************************************************************************)
EXTENDS Outreach

VARIABLE dial   \* by tab: the agent and the request under way

Dial == [agent : Agents \cup {NoAgent}, pc : {"idle", "claim", "create", "save", "hangup"},
         contact : Contacts \cup {NoContact}, call : Usages \cup {NoUsage}]

DialTypeOK == dial \in [Tabs -> Dial]

\* The screens that are open, one agent's or several's.
DialInit(owner) ==
  dial = [t \in Tabs |-> [agent |-> owner[t], pc |-> "idle",
                          contact |-> NoContact, call |-> NoUsage]]

Idle(d) == [d EXCEPT !.pc = "idle", !.contact = NoContact, !.call = NoUsage]
Goto(t, pc) == dial' = [dial EXCEPT ![t].pc = pc]
Rest(t) == dial' = [dial EXCEPT ![t] = Idle(@)]

-----------------------------------------------------------------------------
(* POST /api/dial.                                                         *)

\* The credit gate: the balance may be spent before the call is placed.
StartDial(t, c) ==
  /\ dial[t].pc = "idle" /\ queue[c].state # "absent"
  /\ CreditsOK
  /\ dial' = [dial EXCEPT ![t].pc = "claim", ![t].contact = c]
  /\ UNCHANGED outreachVars

\* A row of either leg, as claim_queue_entry_for_dial looks for one.  Calls last less
\* than the two hours after which it stops looking.
ActiveCall(c) ==
  \E k \in Legs : usage[k[1]].kind = "call" /\ usage[k[1]].contact = c
                  /\ row[k].state = "open"

\* (mutant) The claim does not look for a call in progress.
ClaimForDial_Blind(t) ==
  /\ dial[t].pc = "claim"
  /\ LET c == dial[t].contact
         a == dial[t].agent
     IN IF queue[c].holder \in {NoAgent, a} /\ queue[c].state \in {"queued", "assigned"}
        THEN queue' = [queue EXCEPT ![c].holder = a] /\ Goto(t, "create")
        ELSE UNCHANGED queue /\ Rest(t)
  /\ UNCHANGED <<optOut, usage, row, job, ledger, topups, credits, gap>>

\* claim_queue_entry_for_dial.  The row keeps its state.
ClaimForDial(t) ==
  /\ dial[t].pc = "claim"
  /\ LET c == dial[t].contact
         a == dial[t].agent
     IN IF /\ queue[c].holder \in {NoAgent, a}
           /\ queue[c].state \in {"queued", "assigned"}
           /\ ~ActiveCall(c)
        THEN queue' = [queue EXCEPT ![c].holder = a] /\ Goto(t, "create")
        ELSE UNCHANGED queue /\ Rest(t)
  /\ UNCHANGED <<optOut, usage, row, job, ledger, topups, credits, gap>>

Ringing(t) ==
  [NotPlaced EXCEPT !.kind = "call", !.contact = dial[t].contact, !.by = t,
                  !.stage = "ringing"]

\* calls.create to the agent's browser.  A refusal leaves the row with the agent.  Of a
\* call that was placed though its answer was lost nobody has the SID: withTwilioRetry
\* asks again (any number of times here), or the request is over.
CreateCall(t) ==
  /\ dial[t].pc = "create"
  /\ \/ \E u \in Unused :
          \/ /\ Accept(u, Ringing(t))
             /\ dial' = [dial EXCEPT ![t].pc = "save", ![t].call = u]
          \/ /\ "ambiguous" \in Faults
             /\ Accept(u, [Ringing(t) EXCEPT !.adrift = TRUE])
             /\ Rest(t) \/ UNCHANGED dial
     \/ "reject" \in Faults /\ Rest(t) /\ UNCHANGED usage
  /\ UNCHANGED <<queue, optOut, row, job, ledger, topups, credits, gap>>

\* (mutant) A row that could not be written is only logged.
SaveCall_Shrug(t) ==
  /\ dial[t].pc = "save"
  /\ \/ row' = [row EXCEPT ![<<dial[t].call, "agent">>].state = "open"]
     \/ "dberror" \in Faults /\ UNCHANGED row
  /\ Rest(t)
  /\ UNCHANGED <<queue, optOut, usage, job, ledger, topups, credits, gap>>

\* createOutreachAttempt and saveCallToDatabase; if either fails, the call is hung up.
SaveCall(t) ==
  /\ dial[t].pc = "save"
  /\ \/ /\ row' = [row EXCEPT ![<<dial[t].call, "agent">>].state = "open"]
        /\ Rest(t)
     \/ /\ "dberror" \in Faults
        /\ Goto(t, "hangup")
        /\ UNCHANGED row
  /\ UNCHANGED <<queue, optOut, usage, job, ledger, topups, credits, gap>>

\* hangUpUntrackedCall: a failure is logged.
HangUpUntracked(t) ==
  /\ dial[t].pc = "hangup"
  /\ LET u == dial[t].call
     IN \/ \E answered \in BOOLEAN :
             usage' = [usage EXCEPT ![u] = IF Live(u) THEN Ended(@, answered) ELSE @]
        \/ "reject" \in Faults /\ usage' = [usage EXCEPT ![u].adrift = TRUE]
  /\ Rest(t)
  /\ UNCHANGED <<queue, optOut, row, job, ledger, topups, credits, gap>>

\* The process is stopped in the middle of the request.
KillDial(t) ==
  /\ "kill" \in Faults /\ dial[t].pc # "idle"
  /\ usage' = IF dial[t].call = NoUsage THEN usage
              ELSE [usage EXCEPT ![dial[t].call].adrift = TRUE]
  /\ Rest(t)
  /\ UNCHANGED <<queue, optOut, row, job, ledger, topups, credits, gap>>

-----------------------------------------------------------------------------
(* The rest of the call screen.                                            *)

\* POST /api/hangup for a call that has a row: Twilio (a call that is over already is
\* tolerated), then the guarded dequeue.
HangUp(t, u) ==
  /\ \E s \in Sides : Owned(<<u, s>>)
  /\ usage[u].kind = "call"
  /\ \E answered \in BOOLEAN, fanOut \in BOOLEAN :
       /\ usage' = [usage EXCEPT ![u] = IF Live(u) THEN Ended(@, answered) ELSE @]
       /\ queue' = DequeueContact(queue, usage[u].contact, fanOut, dial[t].agent)
  /\ UNCHANGED <<dial, optOut, row, job, ledger, topups, credits, gap>>

\* select_and_update_campaign_contacts: some queued rows become the agent's, whoever
\* claimed them for a dial.
FetchMore(t) ==
  /\ \E C \in SUBSET {c \in Contacts : queue[c].state = "queued"} \ {{}} :
       queue' = [c \in Contacts |->
                   IF c \in C
                   THEN [queue[c] EXCEPT !.state = "assigned", !.holder = dial[t].agent]
                   ELSE queue[c]]
  /\ UNCHANGED <<dial, optOut, usage, row, job, ledger, topups, credits, gap>>

\* releaseAssignedQueueForUser, when the agent leaves the screen.
LeaveScreen(t) ==
  /\ queue' = [c \in Contacts |->
                 IF queue[c].holder = dial[t].agent /\ ~Finished(queue[c])
                 THEN Released(queue[c]) ELSE queue[c]]
  /\ UNCHANGED <<dial, optOut, usage, row, job, ledger, topups, credits, gap>>

DialStep ==
  \/ \E t \in Tabs : \/ \E c \in Contacts : StartDial(t, c)
                     \/ ClaimForDial(t) \/ CreateCall(t) \/ SaveCall(t)
                     \/ HangUpUntracked(t) \/ KillDial(t)
                     \/ \E u \in Usages : HangUp(t, u)
                     \/ FetchMore(t) \/ LeaveScreen(t)
  \/ \E c \in Contacts : Enqueue(c) /\ UNCHANGED dial

-----------------------------------------------------------------------------
(* Properties.                                                             *)

\* A call that is on has a row, by which the screen ends it and the claim refuses
\* another, or its request is still there to save or end it; what leaves a call adrift
\* is a request that was killed, a hang-up that failed too, and an answer of
\* calls.create that was lost, SID and all (hangUpUntrackedCall).
CallTracked ==
  \A u \in Usages :
    Live(u) => \/ Owned(<<u, "agent">>)
               \/ \E t \in Tabs : dial[t].call = u
               \/ usage[u].adrift

\* Once a call is saved no request gets to dial its contact again while it is on,
\* whoever asks, whatever callbacks and polls wrote of it and whatever happened to the
\* queue in between (claim_queue_entry_for_dial's "active_call").  Calls that are not
\* saved yet, or never will be, the claim does not see.
NotDialedAgain ==
  [][\A t \in Tabs, u \in Usages :
       /\ dial[t].pc = "claim" /\ dial'[t].pc = "create"
       /\ Live(u) /\ usage[u].contact = dial[t].contact
       => ~Owned(<<u, "agent">>)]_dial
=============================================================================
