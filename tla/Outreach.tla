------------------------------ MODULE Outreach ------------------------------
(***************************************************************************)
(* What a workspace's campaigns share: the contacts' queue and their       *)
(* opt-outs, the calls and texts at Twilio, the call and message rows that *)
(* follow them through status callbacks, worker jobs, polls and the open   *)
(* sync, and the ledger those write.  ManualDial and SmsDispatch place the *)
(* calls and send the texts.  A call of the manual dialer has two legs,    *)
(* each with a SID, a row and a debit of its own: "agent" rings the        *)
(* agent's browser, "contact" is dialed once the agent has answered.  A    *)
(* text is a "contact" leg.                                                *)
(***************************************************************************)
EXTENDS CampaignQueue, Integers, FiniteSets

CONSTANTS
  Usages,          \* bound: calls and texts Twilio is asked for
  FollowedCalls,   \* bound: the calls whose callbacks, jobs, polls and sweeps happen in time
  FollowedTexts,   \* bound: the texts whose delivery, callbacks, jobs and sweeps do
  Tabs,            \* browser tabs with a call screen
  Dispatchers,     \* bound: dispatch jobs and requests at a time
  NoContact,
  NoSender,
  NoUsage,
  Sessions,        \* Stripe checkout sessions
  Price,           \* of a leg, in credits
  TopUp,           \* credits a session buys
  OpeningCredits,
  Faults           \* what may go wrong: see each action

ASSUME OutreachConstantsOK ==
  /\ NoContact \notin Contacts
  /\ NoSender \notin Tabs \cup Dispatchers
  /\ NoUsage \notin Usages /\ FollowedCalls \cup FollowedTexts \subseteq Usages
  /\ Price \in Nat \ {0}
  /\ TopUp \in Nat
  /\ OpeningCredits \in Int
  /\ IsFiniteSet(Usages) /\ IsFiniteSet(Sessions)

VARIABLES
  queue,    \* campaign_queue, by contact
  optOut,   \* contacts with opt_out
  usage,    \* what Twilio knows of each call and text
  row,      \* the call and message rows, by leg
  job,      \* the side-effect jobs of the contact leg, by status
  ledger,   \* legs with a DEBIT
  topups,   \* sessions with a CREDIT
  credits,  \* workspace.credits
  gap       \* history: legs whose use went unbilled, see NoFreeUsage

outreachVars == <<queue, optOut, usage, row, job, ledger, topups, credits, gap>>

Sides == {"agent", "contact"}
Legs == Usages \X Sides
Senders == Tabs \cup Dispatchers
News == {"progress", "final"}

\* used: the sides that are billable, a text's from the start.
Usage == [kind : {"none", "call", "text"}, contact : Contacts \cup {NoContact},
          by : Senders \cup {NoSender},
          stage : {"none", "ringing", "talking", "accepted", "sent", "over"},
          used : SUBSET Sides,
          news : SUBSET News,     \* status callbacks on their way
          adrift : BOOLEAN]       \* history: its SID was lost, or it could not be hung up
NotPlaced == [kind |-> "none", contact |-> NoContact, by |-> NoSender, stage |-> "none",
            used |-> {}, news |-> {}, adrift |-> FALSE]

\* "stray": inserted without a workspace.  timed: a duration above 0, any text.
Row == [state : {"none", "open", "sent", "stray", "closed"}, timed : BOOLEAN]
NoRow == [state |-> "none", timed |-> FALSE]
Job == [News -> {"none", "queued", "dead", "done"}]

OutreachTypeOK ==
  /\ queue \in [Contacts -> Entry]
  /\ optOut \subseteq Contacts
  /\ usage \in [Usages -> Usage]
  /\ row \in [Legs -> Row]
  /\ job \in [Usages -> Job]
  /\ ledger \subseteq Legs
  /\ topups \subseteq Sessions
  /\ credits \in Int
  /\ gap \subseteq Legs

OutreachInit ==
  /\ queue = [c \in Contacts |-> Fresh]
  /\ optOut = {}
  /\ usage = [u \in Usages |-> NotPlaced]
  /\ row = [k \in Legs |-> NoRow]
  /\ job = [u \in Usages |-> [n \in News |-> "none"]]
  /\ ledger = {}
  /\ topups = {}
  /\ credits = OpeningCredits
  /\ gap = {}

Unused == {u \in Usages : usage[u].kind = "none"}
Live(u) == usage[u].stage \in {"ringing", "talking"}
Followed == {u \in FollowedCalls : usage[u].kind = "call"}
              \cup {u \in FollowedTexts : usage[u].kind = "text"}
Owned(k) == row[k].state \in {"open", "sent", "closed"}

\* Legs that are over and used something: what there is to bill.
Due == {k \in Legs : usage[k[1]].stage = "over" /\ k[2] \in usage[k[1]].used}

CreditsOK == credits > 0

-----------------------------------------------------------------------------
(* The ledger: apply_ledger_entry_and_sync_credits.                        *)

\* (mutant) The balance moves whether or not the entry is new.
Debit_Always(k) ==
  /\ ledger' = ledger \cup {k}
  /\ credits' = credits - Price

\* ON CONFLICT DO NOTHING: only the entry that was inserted moves the balance.
Debit(k) ==
  /\ ledger' = ledger \cup {k}
  /\ credits' = IF k \in ledger THEN credits ELSE credits - Price

CreditSession(s) ==
  /\ topups' = topups \cup {s}
  /\ credits' = IF s \in topups THEN credits ELSE credits + TopUp

NoDebit == UNCHANGED <<ledger, credits>>

\* (mutant) Every call that is over is billed, used or not.
BillTerminalCall_Untimed(k, r) == IF r.state = "closed" THEN Debit(k) ELSE NoDebit

\* billTerminalCallStatus, on the row as it is read.
BillTerminalCall(k, r) == IF r.state = "closed" /\ r.timed THEN Debit(k) ELSE NoDebit

\* A paid checkout, confirmed by the webhook, the poll or the redirect, each of
\* them any number of times.
ConfirmPayment(s) ==
  /\ CreditSession(s)
  /\ UNCHANGED <<queue, optOut, usage, row, job, ledger, gap>>

-----------------------------------------------------------------------------
(* Twilio.                                                                 *)

\* Twilio accepts a call or a text, as e describes it.
Accept(u, e) == usage' = [usage EXCEPT ![u] = e]

\* The agent's browser answers and the TwiML of /api/dial/$number dials the contact.
AgentAnswers(u) ==
  /\ usage[u].stage = "ringing"
  /\ usage' = [usage EXCEPT ![u].stage = "talking", ![u].used = {"agent"},
                            ![u].news = {"progress"}]
  /\ UNCHANGED <<queue, optOut, row, job, ledger, topups, credits, gap>>

\* Both legs end.  Only a contact leg reports it, and is billable if it was answered.
Ended(e, answered) ==
  IF e.stage = "talking"
  THEN [e EXCEPT !.stage = "over", !.news = @ \cup {"final"},
                 !.used = IF answered THEN Sides ELSE @]
  ELSE [e EXCEPT !.stage = "over"]

CallEnds(u) ==
  /\ Live(u)
  /\ \E answered \in BOOLEAN : usage' = [usage EXCEPT ![u] = Ended(@, answered)]
  /\ UNCHANGED <<queue, optOut, row, job, ledger, topups, credits, gap>>

TextMoves(u) ==
  /\ \/ /\ usage[u].stage = "accepted"
        /\ usage' = [usage EXCEPT ![u].stage = "sent", ![u].news = @ \cup {"progress"}]
     \/ /\ usage[u].stage \in {"accepted", "sent"}
        /\ usage' = [usage EXCEPT ![u].stage = "over", ![u].news = @ \cup {"final"}]
  /\ UNCHANGED <<queue, optOut, row, job, ledger, topups, credits, gap>>

-----------------------------------------------------------------------------
(* The status callbacks, and the jobs that bill.                           *)

\* Whether a request may stop after its first write.
Dies == IF "kill" \in Faults THEN BOOLEAN ELSE {FALSE}
Repeats == IF "replay" \in Faults THEN BOOLEAN ELSE {FALSE}

\* A callback is answered; Twilio may send it again.
Heard(u, n, again) ==
  usage' = [usage EXCEPT ![u].news = IF again THEN @ ELSE @ \ {n}]

\* No further word of the end of u: not on its way, not with the worker.
Silent(u, news) == "final" \notin news /\ job[u]["final"] \in {"none", "dead"}

Missed(k, really) == gap' = IF really /\ k \notin ledger THEN gap \cup {k} ELSE gap

\* A job is enqueued once by its key; one that was dead-lettered is revived.
Enqueued(j, key) == IF j[key] \in {"none", "dead"} THEN [j EXCEPT ![key] = "queued"] ELSE j

\* The row a callback leaves.  A terminal status is kept; the other columns are
\* written as they come, and a callback that is not terminal has no duration.  The
\* workspace comes from the agent leg's row: without it the row is nobody's.
CallUpserted(u, n) ==
  LET r == row[<<u, "contact">>]
  IN IF r.state = "none" /\ ~Owned(<<u, "agent">>)
     THEN [state |-> "stray", timed |-> FALSE]
     ELSE [state |-> IF n = "final" \/ r.state = "closed" THEN "closed" ELSE "open",
           timed |-> n = "final" /\ "contact" \in usage[u].used]

\* POST /api/call-status: the row, then a job keyed by the status the row now has.
\* A second write of a stray row breaks calls_pkey and is answered with an error.
CallStatus(u, n) ==
  /\ usage[u].kind = "call" /\ n \in usage[u].news
  /\ \E again \in Repeats, died \in Dies :
       LET k == <<u, "contact">>
           r == CallUpserted(u, n)
           key == IF n = "final" \/ r.state = "closed" THEN "final" ELSE "progress"
           news == IF again THEN usage[u].news ELSE usage[u].news \ {n}
       IN /\ Heard(u, n, again)
          /\ \/ row[k].state = "stray" /\ UNCHANGED <<row, job, gap>>
             \/ /\ row[k].state # "stray"
                /\ row' = [row EXCEPT ![k] = r]
                /\ job' = IF died THEN job ELSE [job EXCEPT ![u] = Enqueued(@, key)]
                /\ Missed(k, \/ r.state = "stray"
                             \/ n = "progress" /\ row[k].timed
                             \/ n = "final" /\ died /\ Silent(u, news))
  /\ UNCHANGED <<queue, optOut, ledger, topups, credits>>

\* POST /api/sms/status: an error while the message has no row; otherwise the
\* guarded status, then a job keyed by the status that was reported.
SmsStatus(u, n) ==
  /\ usage[u].kind = "text" /\ n \in usage[u].news
  /\ \E again \in Repeats, died \in Dies :
       LET k == <<u, "contact">>
           news == IF again THEN usage[u].news ELSE usage[u].news \ {n}
       IN /\ Heard(u, n, again)
          /\ \/ row[k].state = "none" /\ UNCHANGED <<row, job, gap>>
             \/ /\ row[k].state # "none"
                /\ row' = [row EXCEPT ![k].state =
                             IF n = "final" \/ @ = "closed" THEN "closed" ELSE "sent"]
                /\ job' = IF died THEN job ELSE [job EXCEPT ![u] = Enqueued(@, n)]
                /\ Missed(k, /\ usage[u].stage = "over"
                             /\ n = "progress" \/ died
                             /\ Silent(u, news))
  /\ UNCHANGED <<queue, optOut, ledger, topups, credits>>

\* A callback that never arrives.  The open sync still finds a row that is open.
LoseCallback(u, n) ==
  /\ "lost" \in Faults
  /\ n \in usage[u].news
  /\ Heard(u, n, FALSE)
  /\ LET k == <<u, "contact">>
     IN Missed(k, /\ n = "final" /\ Silent(u, usage[u].news \ {n})
                  /\ row[k].state \in {"sent", "closed"})
  /\ UNCHANGED <<queue, optOut, row, job, ledger, topups, credits>>

\* A handler may throw, and its worker die, before its debit or after it.  Either way
\* the job is run again, and dead-lettered after its last attempt; JobQueue counts them.
Breaks == {"kill", "dberror"} \cap Faults # {}

\* call_status_side_effects bills the row as it is, sms_status_side_effects the
\* status it was given.
RunJob(u, n) ==
  /\ job[u][n] = "queued"
  /\ \E end \in {"done"} \cup (IF Breaks THEN {"queued", "dead"} ELSE {}) :
       job' = [job EXCEPT ![u][n] = end]
  /\ LET k == <<u, "contact">>
     IN IF usage[u].kind = "call" THEN BillTerminalCall(k, row[k])
        ELSE IF n = "final" THEN Debit(k)
        ELSE NoDebit
  /\ UNCHANGED <<queue, optOut, usage, row, topups, gap>>

\* The last attempt breaks before its debit.
BuryJob(u, n) ==
  /\ Breaks /\ job[u][n] = "queued"
  /\ job' = [job EXCEPT ![u][n] = "dead"]
  /\ LET k == <<u, "contact">>
     IN Missed(k, n = "final" /\ (usage[u].kind = "call" => row[k].timed))
  /\ UNCHANGED <<queue, optOut, usage, row, ledger, topups, credits>>

-----------------------------------------------------------------------------
(* What asks Twilio.                                                       *)

CallRead(k) == [state |-> "closed", timed |-> k[2] \in usage[k[1]].used]

\* The call screen's poll of a call that is over: it writes the row and bills
\* nothing.  It reads the agent's leg only while there is no contact's.
PollCall(k) ==
  /\ usage[k[1]].kind = "call" /\ usage[k[1]].stage = "over"
  /\ row[k].state = "open"
  /\ k[2] = "agent" => ~Owned(<<k[1], "contact">>)
  /\ row' = [row EXCEPT ![k] = CallRead(k)]
  /\ Missed(k, k[2] = "agent" \/ Silent(k[1], usage[k[1]].news))
  /\ UNCHANGED <<queue, optOut, usage, job, ledger, topups, credits>>

\* (mutant) The sweep repairs the row and leaves the debit to the callback.
OpenSyncCall_Unbilled(k) ==
  /\ usage[k[1]].kind = "call" /\ usage[k[1]].stage = "over"
  /\ row[k].state = "open"
  /\ row' = [row EXCEPT ![k] = CallRead(k)]
  /\ UNCHANGED <<queue, optOut, usage, job, ledger, topups, credits, gap>>

\* triggerTwilioOpenSync for a call: the row, then its debit.
OpenSyncCall(k) ==
  /\ usage[k[1]].kind = "call" /\ usage[k[1]].stage = "over"
  /\ row[k].state = "open"
  /\ row' = [row EXCEPT ![k] = CallRead(k)]
  /\ \/ BillTerminalCall(k, CallRead(k)) /\ UNCHANGED gap
     \/ /\ "kill" \in Faults
        /\ NoDebit
        /\ Missed(k, k[2] = "agent" \/ Silent(k[1], usage[k[1]].news))
  /\ UNCHANGED <<queue, optOut, usage, job, topups>>

\* triggerTwilioOpenSync for a message: "sent" is not among the statuses it looks for.
OpenSyncText(k) ==
  /\ usage[k[1]].kind = "text" /\ usage[k[1]].stage \in {"sent", "over"}
  /\ row[k].state = "open"
  /\ LET over == usage[k[1]].stage = "over"
     IN /\ row' = [row EXCEPT ![k].state = IF over THEN "closed" ELSE "sent"]
        /\ \/ /\ job' = IF over THEN [job EXCEPT ![k[1]] = Enqueued(@, "final")] ELSE job
              /\ UNCHANGED gap
           \/ /\ "kill" \in Faults
              /\ UNCHANGED job
              /\ Missed(k, over /\ Silent(k[1], usage[k[1]].news))
  /\ UNCHANGED <<queue, optOut, usage, ledger, topups, credits>>

-----------------------------------------------------------------------------
(* Contacts.                                                               *)

\* STOP: the flag, then the queue, whose errors are only logged.
Stop(c) ==
  /\ optOut' = optOut \cup {c}
  /\ queue' \in {DequeueContact(queue, c, FALSE, NoAgent)} \cup
                (IF "dberror" \in Faults THEN {queue} ELSE {})
  /\ UNCHANGED <<usage, row, job, ledger, topups, credits, gap>>

\* POST /api/queues: contacts are added, or put back.
Enqueue(c) ==
  /\ queue' = EnqueueEntry(queue, c, TRUE)
  /\ UNCHANGED <<optOut, usage, row, job, ledger, topups, credits, gap>>

BillingStep ==
  \/ \E s \in Sessions : ConfirmPayment(s)
  \/ \E u \in Followed, n \in News :
       CallStatus(u, n) \/ SmsStatus(u, n) \/ LoseCallback(u, n)
         \/ RunJob(u, n) \/ BuryJob(u, n)
  \/ \E u \in Usages : AgentAnswers(u) \/ CallEnds(u)
  \/ \E u \in Followed : TextMoves(u)
  \/ \E k \in Followed \X Sides : PollCall(k) \/ OpenSyncCall(k) \/ OpenSyncText(k)

-----------------------------------------------------------------------------
(* Properties.                                                             *)

\* Something is still going to bill u.
Pending(u) == usage[u].news # {} \/ \E n \in News : job[u][n] = "queued"

\* A leg that used something and whose row is closed, with nothing left to bill it, is
\* billed, unless it fell into one of the gaps of the code: a callback that came
\* late and took the duration away, a poll that closed the row of a call whose last
\* callback was lost, a text last seen as "sent", a process that died between the
\* row and its debit, a job that was dead-lettered before its debit, a row that was
\* inserted without a workspace.
NoFreeUsage ==
  \A k \in Legs :
    k \in Due /\ row[k].state \notin {"none", "open"} /\ ~Pending(k[1])
      => k \in ledger \cup gap
=============================================================================
