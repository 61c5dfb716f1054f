--------------------------- MODULE Outbound_proofs ---------------------------
(***************************************************************************)
(* Theorems about Outbound, for any number of contacts, calls, texts,      *)
(* screens and jobs, and any faults.                                       *)
(***************************************************************************)
EXTENDS Outbound, NumberRental_proofs, FiniteSetTheorems, TLAPS

-----------------------------------------------------------------------------
(* Types.                                                                  *)

LEMMA FreshEntry == Fresh \in Entry
BY QueueConstantsOK DEF Fresh, Entry

LEMMA DequeuedEntry == ASSUME NEW e \in Entry PROVE Dequeued(e) \in Entry
BY DEF Dequeued, Entry

LEMMA ReleasedEntry == ASSUME NEW e \in Entry PROVE Released(e) \in Entry
BY DEF Released, Entry

LEMMA DequeuedTable ==
  ASSUME NEW q \in [Contacts -> Entry], NEW c, NEW fanOut, NEW a
  PROVE  DequeueContact(q, c, fanOut, a) \in [Contacts -> Entry]
BY DequeuedEntry DEF DequeueContact

LEMMA EnqueuedTable ==
  ASSUME NEW q \in [Contacts -> Entry], NEW c \in Contacts
  PROVE  EnqueueEntry(q, c, TRUE) \in [Contacts -> Entry]
BY FreshEntry, ReleasedEntry DEF EnqueueEntry

LEMMA DebitTypes ==
  ASSUME OutreachTypeOK, NEW k \in Legs, Debit(k) \/ NoDebit
  PROVE  ledger' \subseteq Legs /\ credits' \in Int
<1>1. Price \in Int BY OutreachConstantsOK
<1>2. QED BY <1>1 DEF Debit, NoDebit, OutreachTypeOK

LEMMA BillTypes ==
  ASSUME OutreachTypeOK, NEW k \in Legs, NEW r, BillTerminalCall(k, r)
  PROVE  ledger' \subseteq Legs /\ credits' \in Int
BY DebitTypes DEF BillTerminalCall

LEMMA EndedType ==
  ASSUME NEW e \in Usage, NEW answered \in BOOLEAN
  PROVE  Ended(e, answered) \in Usage
BY DEF Ended, Usage, News, Sides

LEMMA NewsType ==
  ASSUME NEW e \in Usage, NEW S \in SUBSET News
  PROVE  [e EXCEPT !.news = S] \in Usage
BY DEF Usage

LEMMA StageType ==
  ASSUME NEW e \in Usage,
         NEW s \in {"none", "ringing", "talking", "accepted", "sent", "over"},
         NEW S \in SUBSET News
  PROVE  [e EXCEPT !.stage = s, !.news = S] \in Usage
BY DEF Usage

LEMMA AdriftType ==
  ASSUME NEW e \in Usage
  PROVE  [e EXCEPT !.adrift = TRUE] \in Usage
BY DEF Usage

LEMMA GapType ==
  ASSUME OutreachTypeOK, NEW k \in Legs, NEW really, Missed(k, really)
  PROVE  gap' \subseteq Legs
BY DEF Missed, OutreachTypeOK

LEMMA HeardType ==
  ASSUME OutreachTypeOK, NEW u \in Usages, NEW n, NEW again, Heard(u, n, again)
  PROVE  usage' \in [Usages -> Usage]
<1>1. usage[u] \in Usage /\ usage[u].news \subseteq News BY DEF OutreachTypeOK, Usage
<1>2. [usage[u] EXCEPT !.news = IF again THEN @ ELSE @ \ {n}] \in Usage BY <1>1, NewsType
<1>3. usage' = [usage EXCEPT ![u] = [usage[u] EXCEPT !.news = IF again THEN @ ELSE @ \ {n}]]
  BY DEF Heard
<1>4. QED BY <1>2, <1>3 DEF OutreachTypeOK

LEMMA RowType ==
  ASSUME NEW r \in Row, NEW s \in {"none", "open", "sent", "stray", "closed"}
  PROVE  [r EXCEPT !.state = s] \in Row
BY DEF Row

LEMMA EnqueuedType ==
  ASSUME NEW j \in Job, NEW n \in News
  PROVE  Enqueued(j, n) \in Job
BY DEF Enqueued, Job

LEMMA CallStatusTypes ==
  ASSUME OutreachTypeOK, NEW u \in Usages, NEW n \in News, CallStatus(u, n)
  PROVE  OutreachTypeOK'
<1> DEFINE k == <<u, "contact">>
           r == CallUpserted(u, n)
           key == IF n = "final" \/ r.state = "closed" THEN "final" ELSE "progress"
<1>1. k \in Legs BY DEF Legs, Sides
<1>2. r \in Row BY DEF CallUpserted, Row
<1>3. key \in News BY DEF News
<1>4. PICK again \in Repeats, died \in Dies :
        /\ Heard(u, n, again)
        /\ \/ row[k].state = "stray" /\ UNCHANGED <<row, job, gap>>
           \/ /\ row' = [row EXCEPT ![k] = r]
              /\ job' = IF died THEN job ELSE [job EXCEPT ![u] = Enqueued(@, key)]
              /\ \E really : Missed(k, really)
  BY DEF CallStatus
<1> HIDE DEF k, r, key
<1>5. usage' \in [Usages -> Usage] BY <1>4, HeardType
<1>6. gap' \subseteq Legs BY <1>1, <1>4, GapType DEF OutreachTypeOK
<1>7. row' \in [Legs -> Row] BY <1>2, <1>4 DEF OutreachTypeOK
<1>8. job' \in [Usages -> Job] BY <1>3, <1>4, EnqueuedType DEF OutreachTypeOK
<1>9. UNCHANGED <<queue, optOut, ledger, topups, credits>> BY DEF CallStatus
<1>10. QED BY <1>5, <1>6, <1>7, <1>8, <1>9 DEF OutreachTypeOK

LEMMA SmsStatusTypes ==
  ASSUME OutreachTypeOK, NEW u \in Usages, NEW n \in News, SmsStatus(u, n)
  PROVE  OutreachTypeOK'
<1> DEFINE k == <<u, "contact">>
           s == IF n = "final" \/ row[k].state = "closed" THEN "closed" ELSE "sent"
<1>1. k \in Legs BY DEF Legs, Sides
<1>2. s \in {"none", "open", "sent", "stray", "closed"} OBVIOUS
<1>3. PICK again \in Repeats, died \in Dies :
        /\ Heard(u, n, again)
        /\ \/ UNCHANGED <<row, job, gap>>
           \/ /\ row' = [row EXCEPT ![k] = [row[k] EXCEPT !.state = s]]
              /\ job' = IF died THEN job ELSE [job EXCEPT ![u] = Enqueued(@, n)]
              /\ \E really : Missed(k, really)
  BY DEF SmsStatus
<1> HIDE DEF k, s
<1>4. usage' \in [Usages -> Usage] BY <1>3, HeardType
<1>5. gap' \subseteq Legs BY <1>1, <1>3, GapType DEF OutreachTypeOK
<1>6. row[k] \in Row BY <1>1 DEF OutreachTypeOK
<1>7. [row[k] EXCEPT !.state = s] \in Row BY <1>2, <1>6, RowType
<1>8. row' \in [Legs -> Row] BY <1>3, <1>7 DEF OutreachTypeOK
<1>9. job' \in [Usages -> Job] BY <1>3, EnqueuedType DEF OutreachTypeOK
<1>10. UNCHANGED <<queue, optOut, ledger, topups, credits>> BY DEF SmsStatus
<1>11. QED BY <1>4, <1>5, <1>8, <1>9, <1>10 DEF OutreachTypeOK

LEMMA LoseCallbackTypes ==
  ASSUME OutreachTypeOK, NEW u \in Usages, NEW n \in News, LoseCallback(u, n)
  PROVE  OutreachTypeOK'
<1>1. <<u, "contact">> \in Legs BY DEF Legs, Sides
<1>2. usage' \in [Usages -> Usage] BY HeardType DEF LoseCallback
<1>3. gap' \subseteq Legs BY <1>1, GapType DEF LoseCallback
<1>4. QED BY <1>2, <1>3 DEF LoseCallback, OutreachTypeOK

LEMMA RunJobTypes ==
  ASSUME OutreachTypeOK, NEW u \in Usages, NEW n \in News, RunJob(u, n)
  PROVE  OutreachTypeOK'
<1>1. <<u, "contact">> \in Legs BY DEF Legs, Sides
<1>2. ledger' \subseteq Legs /\ credits' \in Int
  BY <1>1, BillTypes, DebitTypes DEF RunJob
<1>3. PICK end \in {"done", "queued", "dead"} : job' = [job EXCEPT ![u] = [job[u] EXCEPT ![n] = end]]
  BY DEF RunJob
<1>4. [job[u] EXCEPT ![n] = end] \in Job BY DEF Job, OutreachTypeOK
<1>5. job' \in [Usages -> Job] BY <1>3, <1>4 DEF OutreachTypeOK
<1>6. QED BY <1>2, <1>5 DEF RunJob, OutreachTypeOK

LEMMA BuryJobTypes ==
  ASSUME OutreachTypeOK, NEW u \in Usages, NEW n \in News, BuryJob(u, n)
  PROVE  OutreachTypeOK'
<1>1. <<u, "contact">> \in Legs BY DEF Legs, Sides
<1>2. [job[u] EXCEPT ![n] = "dead"] \in Job BY DEF Job, OutreachTypeOK
<1>3. job' \in [Usages -> Job] BY <1>2 DEF BuryJob, OutreachTypeOK
<1>4. gap' \subseteq Legs BY <1>1, GapType DEF BuryJob
<1>5. QED BY <1>3, <1>4 DEF BuryJob, OutreachTypeOK

LEMMA PollCallTypes ==
  ASSUME OutreachTypeOK, NEW k \in Legs, PollCall(k)
  PROVE  OutreachTypeOK'
<1>1. CallRead(k) \in Row BY DEF CallRead, Row
<1>2. row' \in [Legs -> Row] BY <1>1 DEF PollCall, OutreachTypeOK
<1>3. gap' \subseteq Legs BY GapType DEF PollCall
<1>4. QED BY <1>2, <1>3 DEF PollCall, OutreachTypeOK

LEMMA OpenSyncCallTypes ==
  ASSUME OutreachTypeOK, NEW k \in Legs, OpenSyncCall(k)
  PROVE  OutreachTypeOK'
<1>1. CallRead(k) \in Row BY DEF CallRead, Row
<1>2. row' \in [Legs -> Row] BY <1>1 DEF OpenSyncCall, OutreachTypeOK
<1>3. gap' \subseteq Legs BY GapType DEF OpenSyncCall, OutreachTypeOK
<1>4. ledger' \subseteq Legs /\ credits' \in Int BY BillTypes, DebitTypes DEF OpenSyncCall
<1>5. QED BY <1>2, <1>3, <1>4 DEF OpenSyncCall, OutreachTypeOK

LEMMA OpenSyncTextTypes ==
  ASSUME OutreachTypeOK, NEW k \in Legs, OpenSyncText(k)
  PROVE  OutreachTypeOK'
<1> DEFINE s == IF usage[k[1]].stage = "over" THEN "closed" ELSE "sent"
<1>1. s \in {"none", "open", "sent", "stray", "closed"} OBVIOUS
<1>2. row' = [row EXCEPT ![k] = [row[k] EXCEPT !.state = s]] BY DEF OpenSyncText
<1> HIDE DEF s
<1>3. row[k] \in Row BY DEF OutreachTypeOK
<1>4. row' \in [Legs -> Row] BY <1>1, <1>2, <1>3, RowType DEF OutreachTypeOK
<1>5. k[1] \in Usages BY DEF Legs
<1>6. job' = job \/ job' = [job EXCEPT ![k[1]] = Enqueued(@, "final")] BY DEF OpenSyncText
<1>7. job' \in [Usages -> Job] BY <1>5, <1>6, EnqueuedType DEF OutreachTypeOK, News
<1>8. gap' \subseteq Legs BY GapType DEF OpenSyncText, OutreachTypeOK
<1>9. QED BY <1>4, <1>7, <1>8 DEF OpenSyncText, OutreachTypeOK

\* What happens at Twilio.
LEMMA CallTypes ==
  ASSUME OutreachTypeOK, NEW u \in Usages, AgentAnswers(u) \/ CallEnds(u) \/ TextMoves(u)
  PROVE  OutreachTypeOK'
<1>1. usage[u] \in Usage /\ usage[u].news \subseteq News BY DEF OutreachTypeOK, Usage
<1>2. CASE AgentAnswers(u)
  <2>1. [usage[u] EXCEPT !.stage = "talking", !.used = {"agent"}, !.news = {"progress"}] \in Usage
    BY <1>1 DEF Usage, Sides, News
  <2>2. usage' = [usage EXCEPT ![u] = [usage[u] EXCEPT !.stage = "talking", !.used = {"agent"},
                                                       !.news = {"progress"}]]
    BY <1>2 DEF AgentAnswers
  <2>3. QED BY <1>2, <2>1, <2>2 DEF AgentAnswers, OutreachTypeOK
<1>3. CASE CallEnds(u)
  BY <1>1, <1>3, EndedType DEF CallEnds, OutreachTypeOK
<1>4. CASE TextMoves(u)
  <2>1. PICK s \in {"sent", "over"}, n \in News :
          usage' = [usage EXCEPT ![u] = [usage[u] EXCEPT !.stage = s, !.news = usage[u].news \cup {n}]]
    BY <1>4 DEF TextMoves, News
  <2>2. [usage[u] EXCEPT !.stage = s, !.news = usage[u].news \cup {n}] \in Usage
    BY <1>1, StageType
  <2>3. QED BY <1>4, <2>1, <2>2 DEF TextMoves, OutreachTypeOK
<1>5. QED BY <1>2, <1>3, <1>4

LEMMA FollowedUsages == Followed \subseteq Usages
BY OutreachConstantsOK DEF Followed

LEMMA BillingTypes == ASSUME OutreachTypeOK, BillingStep PROVE OutreachTypeOK'
<1>1. ASSUME NEW s \in Sessions, ConfirmPayment(s) PROVE OutreachTypeOK'
  <2>1. TopUp \in Int BY OutreachConstantsOK
  <2>2. QED BY <1>1, <2>1 DEF ConfirmPayment, CreditSession, OutreachTypeOK
<1>2. ASSUME NEW u \in Followed, NEW n \in News,
             \/ CallStatus(u, n) \/ SmsStatus(u, n) \/ LoseCallback(u, n)
             \/ RunJob(u, n) \/ BuryJob(u, n)
      PROVE  OutreachTypeOK'
  BY <1>2, FollowedUsages, CallStatusTypes, SmsStatusTypes, LoseCallbackTypes, RunJobTypes,
     BuryJobTypes
<1>3. ASSUME NEW u \in Usages, AgentAnswers(u) \/ CallEnds(u) \/ TextMoves(u)
      PROVE  OutreachTypeOK'
  BY <1>3, CallTypes
<1>4. ASSUME NEW k \in Followed \X Sides, PollCall(k) \/ OpenSyncCall(k) \/ OpenSyncText(k)
      PROVE  OutreachTypeOK'
  <2>1. k \in Legs BY FollowedUsages DEF Legs
  <2>2. QED BY <1>4, <2>1, PollCallTypes, OpenSyncCallTypes, OpenSyncTextTypes
<1>5. QED BY <1>1, <1>2, <1>3, <1>4, FollowedUsages DEF BillingStep

LEMMA GotoType ==
  ASSUME DialTypeOK, NEW t \in Tabs, NEW p \in {"claim", "create", "save", "hangup"}, Goto(t, p)
  PROVE  DialTypeOK'
BY DEF DialTypeOK, Dial, Goto

LEMMA RestType == ASSUME DialTypeOK, NEW t \in Tabs, Rest(t) PROVE DialTypeOK'
BY DEF DialTypeOK, Dial, Rest, Idle

LEMMA HolderEntry ==
  ASSUME NEW e \in Entry, NEW a \in Agents \cup {NoAgent}, NEW s \in {"queued", "assigned"}
  PROVE  /\ [e EXCEPT !.holder = a] \in Entry
         /\ [e EXCEPT !.state = s, !.holder = a] \in Entry
BY DEF Entry

\* What FetchMore makes of the queue.
Fetched(q, C, a) ==
  [c \in Contacts |-> IF c \in C THEN [q[c] EXCEPT !.state = "assigned", !.holder = a] ELSE q[c]]

LEMMA FetchedTable ==
  ASSUME NEW q \in [Contacts -> Entry], NEW C, NEW a \in Agents \cup {NoAgent}
  PROVE  Fetched(q, C, a) \in [Contacts -> Entry]
<1>1. ASSUME NEW c \in Contacts
      PROVE  (IF c \in C THEN [q[c] EXCEPT !.state = "assigned", !.holder = a] ELSE q[c]) \in Entry
  BY HolderEntry
<1>2. QED BY <1>1 DEF Fetched

\* The steps of a request to /api/dial.
LEMMA DialTypes ==
  ASSUME OutreachTypeOK, DialTypeOK, NEW t \in Tabs,
         \/ \E c \in Contacts : StartDial(t, c)
         \/ ClaimForDial(t) \/ CreateCall(t) \/ SaveCall(t) \/ HangUpUntracked(t) \/ KillDial(t)
  PROVE  OutreachTypeOK' /\ DialTypeOK'
<1>1. /\ dial[t] \in Dial
      /\ dial[t].contact \in Contacts \cup {NoContact}
      /\ dial[t].agent \in Agents \cup {NoAgent}
      /\ dial[t].call \in Usages \cup {NoUsage}
  BY DEF DialTypeOK, Dial
<1>2. ASSUME NEW c \in Contacts, StartDial(t, c) PROVE OutreachTypeOK' /\ DialTypeOK'
  <2>1. [dial[t] EXCEPT !.pc = "claim", !.contact = c] \in Dial BY <1>1 DEF Dial
  <2>2. dial' = [dial EXCEPT ![t] = [dial[t] EXCEPT !.pc = "claim", !.contact = c]]
    BY <1>2 DEF StartDial
  <2>3. QED BY <1>2, <2>1, <2>2 DEF StartDial, outreachVars, OutreachTypeOK, DialTypeOK
<1>3. CASE ClaimForDial(t)
  <2> DEFINE c == dial[t].contact
  <2>1. \/ queue' = queue
        \/ queue' = [queue EXCEPT ![c] = [queue[c] EXCEPT !.holder = dial[t].agent]]
    BY <1>3 DEF ClaimForDial
  <2>2. ASSUME c \in Contacts PROVE [queue[c] EXCEPT !.holder = dial[t].agent] \in Entry
    BY <1>1, <2>2, HolderEntry DEF OutreachTypeOK
  <2>3. queue' \in [Contacts -> Entry] BY <1>1, <2>1, <2>2 DEF OutreachTypeOK
  <2>4. DialTypeOK' BY <1>3, GotoType, RestType DEF ClaimForDial
  <2>5. QED BY <1>3, <2>3, <2>4 DEF ClaimForDial, OutreachTypeOK
<1>4. CASE CreateCall(t)
  <2>1. Ringing(t) \in Usage BY <1>1 DEF Ringing, NotPlaced, Usage, Senders, Sides, News
  <2>2. [Ringing(t) EXCEPT !.adrift = TRUE] \in Usage BY <2>1, AdriftType
  <2>3. usage' \in [Usages -> Usage] BY <1>4, <2>1, <2>2 DEF CreateCall, Accept, OutreachTypeOK
  <2>4. ASSUME NEW u \in Unused, dial' = [dial EXCEPT ![t].pc = "save", ![t].call = u]
        PROVE  DialTypeOK'
    BY <2>4 DEF DialTypeOK, Dial, Unused
  <2>5. DialTypeOK' BY <1>4, <2>4, RestType DEF CreateCall, DialTypeOK
  <2>6. QED BY <1>4, <2>3, <2>5 DEF CreateCall, OutreachTypeOK
<1>5. CASE SaveCall(t)
  <2> DEFINE k == <<dial[t].call, "agent">>
  <2>1. \/ row' = row
        \/ row' = [row EXCEPT ![k] = [row[k] EXCEPT !.state = "open"]]
    BY <1>5 DEF SaveCall
  <2>2. ASSUME k \in Legs PROVE [row[k] EXCEPT !.state = "open"] \in Row
    BY <2>2, RowType DEF OutreachTypeOK
  <2> HIDE DEF k
  <2>3. row' \in [Legs -> Row] BY <2>1, <2>2 DEF OutreachTypeOK
  <2>4. DialTypeOK' BY <1>5, GotoType, RestType DEF SaveCall
  <2>5. QED BY <1>5, <2>3, <2>4 DEF SaveCall, OutreachTypeOK
<1>6. CASE HangUpUntracked(t) \/ KillDial(t)
  <2> DEFINE u == dial[t].call
  <2>1. PICK e : /\ usage' = usage \/ usage' = [usage EXCEPT ![u] = e]
                 /\ \/ e = [usage[u] EXCEPT !.adrift = TRUE]
                    \/ e = usage[u]
                    \/ \E answered \in BOOLEAN : e = Ended(usage[u], answered)
    BY <1>6 DEF HangUpUntracked, KillDial
  <2>2. ASSUME u \in Usages PROVE e \in Usage
    BY <2>1, <2>2, EndedType, AdriftType DEF OutreachTypeOK
  <2>3. usage' \in [Usages -> Usage] BY <2>1, <2>2 DEF OutreachTypeOK
  <2>4. DialTypeOK' BY <1>6, RestType DEF HangUpUntracked, KillDial
  <2>5. QED BY <1>6, <2>3, <2>4 DEF HangUpUntracked, KillDial, OutreachTypeOK
<1>7. QED BY <1>2, <1>3, <1>4, <1>5, <1>6

\* The rest of the screen.
LEMMA ScreenTypes ==
  ASSUME OutreachTypeOK, DialTypeOK, NEW t \in Tabs,
         \/ \E u \in Usages : HangUp(t, u)
         \/ FetchMore(t) \/ LeaveScreen(t)
  PROVE  OutreachTypeOK' /\ DialTypeOK'
<1>1. dial[t].agent \in Agents \cup {NoAgent} BY DEF DialTypeOK, Dial
<1>2. ASSUME NEW u \in Usages, HangUp(t, u) PROVE OutreachTypeOK' /\ DialTypeOK'
  <2>1. PICK answered \in BOOLEAN, fanOut \in BOOLEAN :
          /\ usage' = [usage EXCEPT ![u] = IF Live(u) THEN Ended(@, answered) ELSE @]
          /\ queue' = DequeueContact(queue, usage[u].contact, fanOut, dial[t].agent)
    BY <1>2 DEF HangUp
  <2>2. usage' \in [Usages -> Usage] BY <2>1, EndedType DEF OutreachTypeOK
  <2>3. queue' \in [Contacts -> Entry] BY <2>1, DequeuedTable DEF OutreachTypeOK
  <2>4. QED BY <1>2, <2>2, <2>3 DEF HangUp, OutreachTypeOK, DialTypeOK
<1>3. CASE FetchMore(t)
  <2>1. PICK C \in SUBSET Contacts : queue' = Fetched(queue, C, dial[t].agent)
    BY <1>3 DEF FetchMore, Fetched
  <2>2. queue' \in [Contacts -> Entry] BY <1>1, <2>1, FetchedTable DEF OutreachTypeOK
  <2>3. QED BY <1>3, <2>2 DEF FetchMore, OutreachTypeOK, DialTypeOK
<1>4. CASE LeaveScreen(t)
  <2>1. queue' \in [Contacts -> Entry] BY <1>4, ReleasedEntry DEF LeaveScreen, OutreachTypeOK
  <2>2. QED BY <1>4, <2>1 DEF LeaveScreen, OutreachTypeOK, DialTypeOK
<1>5. QED BY <1>2, <1>3, <1>4

LEMMA EnqueueTypes ==
  ASSUME OutreachTypeOK, NEW c \in Contacts, Enqueue(c)
  PROVE  OutreachTypeOK'
BY EnqueuedTable DEF Enqueue, OutreachTypeOK

LEMMA StopTypes ==
  ASSUME OutreachTypeOK, NEW c \in Contacts, Stop(c)
  PROVE  OutreachTypeOK'
<1>1. \E fanOut \in BOOLEAN :
        queue' = queue \/ queue' = DequeueContact(queue, c, fanOut, NoAgent)
  BY Zenon DEF Stop
<1>2. queue' \in [Contacts -> Entry] BY <1>1, DequeuedTable DEF OutreachTypeOK
<1>3. QED BY <1>2 DEF Stop, OutreachTypeOK

LEMMA DialStepTypes ==
  ASSUME OutreachTypeOK, DialTypeOK, DialStep
  PROVE  OutreachTypeOK' /\ DialTypeOK'
BY DialTypes, ScreenTypes, EnqueueTypes DEF DialStep, DialTypeOK

-----------------------------------------------------------------------------
(* Types of the dispatch jobs.                                             *)

\* A job that waits has an attempt left.
GoodRun == {r \in Run : r.phase = "waiting" => r.tries < MaxTries}
GoodRuns == run \in [Dispatchers -> GoodRun]

LEMMA NowhereType == Nowhere \in [Contacts -> Step]
BY DEF Nowhere, Step

LEMMA NoRunType == NoRun \in GoodRun /\ NewJob \in GoodRun
<1>1. 0 \in 0..MaxTries /\ 0 < MaxTries BY DispatchConstantsOK
<1>2. QED BY <1>1, NowhereType DEF NoRun, NewJob, Run, GoodRun

LEMMA FailedType == ASSUME NEW r \in Run PROVE Failed(r) \in GoodRun
<1>1. ASSUME r.tries < MaxTries PROVE [NewJob EXCEPT !.tries = r.tries] \in GoodRun
  BY <1>1, NoRunType DEF Run, GoodRun
<1>2. QED BY <1>1, NoRunType DEF Failed

LEMMA ReturnedType == ASSUME NEW r \in Run PROVE Returned(r) \in GoodRun
<1>1. [r EXCEPT !.phase = "ending", !.at = Nowhere, !.more = FALSE,
               !.stopped = {}, !.texted = {}] \in GoodRun
  BY NowhereType DEF Run, GoodRun
<1>2. QED BY <1>1, NoRunType DEF Returned

LEMMA PutType ==
  ASSUME GoodRuns, NEW d \in Dispatchers, NEW r \in GoodRun, Put(d, r)
  PROVE  GoodRuns'
BY DEF Put, GoodRuns

LEMMA SuccessorTypes ==
  ASSUME SmsTypeOK, GoodRuns, OutreachTypeOK, NEW d \in Dispatchers, NEW r \in Run, EnqueueSuccessor(d, r)
  PROVE  GoodRuns' /\ halted' \in BOOLEAN /\ missed' \subseteq Contacts
<1>1. Returned(r) \in GoodRun /\ NewJob \in GoodRun BY ReturnedType, NoRunType
<1>2. CASE Jobs = {d}
  <2>1. PICK e \in Dispatchers : run' = [run EXCEPT ![d] = Returned(r), ![e] = NewJob]
    BY <1>2 DEF EnqueueSuccessor
  <2>2. GoodRuns' BY <1>1, <2>1 DEF GoodRuns
  <2>3. QED BY <1>2, <2>2 DEF EnqueueSuccessor, SmsTypeOK
<1>3. CASE Jobs # {d}
  <2>1. GoodRuns' BY <1>1, <1>3, PutType DEF EnqueueSuccessor
  <2>2. QED BY <1>3, <2>1 DEF EnqueueSuccessor, SmsTypeOK, Queued
<1>4. QED BY <1>2, <1>3

LEMMA SnapshotType ==
  ASSUME GoodRuns, NEW d \in Dispatchers, NEW r \in Run, Snapshot(d, r)
  PROVE  GoodRuns'
<1>1. PICK S \in SUBSET Queued, quiet \in SUBSET Contacts :
        Put(d, [r EXCEPT !.phase = "sending", !.at = Admitted(S, quiet), !.more = S # Queued])
  BY DEF Snapshot
<1>2. Admitted(S, quiet) \in [Contacts -> Step] BY DEF Admitted, Step
<1>3. [r EXCEPT !.phase = "sending", !.at = Admitted(S, quiet), !.more = S # Queued] \in GoodRun
  BY <1>2 DEF Run, GoodRun
<1>4. QED BY <1>1, <1>3, PutType

LEMMA MoveType ==
  ASSUME GoodRuns, NEW d \in Dispatchers, NEW c \in Contacts,
         NEW s \in Step, Move(d, c, s)
  PROVE  GoodRuns'
<1>1. [run[d].at EXCEPT ![c] = s] \in [Contacts -> Step] BY DEF Run, GoodRun, GoodRuns
<1>2. [run[d] EXCEPT !.at = [run[d].at EXCEPT ![c] = s]] \in GoodRun
  BY <1>1 DEF Run, GoodRun, GoodRuns
<1>3. run' = [run EXCEPT ![d] = [run[d] EXCEPT !.at = [run[d].at EXCEPT ![c] = s]]]
  BY DEF Move
<1>4. QED BY <1>2, <1>3 DEF GoodRuns

LEMMA FailType ==
  ASSUME SmsTypeOK, GoodRuns, NEW d \in Dispatchers, Fail(d)
  PROVE  GoodRuns' /\ halted' \in BOOLEAN
<1>1. Failed(run[d]) \in GoodRun BY FailedType DEF SmsTypeOK
<1>2. GoodRuns' BY <1>1, PutType DEF Fail
<1>3. (halted \/ run[d].tries = MaxTries) \in BOOLEAN OBVIOUS
<1>4. halted' = halted \/ halted' = (halted \/ run[d].tries = MaxTries) BY DEF Fail
<1>5. halted' \in BOOLEAN BY <1>3, <1>4, Zenon DEF SmsTypeOK
<1>6. QED BY <1>2, <1>5

LEMMA SmsTypes ==
  ASSUME GoodRuns', status' \in {"paused", "scheduled", "running", "complete"},
         halted' \in BOOLEAN, missed' \subseteq Contacts
  PROVE  SmsTypeOK' /\ GoodRuns'
BY DEF SmsTypeOK, GoodRuns, GoodRun

LEMMA OutreachKept == ASSUME OutreachTypeOK, UNCHANGED outreachVars PROVE OutreachTypeOK'
BY DEF outreachVars, OutreachTypeOK

LEMMA StartJobTypes ==
  ASSUME SmsTypeOK, OutreachTypeOK, GoodRuns, NEW d \in Dispatchers, StartJob(d)
  PROVE  OutreachTypeOK' /\ SmsTypeOK' /\ GoodRuns'
<1> DEFINE n == run[d].tries + 1
           r == [run[d] EXCEPT !.tries = n]
<1>1. /\ \/ Put(d, Returned(r)) /\ halted' = TRUE /\ UNCHANGED missed
         \/ EnqueueSuccessor(d, r)
         \/ Snapshot(d, r) /\ missed' = {} /\ UNCHANGED halted
      /\ status' \in {status, "running"}
      /\ UNCHANGED outreachVars
  BY DEF StartJob
<1>2. run[d] \in Run /\ run[d].phase = "waiting" /\ run[d].tries < MaxTries
  BY DEF StartJob, GoodRuns, GoodRun
<1>3. n \in 0..MaxTries BY <1>2, DispatchConstantsOK DEF Run
<1> HIDE DEF n
<1>4. r \in Run BY <1>2, <1>3 DEF Run
<1> HIDE DEF r
<1>5. Returned(r) \in GoodRun BY <1>4, ReturnedType
<1>6. GoodRuns' /\ halted' \in BOOLEAN /\ missed' \subseteq Contacts
  <2>1. CASE Put(d, Returned(r)) /\ halted' = TRUE /\ UNCHANGED missed
    BY <1>5, <2>1, PutType DEF SmsTypeOK
  <2>2. CASE EnqueueSuccessor(d, r) BY <1>4, <2>2, SuccessorTypes
  <2>3. CASE Snapshot(d, r) /\ missed' = {} /\ UNCHANGED halted
    BY <1>4, <2>3, SnapshotType DEF SmsTypeOK
  <2>4. QED BY <1>1, <2>1, <2>2, <2>3
<1>7. status' \in {"paused", "scheduled", "running", "complete"} BY <1>1 DEF SmsTypeOK
<1>8. QED BY <1>1, <1>6, <1>7, SmsTypes, OutreachKept

LEMMA RejectTypes ==
  ASSUME SmsTypeOK, GoodRuns, NEW d \in Dispatchers, run[d].phase = "sending", RejectBatch(d)
  PROVE  GoodRuns' /\ halted' \in BOOLEAN
<1>1. [run[d] EXCEPT !.kind = "request"] \in GoodRun BY DEF GoodRuns, GoodRun, Run
<1>2. Failed(run[d]) \in GoodRun BY FailedType DEF SmsTypeOK
<1>3. PICK e \in Dispatchers :
        run' = [run EXCEPT ![d] = [run[d] EXCEPT !.kind = "request"], ![e] = Failed(run[d])]
  BY DEF RejectBatch
<1>4. GoodRuns' BY <1>1, <1>2, <1>3 DEF GoodRuns
<1>5. (halted \/ run[d].tries = MaxTries) \in BOOLEAN OBVIOUS
<1>6. halted' = (halted \/ run[d].tries = MaxTries) BY DEF RejectBatch
<1>7. QED BY <1>4, <1>5, <1>6, Zenon

LEMMA FinishBatchTypes ==
  ASSUME SmsTypeOK, OutreachTypeOK, GoodRuns, NEW d \in Dispatchers, FinishBatch(d)
  PROVE  OutreachTypeOK' /\ SmsTypeOK' /\ GoodRuns'
<1>1. run[d] \in Run BY DEF SmsTypeOK
<1>2. /\ \/ Put(d, NoRun) /\ UNCHANGED <<halted, missed>>
         \/ Fail(d) /\ UNCHANGED missed
         \/ EnqueueSuccessor(d, run[d])
         \/ Put(d, Returned(run[d])) /\ UNCHANGED <<halted, missed>>
         \/ run[d].phase = "sending" /\ RejectBatch(d)
      /\ status' \in {status, "complete"}
      /\ UNCHANGED outreachVars
  BY DEF FinishBatch, EndBatch, RejectBatch
<1>3. GoodRuns' /\ halted' \in BOOLEAN /\ missed' \subseteq Contacts
  <2>1. CASE Put(d, NoRun) /\ UNCHANGED <<halted, missed>>
    BY <2>1, NoRunType, PutType DEF SmsTypeOK
  <2>2. CASE Fail(d) /\ UNCHANGED missed BY <2>2, FailType DEF SmsTypeOK
  <2>3. CASE EnqueueSuccessor(d, run[d]) BY <1>1, <2>3, SuccessorTypes
  <2>4. CASE Put(d, Returned(run[d])) /\ UNCHANGED <<halted, missed>>
    BY <1>1, <2>4, ReturnedType, PutType DEF SmsTypeOK
  <2>5. CASE run[d].phase = "sending" /\ RejectBatch(d)
    BY <2>5, RejectTypes DEF RejectBatch, SmsTypeOK
  <2>6. QED BY <1>2, <2>1, <2>2, <2>3, <2>4, <2>5
<1>4. status' \in {"paused", "scheduled", "running", "complete"} BY <1>2 DEF SmsTypeOK
<1>5. QED BY <1>2, <1>3, <1>4, SmsTypes, OutreachKept

\* The steps around a batch.
LEMMA JobTypes ==
  ASSUME OutreachTypeOK, SmsTypeOK, GoodRuns,
         \/ Launch \/ Pause
         \/ \E d \in Dispatchers : \/ StartJob(d) \/ StartRequest(d) \/ FinishBatch(d)
                                   \/ CompleteJob(d) \/ KillRun(d)
  PROVE  OutreachTypeOK' /\ SmsTypeOK' /\ GoodRuns'
<1>1. CASE Launch
  <2>1. GoodRuns'
    <3>1. ASSUME NEW d \in Dispatchers, Put(d, NewJob) PROVE GoodRuns'
      BY <3>1, NoRunType, PutType
    <3>2. QED BY <1>1, <3>1 DEF Launch, GoodRuns
  <2>2. halted' \in BOOLEAN BY <1>1 DEF Launch
  <2>3. UNCHANGED <<outreachVars, missed>> BY <1>1 DEF Launch
  <2>4. status' \in {"paused", "scheduled", "running", "complete"} BY <1>1 DEF Launch
  <2>5. QED BY <2>1, <2>2, <2>3, <2>4, SmsTypes, OutreachKept DEF SmsTypeOK
<1>2. CASE Pause
  <2>1. GoodRuns' BY <1>2 DEF Pause, GoodRuns
  <2>2. QED BY <1>2, <2>1, SmsTypes, OutreachKept DEF Pause, SmsTypeOK
<1>3. ASSUME NEW d \in Dispatchers, StartRequest(d)
      PROVE  OutreachTypeOK' /\ SmsTypeOK' /\ GoodRuns'
  <2>1. [NoRun EXCEPT !.kind = "request"] \in Run BY NoRunType DEF Run, GoodRun
  <2>2. GoodRuns' BY <1>3, <2>1, SnapshotType DEF StartRequest
  <2>3. QED BY <1>3, <2>2, SmsTypes, OutreachKept DEF StartRequest, SmsTypeOK
<1>4. ASSUME NEW d \in Dispatchers, CompleteJob(d)
      PROVE  OutreachTypeOK' /\ SmsTypeOK' /\ GoodRuns'
  <2>1. GoodRuns' BY <1>4, NoRunType, PutType DEF CompleteJob
  <2>2. QED BY <1>4, <2>1, SmsTypes, OutreachKept DEF CompleteJob, SmsTypeOK
<1>5. ASSUME NEW d \in Dispatchers, KillRun(d)
      PROVE  OutreachTypeOK' /\ SmsTypeOK' /\ GoodRuns'
  <2>1. GoodRuns' /\ halted' \in BOOLEAN
    BY <1>5, NoRunType, PutType, FailType DEF KillRun, SmsTypeOK
  <2>2. \A u \in Usages : usage[u] \in Usage /\ [usage[u] EXCEPT !.adrift = TRUE] \in Usage
    BY AdriftType DEF OutreachTypeOK
  <2>3. usage' = [u \in Usages |-> IF u \in Unrecorded(d) THEN [usage[u] EXCEPT !.adrift = TRUE]
                                   ELSE usage[u]]
    BY <1>5 DEF KillRun
  <2>4. usage' \in [Usages -> Usage] BY <2>2, <2>3
  <2>5. OutreachTypeOK' BY <1>5, <2>4 DEF KillRun, OutreachTypeOK
  <2>6. QED BY <1>5, <2>1, <2>5, SmsTypes DEF KillRun, SmsTypeOK
<1>6. QED BY <1>1, <1>2, <1>3, <1>4, <1>5, StartJobTypes, FinishBatchTypes

\* The members of a batch.
LEMMA DropTypes ==
  ASSUME OutreachTypeOK, SmsTypeOK, GoodRuns,
         NEW d \in Dispatchers, NEW c \in Contacts, Drop(d, c)
  PROVE  queue' \in [Contacts -> Entry] /\ GoodRuns'
<1>1. "gone" \in Step /\ "error" \in Step BY DEF Step
<1>2. GoodRuns' BY <1>1, MoveType DEF Drop
<1>3. queue' = queue \/ queue' = [queue EXCEPT ![c] = Dequeued(queue[c])] BY DEF Drop
<1>4. queue' \in [Contacts -> Entry] BY <1>3, DequeuedEntry DEF OutreachTypeOK
<1>5. QED BY <1>2, <1>4

LEMMA MemberTypes ==
  ASSUME OutreachTypeOK, SmsTypeOK, GoodRuns,
         NEW d \in Dispatchers, NEW c \in Contacts, MemberStep(d, c)
  PROVE  OutreachTypeOK' /\ SmsTypeOK' /\ GoodRuns'
<1>1. \A s \in {"send", "record", "sent", "failed"} : s \in Step BY DEF Step
<1>2. \A s \in {"send", "record", "sent", "failed"} : Move(d, c, s) => GoodRuns'
  BY <1>1, MoveType
<1>3. UNCHANGED <<status, halted, missed>>
  BY DEF MemberStep, DropOptedOut, CheckMember, SendText, RecordText
<1>4. CASE DropOptedOut(d, c)
  <2>1. queue' \in [Contacts -> Entry] /\ GoodRuns' BY <1>4, DropTypes DEF DropOptedOut
  <2>2. OutreachTypeOK' BY <1>4, <2>1 DEF DropOptedOut, OutreachTypeOK
  <2>3. QED BY <1>3, <2>1, <2>2, SmsTypes DEF SmsTypeOK
<1>5. CASE CheckMember(d, c)
  <2>1. queue' \in [Contacts -> Entry] /\ GoodRuns'
    BY <1>2, <1>5, DropTypes DEF CheckMember, OutreachTypeOK
  <2>2. OutreachTypeOK' BY <1>5, <2>1 DEF CheckMember, OutreachTypeOK
  <2>3. QED BY <1>3, <2>1, <2>2, SmsTypes DEF SmsTypeOK
<1>6. CASE SendText(d, c)
  <2>1. Texted(d, c) \in Usage
    <3>1. /\ {"contact"} \in SUBSET Sides /\ {} \in SUBSET News
          /\ c \in Contacts \cup {NoContact} /\ d \in Senders \cup {NoSender}
      BY DEF Sides, News, Senders
    <3>2. QED BY <3>1 DEF Texted, NotPlaced, Usage
  <2>2. [Texted(d, c) EXCEPT !.adrift = TRUE] \in Usage BY <2>1, AdriftType
  <2>3. usage' \in [Usages -> Usage]
    BY <1>6, <2>1, <2>2 DEF SendText, Accept, OutreachTypeOK
  <2>4. OutreachTypeOK' BY <1>6, <2>3 DEF SendText, OutreachTypeOK
  <2>5. GoodRuns' BY <1>2, <1>6 DEF SendText, GoodRuns
  <2>6. QED BY <1>3, <2>4, <2>5, SmsTypes DEF SmsTypeOK
<1>7. CASE RecordText(d, c)
  <2>1. PICK u \in Usages :
          \/ /\ row' = [row EXCEPT ![<<u, "contact">>] = [state |-> "open", timed |-> TRUE]]
             /\ UNCHANGED usage
          \/ /\ usage' = [usage EXCEPT ![u] = [usage[u] EXCEPT !.adrift = TRUE]]
             /\ UNCHANGED row
    BY <1>7 DEF RecordText, Unrecorded
  <2>2. usage' \in [Usages -> Usage] BY <2>1, AdriftType DEF OutreachTypeOK
  <2>3. row' \in [Legs -> Row]
    <3>1. [state |-> "open", timed |-> TRUE] \in Row BY DEF Row
    <3>2. QED BY <2>1, <3>1 DEF OutreachTypeOK
  <2>4. queue' = queue \/ queue' = [queue EXCEPT ![c] = Dequeued(queue[c])] BY <1>7 DEF RecordText
  <2>5. queue' \in [Contacts -> Entry] BY <2>4, DequeuedEntry DEF OutreachTypeOK
  <2>6. OutreachTypeOK' BY <1>7, <2>2, <2>3, <2>5 DEF RecordText, OutreachTypeOK
  <2>7. GoodRuns'
    <3>1. PICK s \in {"sent", "failed"}, T \in SUBSET Contacts :
            run' = [e \in Dispatchers |->
                      IF e = d THEN [run[d] EXCEPT !.at = [run[d].at EXCEPT ![c] = s]]
                      ELSE IF T # {} /\ run[e].phase = "sending"
                      THEN [run[e] EXCEPT !.texted = run[e].texted \cup T]
                      ELSE run[e]]
      <4>1. PICK saved \in BOOLEAN, left \in BOOLEAN :
              run' = [e \in Dispatchers |->
                        IF e = d THEN [run[d] EXCEPT !.at[c] = IF left THEN "sent" ELSE "failed"]
                        ELSE IF saved /\ run[e].phase = "sending"
                        THEN [run[e] EXCEPT !.texted = @ \cup {c}]
                        ELSE run[e]]
        BY <1>7 DEF RecordText, Works
      <4>2. PICK s \in {"sent", "failed"} : s = IF left THEN "sent" ELSE "failed" OBVIOUS
      <4>3. CASE saved
        <5>1. WITNESS s \in {"sent", "failed"}, {c} \in SUBSET Contacts
        <5>2. QED BY <4>1, <4>2, <4>3
      <4>4. CASE ~saved
        <5>1. WITNESS s \in {"sent", "failed"}, {} \in SUBSET Contacts
        <5>2. QED BY <4>1, <4>2, <4>4
      <4>5. QED BY <4>3, <4>4
    <3>2. [run[d] EXCEPT !.at = [run[d].at EXCEPT ![c] = s]] \in GoodRun
      BY <1>1 DEF GoodRuns, GoodRun, Run
    <3>3. \A e \in Dispatchers : [run[e] EXCEPT !.texted = run[e].texted \cup T] \in GoodRun
      BY DEF GoodRuns, GoodRun, Run
    <3>4. QED BY <3>1, <3>2, <3>3 DEF GoodRuns
  <2>8. QED BY <1>3, <2>6, <2>7, SmsTypes DEF SmsTypeOK
<1>8. QED BY <1>4, <1>5, <1>6, <1>7 DEF MemberStep

LEMMA SmsStepTypes ==
  ASSUME OutreachTypeOK, SmsTypeOK, GoodRuns, SmsStep
  PROVE  OutreachTypeOK' /\ SmsTypeOK' /\ GoodRuns'
<1>1. ASSUME NEW c \in Contacts, EnqueueText(c) PROVE OutreachTypeOK' /\ SmsTypeOK' /\ GoodRuns'
  <2>1. OutreachTypeOK' BY <1>1, EnqueueTypes DEF EnqueueText
  <2>2. GoodRuns' BY <1>1 DEF EnqueueText, GoodRuns
  <2>3. QED BY <1>1, <2>1, <2>2, SmsTypes DEF EnqueueText, SmsTypeOK
<1>2. ASSUME NEW c \in Contacts, StopText(c)
      PROVE  OutreachTypeOK' /\ SmsTypeOK' /\ GoodRuns'
  <2>1. OutreachTypeOK' BY <1>2, StopTypes DEF StopText
  <2>2. \A d \in Dispatchers : [run[d] EXCEPT !.stopped = run[d].stopped \cup {c}] \in GoodRun
    BY DEF GoodRuns, GoodRun, Run
  <2>3. GoodRuns' BY <1>2, <2>2 DEF StopText, GoodRuns
  <2>4. QED BY <1>2, <2>1, <2>3, SmsTypes DEF StopText, SmsTypeOK
<1>3. QED BY <1>1, <1>2, JobTypes, MemberTypes DEF SmsStep

\* A step of a number, or none, is apart from calls, texts and the campaign.
Apart == UNCHANGED <<queue, optOut, usage, row, job, ledger, topups, gap, dial, smsVars, type>>

LEMMA ApartStep ==
  ASSUME UNCHANGED vars \/ (RentalStep /\ UNCHANGED <<dial, smsVars, type>>)
  PROVE  Apart
BY DEF vars, outreachVars, RentalStep, Apart

LEMMA NextCases ==
  ASSUME [Next]_vars
  PROVE  Apart \/ BillingStep \/ DialStep \/ SmsStep
<1>1. CASE UNCHANGED vars BY <1>1, ApartStep
<1>2. CASE RentalStep /\ UNCHANGED <<dial, smsVars, type>> BY <1>2, ApartStep
<1>3. QED BY <1>1, <1>2 DEF Next

-----------------------------------------------------------------------------
(* What becomes of a call or a text at Twilio.                             *)

\* What a call or a text is like at any time: only what is over has said its last
\* word, a text is billable from the start and by a job or a request, a call is not
\* waiting to be delivered.
GoodUse(e) ==
  /\ e.kind = "none" => e.stage = "none" /\ e.news = {}
  /\ e.kind = "call" => e.stage \in {"ringing", "talking", "over"}
  /\ e.kind = "text" => /\ e.stage \in {"accepted", "sent", "over"}
                        /\ e.used = {"contact"}
                        /\ e.by \in Dispatchers
  /\ "final" \in e.news => e.stage = "over"

\* One step of it.
NewCall(e) == e.kind = "call" /\ e.stage = "ringing" /\ e.news = {}
NewText(e) == /\ e.kind = "text" /\ e.stage = "accepted" /\ e.news = {}
              /\ e.used = {"contact"} /\ e.by \in Dispatchers
Goes(e, f) ==
  \/ f = e
  \/ \E S \in SUBSET e.news : f = [e EXCEPT !.news = S]
  \/ f = [e EXCEPT !.adrift = TRUE]
  \/ /\ e.stage \in {"ringing", "talking"}
     /\ \E answered \in BOOLEAN : f = Ended(e, answered)
  \/ /\ e.stage = "ringing"
     /\ f = [e EXCEPT !.stage = "talking", !.used = {"agent"}, !.news = {"progress"}]
  \/ /\ e.stage \in {"accepted", "sent"}
     /\ \/ f = [e EXCEPT !.stage = "sent", !.news = @ \cup {"progress"}]
        \/ f = [e EXCEPT !.stage = "over", !.news = @ \cup {"final"}]
Moves(e, f) == Goes(e, f) \/ (e.kind = "none" /\ (NewCall(f) \/ NewText(f)))

\* What a step keeps: whose it is, its end, and what it used by then.
Kept(e, f) ==
  /\ e.kind # "none" => /\ f.kind = e.kind /\ f.contact = e.contact /\ f.by = e.by
                        /\ e.adrift => f.adrift
  /\ e.kind = "none" => f.stage # "over"
  /\ e.stage = "over" => f.stage = "over" /\ f.used = e.used
  /\ f.stage \in {"ringing", "talking"} => e.kind = "none" \/ e.stage \in {"ringing", "talking"}

LEMMA MovesKeep ==
  ASSUME NEW e \in Usage, NEW f \in Usage, GoodUse(e), Moves(e, f)
  PROVE  GoodUse(f) /\ Kept(e, f)
<1>1. CASE f = e BY <1>1 DEF GoodUse, Kept
<1>2. CASE \E S \in SUBSET e.news : f = [e EXCEPT !.news = S]
  BY <1>2 DEF GoodUse, Kept, Usage
<1>3. CASE f = [e EXCEPT !.adrift = TRUE]
  <2>1. /\ f.kind = e.kind /\ f.contact = e.contact /\ f.by = e.by
        /\ f.stage = e.stage /\ f.used = e.used /\ f.news = e.news
    BY <1>3 DEF Usage
  <2>2. f.adrift = TRUE BY <1>3 DEF Usage
  <2>3. QED BY <2>1, <2>2 DEF GoodUse, Kept
<1>4. CASE e.stage \in {"ringing", "talking"} /\ \E answered \in BOOLEAN : f = Ended(e, answered)
  <2>1. e.kind = "call" BY <1>4 DEF GoodUse, Usage
  <2>2. PICK answered \in BOOLEAN : f = Ended(e, answered) BY <1>4
  <2>3. f.kind = e.kind /\ f.contact = e.contact /\ f.by = e.by
        /\ f.adrift = e.adrift /\ f.stage = "over"
    BY <2>2 DEF Ended, Usage
  <2>4. QED BY <1>4, <2>1, <2>3 DEF GoodUse, Kept
<1>5. CASE e.stage = "ringing"
           /\ f = [e EXCEPT !.stage = "talking", !.used = {"agent"}, !.news = {"progress"}]
  BY <1>5 DEF GoodUse, Kept, Usage
<1>6. CASE e.stage \in {"accepted", "sent"} /\ f = [e EXCEPT !.stage = "sent", !.news = @ \cup {"progress"}]
  BY <1>6 DEF GoodUse, Kept, Usage
<1>7. CASE e.stage \in {"accepted", "sent"} /\ f = [e EXCEPT !.stage = "over", !.news = @ \cup {"final"}]
  BY <1>7 DEF GoodUse, Kept, Usage
<1>8. CASE e.kind = "none" /\ (NewCall(f) \/ NewText(f))
  BY <1>8 DEF GoodUse, Kept, NewCall, NewText
<1>9. QED BY <1>1, <1>2, <1>3, <1>4, <1>5, <1>6, <1>7, <1>8 DEF Moves, Goes

AllGo == \A u \in Usages : Goes(usage[u], usage'[u])
AllMove == \A u \in Usages : Moves(usage[u], usage'[u])

LEMMA StillGoes == UNCHANGED usage => AllGo
BY DEF AllGo, Goes

\* A step that changes one of them.
LEMMA OneGoes ==
  ASSUME OutreachTypeOK, NEW u, NEW e, usage' = [usage EXCEPT ![u] = e],
         u \in Usages => Goes(usage[u], e)
  PROVE  AllGo
<1>1. ASSUME NEW v \in Usages PROVE Goes(usage[v], usage'[v])
  <2>1. CASE v = u BY <2>1 DEF OutreachTypeOK
  <2>2. CASE v # u BY <2>2 DEF OutreachTypeOK, Goes
  <2>3. QED BY <2>1, <2>2
<1>2. QED BY <1>1 DEF AllGo

LEMMA HeardGoes ==
  ASSUME OutreachTypeOK, NEW u \in Usages, NEW n, NEW again, Heard(u, n, again)
  PROVE  AllGo
<1> DEFINE S == IF again THEN usage[u].news ELSE usage[u].news \ {n}
<1>1. usage' = [usage EXCEPT ![u] = [usage[u] EXCEPT !.news = S]] BY DEF Heard
<1>2. S \in SUBSET usage[u].news OBVIOUS
<1> HIDE DEF S
<1>3. Goes(usage[u], [usage[u] EXCEPT !.news = S]) BY <1>2 DEF Goes
<1>4. QED BY <1>1, <1>3, OneGoes

LEMMA BillingGoes == ASSUME OutreachTypeOK, BillingStep PROVE AllGo
<1>1. ASSUME NEW s \in Sessions, ConfirmPayment(s) PROVE AllGo
  BY <1>1, StillGoes DEF ConfirmPayment
<1>2. ASSUME NEW u \in Usages, NEW n \in News,
             CallStatus(u, n) \/ SmsStatus(u, n) \/ LoseCallback(u, n)
      PROVE  AllGo
  <2>1. \E again : Heard(u, n, again) BY <1>2 DEF CallStatus, SmsStatus, LoseCallback
  <2>2. QED BY <2>1, HeardGoes
<1>3. ASSUME NEW u \in Usages, NEW n \in News, RunJob(u, n) \/ BuryJob(u, n) PROVE AllGo
  BY <1>3, StillGoes DEF RunJob, BuryJob
<1>4. ASSUME NEW k \in Legs, PollCall(k) \/ OpenSyncCall(k) \/ OpenSyncText(k) PROVE AllGo
  BY <1>4, StillGoes DEF PollCall, OpenSyncCall, OpenSyncText
<1>5. ASSUME NEW u \in Usages, AgentAnswers(u) PROVE AllGo
  <2> DEFINE e == [usage[u] EXCEPT !.stage = "talking", !.used = {"agent"}, !.news = {"progress"}]
  <2>1. usage' = [usage EXCEPT ![u] = e] BY <1>5 DEF AgentAnswers
  <2>2. Goes(usage[u], e) BY <1>5 DEF AgentAnswers, Goes
  <2> HIDE DEF e
  <2>3. QED BY <2>1, <2>2, OneGoes
<1>6. ASSUME NEW u \in Usages, CallEnds(u) PROVE AllGo
  <2>1. PICK answered \in BOOLEAN : usage' = [usage EXCEPT ![u] = Ended(usage[u], answered)]
    BY <1>6 DEF CallEnds
  <2>2. Goes(usage[u], Ended(usage[u], answered)) BY <1>6 DEF CallEnds, Live, Goes
  <2>3. QED BY <2>1, <2>2, OneGoes
<1>7. ASSUME NEW u \in Usages, TextMoves(u) PROVE AllGo
  <2>1. PICK e : /\ usage' = [usage EXCEPT ![u] = e]
                 /\ usage[u].stage \in {"accepted", "sent"}
                 /\ \/ e = [usage[u] EXCEPT !.stage = "sent", !.news = @ \cup {"progress"}]
                    \/ e = [usage[u] EXCEPT !.stage = "over", !.news = @ \cup {"final"}]
    BY <1>7 DEF TextMoves
  <2>2. Goes(usage[u], e) BY <2>1 DEF Goes
  <2>3. QED BY <2>1, <2>2, OneGoes
<1>8. Followed \subseteq Usages /\ Followed \X Sides \subseteq Legs BY FollowedUsages DEF Legs
<1>9. QED BY <1>1, <1>2, <1>3, <1>4, <1>5, <1>6, <1>7, <1>8 DEF BillingStep

LEMMA GoesMoves == AllGo => AllMove
BY DEF AllGo, AllMove, Moves

LEMMA OneMoves ==
  ASSUME OutreachTypeOK, NEW u, NEW e, usage' = [usage EXCEPT ![u] = e],
         u \in Usages => Moves(usage[u], e)
  PROVE  AllMove
<1>1. ASSUME NEW v \in Usages PROVE Moves(usage[v], usage'[v])
  <2>1. CASE v = u BY <2>1 DEF OutreachTypeOK
  <2>2. CASE v # u BY <2>2 DEF OutreachTypeOK, Moves, Goes
  <2>3. QED BY <2>1, <2>2
<1>2. QED BY <1>1 DEF AllMove

\* How a request places its call, and one of which it does not get to know.
Places(t, u) ==
  /\ dial[t].pc = "create"
  /\ u \in Unused
  /\ usage' = [usage EXCEPT ![u] = Ringing(t)]
  /\ dial' = [dial EXCEPT ![t].pc = "save", ![t].call = u]
Strays(t, u) ==
  /\ dial[t].pc = "create"
  /\ u \in Unused
  /\ usage' = [usage EXCEPT ![u] = [Ringing(t) EXCEPT !.adrift = TRUE]]

LEMMA CreateCases ==
  ASSUME NEW t \in Tabs, CreateCall(t)
  PROVE  \/ \E u \in Usages : Places(t, u)
         \/ (\E u \in Usages : Strays(t, u)) /\ (Rest(t) \/ UNCHANGED dial)
         \/ Rest(t) /\ UNCHANGED usage
BY DEF CreateCall, Accept, Places, Strays, Unused

LEMMA DialGoes ==
  ASSUME OutreachTypeOK, DialTypeOK, DialStep
  PROVE  AllGo \/ \E t \in Tabs, u \in Usages : Places(t, u) \/ Strays(t, u)
<1>1. ASSUME NEW t \in Tabs, CreateCall(t)
      PROVE  AllGo \/ \E u \in Usages : Places(t, u) \/ Strays(t, u)
  BY <1>1, StillGoes, CreateCases
<1>2. ASSUME NEW t \in Tabs, HangUpUntracked(t) \/ KillDial(t) \/ \E u \in Usages : HangUp(t, u)
      PROVE  AllGo
  <2>1. CASE UNCHANGED usage BY <2>1, StillGoes
  <2>2. CASE ~UNCHANGED usage
    <3>1. PICK u, e : /\ usage' = [usage EXCEPT ![u] = e]
                      /\ \/ e = [usage[u] EXCEPT !.adrift = TRUE]
                         \/ e = usage[u]
                         \/ Live(u) /\ \E answered \in BOOLEAN : e = Ended(usage[u], answered)
      BY <1>2, <2>2 DEF HangUpUntracked, KillDial, HangUp
    <3>2. Goes(usage[u], e) BY <3>1 DEF Goes, Live
    <3>3. QED BY <3>1, <3>2, OneGoes
  <2>3. QED BY <2>1, <2>2
<1>3. ASSUME NEW t \in Tabs,
             \/ \E c \in Contacts : StartDial(t, c)
             \/ ClaimForDial(t) \/ SaveCall(t) \/ FetchMore(t) \/ LeaveScreen(t)
      PROVE  AllGo
  BY <1>3, StillGoes DEF StartDial, outreachVars, ClaimForDial, SaveCall, FetchMore, LeaveScreen
<1>4. ASSUME NEW c \in Contacts, Enqueue(c) PROVE AllGo
  BY <1>4, StillGoes DEF Enqueue
<1>5. QED BY <1>1, <1>2, <1>3, <1>4 DEF DialStep

LEMMA DialMoves == ASSUME OutreachTypeOK, DialTypeOK, DialStep PROVE AllMove
<1>1. ASSUME NEW t \in Tabs, NEW u \in Usages, Places(t, u) PROVE AllMove
  <2>1. NewCall(Ringing(t)) BY DEF NewCall, Ringing, NotPlaced
  <2>2. Moves(usage[u], Ringing(t)) BY <1>1, <2>1 DEF Moves, Places, Unused
  <2>3. QED BY <1>1, <2>2, OneMoves DEF Places
<1>2. ASSUME NEW t \in Tabs, NEW u \in Usages, Strays(t, u) PROVE AllMove
  <2> DEFINE e == [Ringing(t) EXCEPT !.adrift = TRUE]
  <2>1. NewCall(e) BY DEF NewCall, Ringing, NotPlaced
  <2>2. Moves(usage[u], e) BY <1>2, <2>1 DEF Moves, Strays, Unused
  <2>3. QED BY <1>2, <2>2, OneMoves DEF Strays
<1>3. QED BY <1>1, <1>2, DialGoes, GoesMoves

\* How a batch has a text sent.
Sends(d, c, u) ==
  /\ At(d, c, "send") /\ UNCHANGED row
  /\ u \in Unused
  /\ usage' = [usage EXCEPT ![u] = Texted(d, c)]
     \/ usage' = [usage EXCEPT ![u] = [Texted(d, c) EXCEPT !.adrift = TRUE]]

LEMMA SmsGoes ==
  ASSUME OutreachTypeOK, SmsStep
  PROVE  AllGo \/ \E d \in Dispatchers, c \in Contacts, u \in Usages : Sends(d, c, u)
<1>1. ASSUME \/ Launch \/ Pause
             \/ \E d \in Dispatchers : StartJob(d) \/ StartRequest(d) \/ FinishBatch(d) \/ CompleteJob(d)
             \/ \E c \in Contacts : EnqueueText(c) \/ StopText(c)
             \/ \E d \in Dispatchers, c \in Contacts : DropOptedOut(d, c) \/ CheckMember(d, c)
      PROVE  AllGo
  BY <1>1, StillGoes DEF Launch, Pause, StartJob, StartRequest, FinishBatch, CompleteJob, outreachVars,
     EnqueueText, Enqueue, StopText, Stop, DropOptedOut, CheckMember
<1>2. ASSUME NEW d \in Dispatchers, KillRun(d) PROVE AllGo
  <2>1. usage' = [u \in Usages |-> IF u \in Unrecorded(d) THEN [usage[u] EXCEPT !.adrift = TRUE]
                                   ELSE usage[u]]
    BY <1>2 DEF KillRun
  <2>2. QED BY <2>1 DEF AllGo, Goes
<1>3. ASSUME NEW d \in Dispatchers, NEW c \in Contacts, SendText(d, c)
      PROVE  AllGo \/ \E u \in Usages : Sends(d, c, u)
  BY <1>3, StillGoes DEF SendText, Accept, Sends, Unused
<1>4. ASSUME NEW d \in Dispatchers, NEW c \in Contacts, RecordText(d, c) PROVE AllGo
  <2>1. CASE UNCHANGED usage BY <2>1, StillGoes
  <2>2. CASE ~UNCHANGED usage
    <3>1. PICK u : usage' = [usage EXCEPT ![u] = [usage[u] EXCEPT !.adrift = TRUE]]
      BY <1>4, <2>2 DEF RecordText
    <3>2. Goes(usage[u], [usage[u] EXCEPT !.adrift = TRUE]) BY DEF Goes
    <3>3. QED BY <3>1, <3>2, OneGoes
  <2>3. QED BY <2>1, <2>2
<1>5. QED BY <1>1, <1>2, <1>3, <1>4 DEF SmsStep, MemberStep

LEMMA SmsMoves == ASSUME OutreachTypeOK, SmsStep PROVE AllMove
<1>1. ASSUME NEW d \in Dispatchers, NEW c \in Contacts, NEW u \in Usages, Sends(d, c, u)
      PROVE  AllMove
  <2>1. PICK e : usage' = [usage EXCEPT ![u] = e]
                 /\ e \in {Texted(d, c), [Texted(d, c) EXCEPT !.adrift = TRUE]}
    BY <1>1 DEF Sends
  <2>2. NewText(e) BY <2>1 DEF NewText, Texted, NotPlaced
  <2>3. Moves(usage[u], e) BY <1>1, <2>2 DEF Moves, Sends, Unused
  <2>4. QED BY <2>1, <2>3, OneMoves
<1>2. QED BY <1>1, SmsGoes, GoesMoves

LEMMA EveryStepMoves == ASSUME TypeOK, [Next]_vars PROVE AllMove
<1>1. CASE Apart BY <1>1, StillGoes, GoesMoves DEF Apart
<1>2. QED BY <1>1, NextCases, GoesMoves, BillingGoes, DialMoves, SmsMoves DEF TypeOK

-----------------------------------------------------------------------------
(* The rows, the jobs and the ledger.                                      *)

\* What was not placed has no row; the row of a call has a duration, and the job of
\* a text is keyed by a last status, only when it is over.
RowsOK(u) ==
  /\ usage[u].kind = "none" => /\ \A s \in Sides : row[<<u, s>>] = NoRow
                               /\ job[u]["final"] = "none"
  /\ usage[u].kind = "call" => \A s \in Sides : row[<<u, s>>].timed => <<u, s>> \in Due
  /\ usage[u].kind = "text" /\ job[u]["final"] # "none" => usage[u].stage = "over"

UsesOK == \A u \in Usages : GoodUse(usage[u])
LegsOK == \A u \in Usages : RowsOK(u)

\* A request that asked for a call knows which.
AskedOK ==
  \A t \in Tabs :
    /\ dial[t].pc \in {"save", "hangup"} <=> dial[t].call # NoUsage
    /\ \A u \in Usages : dial[t].call = u => usage[u].kind = "call" /\ usage[u].by = t

\* How the rows and the jobs change.
RowStep ==
  \A k \in Legs :
    \/ row'[k] = row[k]
    \/ usage[k[1]].kind = "text"
    \/ usage[k[1]].kind = "call" /\ (row'[k].timed => row[k].timed \/ k \in Due)
JobStep ==
  \A u \in Usages :
    \/ job'[u]["final"] = job[u]["final"]
    \/ usage[u].kind = "call"
    \/ usage[u].kind = "text" /\ usage[u].stage = "over"

LEMMA NoRowStep == UNCHANGED <<row, job>> => RowStep /\ JobStep
BY DEF RowStep, JobStep

LEMMA OneRowStep ==
  ASSUME OutreachTypeOK, NEW k, NEW r, row' = [row EXCEPT ![k] = r],
         k \in Legs => \/ usage[k[1]].kind = "text"
                       \/ usage[k[1]].kind = "call" /\ (r.timed => row[k].timed \/ k \in Due)
  PROVE  RowStep
<1>1. ASSUME NEW l \in Legs
      PROVE  \/ row'[l] = row[l]
             \/ usage[l[1]].kind = "text"
             \/ usage[l[1]].kind = "call" /\ (row'[l].timed => row[l].timed \/ l \in Due)
  <2>1. CASE l = k BY <2>1 DEF OutreachTypeOK
  <2>2. CASE l # k BY <2>2 DEF OutreachTypeOK
  <2>3. QED BY <2>1, <2>2
<1>2. QED BY <1>1 DEF RowStep

LEMMA OneJobStep ==
  ASSUME OutreachTypeOK, NEW u \in Usages, NEW j, job' = job \/ job' = [job EXCEPT ![u] = j],
         \/ j["final"] = job[u]["final"]
         \/ usage[u].kind = "call"
         \/ usage[u].kind = "text" /\ usage[u].stage = "over"
  PROVE  JobStep
<1>1. ASSUME NEW v \in Usages
      PROVE  \/ job'[v]["final"] = job[v]["final"]
             \/ usage[v].kind = "call"
             \/ usage[v].kind = "text" /\ usage[v].stage = "over"
  <2>1. CASE v = u BY <2>1 DEF OutreachTypeOK
  <2>2. CASE v # u BY <2>2 DEF OutreachTypeOK
  <2>3. QED BY <2>1, <2>2
<1>2. QED BY <1>1 DEF JobStep

LEMMA LegOf == ASSUME NEW u \in Usages PROVE <<u, "contact">> \in Legs /\ <<u, "contact">>[1] = u
BY DEF Legs, Sides

LEMMA CallStatusRows ==
  ASSUME OutreachTypeOK, UsesOK, NEW u \in Usages, NEW n \in News, CallStatus(u, n)
  PROVE  RowStep /\ JobStep
<1> DEFINE k == <<u, "contact">>
           r == CallUpserted(u, n)
           key == IF n = "final" \/ r.state = "closed" THEN "final" ELSE "progress"
<1>1. usage[u].kind = "call" /\ n \in usage[u].news BY DEF CallStatus
<1>2. row' = row \/ row' = [row EXCEPT ![k] = r] BY DEF CallStatus
<1>3. job' = job \/ job' = [job EXCEPT ![u] = Enqueued(job[u], key)] BY DEF CallStatus
<1>4. r.timed => k \in Due
  BY <1>1 DEF CallUpserted, UsesOK, GoodUse, Due, Legs, Sides
<1> HIDE DEF r, key
<1>5. RowStep BY <1>1, <1>2, <1>4, LegOf, OneRowStep, NoRowStep DEF RowStep
<1>6. JobStep BY <1>1, <1>3, OneJobStep
<1>7. QED BY <1>5, <1>6

LEMMA SmsStatusRows ==
  ASSUME OutreachTypeOK, UsesOK, NEW u \in Usages, NEW n \in News, SmsStatus(u, n)
  PROVE  RowStep /\ JobStep
<1>1. usage[u].kind = "text" /\ n \in usage[u].news BY DEF SmsStatus
<1>2. PICK r : row' = row \/ row' = [row EXCEPT ![<<u, "contact">>] = r] BY DEF SmsStatus
<1>3. job' = job \/ job' = [job EXCEPT ![u] = Enqueued(job[u], n)] BY DEF SmsStatus
<1>4. RowStep BY <1>1, <1>2, LegOf, OneRowStep DEF RowStep
<1>5. Enqueued(job[u], n)["final"] = job[u]["final"] \/ usage[u].stage = "over"
  <2>1. CASE n = "final" BY <1>1, <2>1 DEF UsesOK, GoodUse
  <2>2. CASE n = "progress" BY <2>2 DEF Enqueued, OutreachTypeOK, Job, News
  <2>3. QED BY <2>1, <2>2 DEF News
<1>6. JobStep BY <1>1, <1>3, <1>5, OneJobStep
<1>7. QED BY <1>4, <1>6

LEMMA RunJobRows ==
  ASSUME OutreachTypeOK, LegsOK, NEW u \in Followed, NEW n \in News, RunJob(u, n) \/ BuryJob(u, n)
  PROVE  RowStep /\ JobStep
<1>1. u \in Usages /\ usage[u].kind \in {"call", "text"} BY FollowedUsages DEF Followed
<1>2. PICK end : job' = [job EXCEPT ![u] = [job[u] EXCEPT ![n] = end]] BY DEF RunJob, BuryJob
<1>3. RowStep BY DEF RunJob, BuryJob, RowStep
<1>4. CASE n = "final"
  <2>1. job[u]["final"] # "none" BY <1>4 DEF RunJob, BuryJob
  <2>2. QED BY <1>1, <1>2, <1>3, <2>1, OneJobStep DEF LegsOK, RowsOK
<1>5. CASE n # "final"
  <2>1. [job[u] EXCEPT ![n] = end]["final"] = job[u]["final"]
    BY <1>1, <1>5 DEF OutreachTypeOK, Job, News
  <2>2. QED BY <1>1, <1>2, <1>3, <2>1, OneJobStep
<1>6. QED BY <1>4, <1>5

LEMMA SyncRows ==
  ASSUME OutreachTypeOK, NEW k \in Legs, PollCall(k) \/ OpenSyncCall(k) \/ OpenSyncText(k)
  PROVE  RowStep /\ JobStep
<1>1. k[1] \in Usages /\ k[2] \in Sides /\ k = <<k[1], k[2]>> BY DEF Legs
<1>2. CASE PollCall(k) \/ OpenSyncCall(k)
  <2>1. /\ row' = [row EXCEPT ![k] = CallRead(k)] /\ UNCHANGED job
        /\ usage[k[1]].kind = "call" /\ usage[k[1]].stage = "over"
    BY <1>2 DEF PollCall, OpenSyncCall
  <2>2. CallRead(k).timed => k \in Due BY <2>1 DEF CallRead, Due
  <2>3. RowStep BY <2>1, <2>2, OneRowStep
  <2>4. QED BY <2>1, <2>3 DEF JobStep
<1>3. CASE OpenSyncText(k)
  <2>1. PICK r : row' = [row EXCEPT ![k] = r] BY <1>3 DEF OpenSyncText
  <2>2. usage[k[1]].kind = "text" BY <1>3 DEF OpenSyncText
  <2>3. RowStep BY <2>1, <2>2, OneRowStep
  <2>4. job' = job \/ usage[k[1]].stage = "over" BY <1>3 DEF OpenSyncText
  <2>5. job' = job \/ job' = [job EXCEPT ![k[1]] = Enqueued(job[k[1]], "final")]
    BY <1>3 DEF OpenSyncText
  <2>6. JobStep BY <1>1, <2>2, <2>4, <2>5, OneJobStep DEF JobStep
  <2>7. QED BY <2>3, <2>6
<1>4. QED BY <1>2, <1>3

LEMMA BillingRows == ASSUME OutreachTypeOK, UsesOK, LegsOK, BillingStep PROVE RowStep /\ JobStep
<1>1. ASSUME \/ \E s \in Sessions : ConfirmPayment(s)
             \/ \E u \in Usages : AgentAnswers(u) \/ CallEnds(u) \/ TextMoves(u)
             \/ \E u \in Followed, n \in News : LoseCallback(u, n)
      PROVE  RowStep /\ JobStep
  BY <1>1, NoRowStep DEF ConfirmPayment, AgentAnswers, CallEnds, TextMoves, LoseCallback
<1>2. Followed \subseteq Usages /\ Followed \X Sides \subseteq Legs BY FollowedUsages DEF Legs
<1>3. QED BY <1>1, <1>2, CallStatusRows, SmsStatusRows, RunJobRows, SyncRows DEF BillingStep

LEMMA DialRows == ASSUME OutreachTypeOK, DialTypeOK, AskedOK, DialStep PROVE RowStep /\ JobStep
<1>1. ASSUME NEW t \in Tabs, SaveCall(t) PROVE RowStep /\ JobStep
  <2> DEFINE u == dial[t].call
             k == <<u, "agent">>
  <2>1. u \in Usages /\ usage[u].kind = "call"
    BY <1>1 DEF SaveCall, AskedOK, DialTypeOK, Dial
  <2>2. k[1] = u /\ k \in Legs BY <2>1 DEF Legs, Sides
  <2>3. [row[k] EXCEPT !.state = "open"].timed => row[k].timed
    BY <2>2 DEF OutreachTypeOK, Row
  <2>4. row' = row \/ row' = [row EXCEPT ![k] = [row[k] EXCEPT !.state = "open"]]
    BY <1>1 DEF SaveCall
  <2> HIDE DEF u, k
  <2>5. RowStep BY <2>1, <2>2, <2>3, <2>4, OneRowStep DEF RowStep
  <2>6. QED BY <1>1, <2>5 DEF SaveCall, JobStep
<1>2. ASSUME NEW t \in Tabs,
             \/ \E c \in Contacts : StartDial(t, c)
             \/ ClaimForDial(t) \/ CreateCall(t) \/ HangUpUntracked(t) \/ KillDial(t)
             \/ \E u \in Usages : HangUp(t, u)
             \/ FetchMore(t) \/ LeaveScreen(t)
      PROVE  RowStep /\ JobStep
  BY <1>2, NoRowStep DEF StartDial, outreachVars, ClaimForDial, CreateCall, HangUpUntracked, KillDial,
     HangUp, FetchMore, LeaveScreen
<1>3. ASSUME NEW c \in Contacts, Enqueue(c) PROVE RowStep /\ JobStep
  BY <1>3, NoRowStep DEF Enqueue
<1>4. QED BY <1>1, <1>2, <1>3 DEF DialStep

\* A text that a batch is to record was placed by it.
LEMMA UnrecordedText ==
  ASSUME NEW d \in Dispatchers, NEW u \in Unrecorded(d)
  PROVE  u \in Usages /\ usage[u].kind = "text" /\ usage[u].by = d
         /\ row[<<u, "contact">>].state = "none"
BY DEF Unrecorded

LEMMA SmsRows ==
  ASSUME OutreachTypeOK, SmsStep
  PROVE  RowStep /\ JobStep
<1>1. ASSUME NEW d \in Dispatchers, NEW c \in Contacts, RecordText(d, c) PROVE RowStep /\ JobStep
  <2>1. PICK u \in Unrecorded(d) :
          \E r : row' = row \/ row' = [row EXCEPT ![<<u, "contact">>] = r]
    BY <1>1 DEF RecordText
  <2>2. u \in Usages /\ usage[u].kind = "text" BY <2>1, UnrecordedText
  <2>3. PICK r : row' = row \/ row' = [row EXCEPT ![<<u, "contact">>] = r] BY <2>1
  <2>4. RowStep BY <2>2, <2>3, LegOf, OneRowStep DEF RowStep
  <2>5. QED BY <1>1, <2>4 DEF RecordText, JobStep
<1>2. ASSUME \/ Launch \/ Pause
             \/ \E d \in Dispatchers : \/ StartJob(d) \/ StartRequest(d) \/ FinishBatch(d)
                                       \/ CompleteJob(d) \/ KillRun(d)
             \/ \E c \in Contacts : EnqueueText(c) \/ StopText(c)
             \/ \E d \in Dispatchers, c \in Contacts :
                  DropOptedOut(d, c) \/ CheckMember(d, c) \/ SendText(d, c)
      PROVE  RowStep /\ JobStep
  BY <1>2, NoRowStep DEF Launch, Pause, StartJob, StartRequest, FinishBatch, CompleteJob, KillRun,
     outreachVars, EnqueueText, Enqueue, StopText, Stop, DropOptedOut, CheckMember, SendText
<1>3. QED BY <1>1, <1>2 DEF SmsStep, MemberStep

\* How the ledger changes: a debit is of a leg that is due, and the entries that were
\* there already move nothing.
Pays ==
  \/ UNCHANGED <<ledger, topups, credits>>
  \/ UNCHANGED <<usage, topups>> /\ \E k \in Due : Debit(k)
  \/ UNCHANGED <<usage, ledger>> /\ \E s \in Sessions : CreditSession(s)

LEMMA BillingPays == ASSUME OutreachTypeOK, UsesOK, LegsOK, BillingStep PROVE Pays
<1>1. ASSUME NEW s \in Sessions, ConfirmPayment(s) PROVE Pays
  BY <1>1 DEF ConfirmPayment, Pays
<1>2. ASSUME NEW u \in Followed, NEW n \in News, RunJob(u, n) PROVE Pays
  <2> DEFINE k == <<u, "contact">>
  <2>1. u \in Usages /\ usage[u].kind \in {"call", "text"} BY FollowedUsages DEF Followed
  <2>2. k \in Legs /\ k[1] = u /\ k[2] = "contact" BY <2>1 DEF Legs, Sides
  <2>3. CASE usage[u].kind = "call"
    <3>1. row[k].timed => k \in Due BY <2>1, <2>3 DEF LegsOK, RowsOK, Sides
    <3>2. NoDebit \/ (row[k].timed /\ Debit(k)) BY <1>2, <2>3 DEF RunJob, BillTerminalCall
    <3>3. QED BY <1>2, <3>1, <3>2 DEF RunJob, Pays, NoDebit
  <2>4. CASE usage[u].kind = "text"
    <3>1. NoDebit \/ (n = "final" /\ Debit(k)) BY <1>2, <2>4 DEF RunJob
    <3>2. n = "final" => usage[u].stage = "over" BY <1>2, <2>1, <2>4 DEF RunJob, LegsOK, RowsOK
    <3>3. usage[u].used = {"contact"} BY <2>1, <2>4 DEF UsesOK, GoodUse
    <3>4. n = "final" => k \in Due BY <2>2, <3>2, <3>3 DEF Due
    <3>5. QED BY <1>2, <3>1, <3>4 DEF RunJob, Pays, NoDebit
  <2>5. QED BY <2>1, <2>3, <2>4
<1>3. ASSUME NEW k \in Legs, OpenSyncCall(k) PROVE Pays
  <2>1. NoDebit \/ (CallRead(k).timed /\ Debit(k)) BY <1>3 DEF OpenSyncCall, BillTerminalCall
  <2>2. CallRead(k).timed => k \in Due BY <1>3 DEF OpenSyncCall, CallRead, Due
  <2>3. QED BY <1>3, <2>1, <2>2 DEF OpenSyncCall, Pays, NoDebit
<1>4. ASSUME \/ \E u \in Usages : AgentAnswers(u) \/ CallEnds(u) \/ TextMoves(u)
             \/ \E u \in Usages, n \in News :
                  CallStatus(u, n) \/ SmsStatus(u, n) \/ LoseCallback(u, n) \/ BuryJob(u, n)
             \/ \E k \in Legs : PollCall(k) \/ OpenSyncText(k)
      PROVE  Pays
  <2>1. UNCHANGED <<ledger, topups, credits>>
    BY <1>4 DEF AgentAnswers, CallEnds, TextMoves, CallStatus, SmsStatus, LoseCallback,
       BuryJob, PollCall, OpenSyncText
  <2>2. QED BY <2>1 DEF Pays
<1>5. Followed \subseteq Usages /\ Followed \X Sides \subseteq Legs BY FollowedUsages DEF Legs
<1>6. QED BY <1>1, <1>2, <1>3, <1>4, <1>5 DEF BillingStep

LEMMA OthersPay == ASSUME DialStep \/ SmsStep PROVE UNCHANGED <<ledger, topups, credits>>
<1>1. CASE DialStep
  BY <1>1 DEF DialStep, StartDial, outreachVars, ClaimForDial, CreateCall, SaveCall, HangUpUntracked,
     KillDial, HangUp, FetchMore, LeaveScreen, Enqueue
<1>2. CASE SmsStep
  BY <1>2 DEF SmsStep, MemberStep, Launch, Pause, StartJob, StartRequest, FinishBatch, CompleteJob,
     KillRun, outreachVars, EnqueueText, Enqueue, StopText, Stop, DropOptedOut, CheckMember, SendText, RecordText
<1>3. QED BY <1>1, <1>2

LEMMA EveryStepPays ==
  ASSUME TypeOK, UsesOK, LegsOK, [Next]_vars
  PROVE  (Pays /\ UNCHANGED rentalVars) \/ (RentalStep /\ Apart)
<1>1. CASE UNCHANGED vars BY <1>1 DEF vars, outreachVars, Pays
<1>2. CASE BillingStep /\ UNCHANGED rentalVars BY <1>2, BillingPays DEF TypeOK
<1>3. CASE (DialStep \/ SmsStep) /\ UNCHANGED rentalVars BY <1>3, OthersPay DEF Pays
<1>4. CASE RentalStep /\ UNCHANGED <<dial, smsVars, type>> BY <1>4, ApartStep
<1>5. QED BY <1>1, <1>2, <1>3, <1>4 DEF Next

-----------------------------------------------------------------------------
(* The workspace's account.                                                *)

Sound == TypeOK /\ GoodRuns /\ RentalSound /\ UsesOK /\ LegsOK /\ AskedOK

LEMMA TypeStep ==
  ASSUME TypeOK, GoodRuns, RentalSound, [Next]_vars
  PROVE  TypeOK' /\ GoodRuns' /\ RentalSound'
<1>1. CASE type = "live_call" /\ DialStep /\ UNCHANGED <<smsVars, type, rentalVars>>
  <2>1. RentalSound' BY <1>1, RentalKept
  <2>2. QED BY <1>1, <2>1, DialStepTypes DEF TypeOK, smsVars, SmsTypeOK, GoodRuns, RentalSound
<1>2. CASE type = "message" /\ SmsStep /\ UNCHANGED <<dial, type, rentalVars>>
  <2>1. RentalSound' BY <1>2, RentalKept
  <2>2. QED BY <1>2, <2>1, SmsStepTypes DEF TypeOK, DialTypeOK, RentalSound
<1>3. CASE BillingStep /\ UNCHANGED <<dial, smsVars, type, rentalVars>>
  <2>1. RentalSound' BY <1>3, RentalKept
  <2>2. QED BY <1>3, <2>1, BillingTypes
    DEF TypeOK, smsVars, SmsTypeOK, GoodRuns, DialTypeOK, RentalSound
<1>4. CASE RentalStep /\ UNCHANGED <<dial, smsVars, type>>
  <2>1. RentalSound' BY <1>4, RentalStepSound
  <2>2. credits' \in Int
    <3>1. credits \in Int /\ Rent \in Int BY RentalConstantsOK DEF TypeOK, OutreachTypeOK
    <3>2. UNCHANGED credits \/ \E k \in RentDue : DebitRent(k) BY <1>4, RentalDebits
    <3>3. QED BY <3>1, <3>2 DEF DebitRent
  <2>3. OutreachTypeOK' BY <1>4, <2>2, ApartStep DEF Apart, TypeOK, OutreachTypeOK
  <2>4. DialTypeOK' /\ SmsTypeOK' /\ GoodRuns' /\ type' = type
    BY <1>4 DEF TypeOK, smsVars, SmsTypeOK, GoodRuns, DialTypeOK
  <2>5. QED BY <2>1, <2>3, <2>4 DEF TypeOK, RentalSound
<1>5. CASE UNCHANGED vars
  <2>1. RentalSound' BY <1>5, RentalKept DEF vars
  <2>2. QED BY <1>5, <2>1 DEF vars, outreachVars, smsVars, TypeOK, OutreachTypeOK, DialTypeOK,
     SmsTypeOK, GoodRuns, RentalSound
<1>6. QED BY <1>1, <1>2, <1>3, <1>4, <1>5 DEF Next

LEMMA InitTypes == Init => TypeOK /\ GoodRuns /\ RentalSound
<1>1. ASSUME Init PROVE OutreachTypeOK
  BY <1>1, FreshEntry, OutreachConstantsOK
  DEF Init, OutreachInit, OutreachTypeOK, NotPlaced, NoRow, Usage, Row, Job
<1>2. ASSUME Init PROVE DialTypeOK
  BY <1>2 DEF Init, DialInit, DialTypeOK, Dial
<1>3. ASSUME Init PROVE SmsTypeOK /\ GoodRuns
  BY <1>3, NoRunType DEF Init, SmsInit, SmsTypeOK, GoodRuns, GoodRun
<1>4. ASSUME Init PROVE RentalSound
  BY <1>4, RentalSoundInit DEF Init
<1>5. QED BY <1>1, <1>2, <1>3, <1>4 DEF Init, TypeOK, RentalSound

\* The state has the types the model declares, whatever the faults.
THEOREM Typed == Spec => []TypeOK
<1>1. TypeOK /\ GoodRuns /\ RentalSound /\ [Next]_vars => (TypeOK /\ GoodRuns /\ RentalSound)'
  BY TypeStep
<1>2. QED BY <1>1, InitTypes, PTL DEF Spec

LEMMA InitSound == Init => Sound
<1> SUFFICES ASSUME Init PROVE Sound
  OBVIOUS
<1>1. UsesOK BY DEF Init, OutreachInit, UsesOK, GoodUse, NotPlaced
<1>2. LegsOK BY DEF Init, OutreachInit, LegsOK, RowsOK, NotPlaced, Legs, News
<1>3. AskedOK BY OutreachConstantsOK DEF Init, DialInit, AskedOK
<1>4. QED BY <1>1, <1>2, <1>3, InitTypes DEF Sound

\* What every step keeps of every call and text.
AllKept == \A u \in Usages : Kept(usage[u], usage'[u])

LEMMA EveryStepKeeps ==
  ASSUME TypeOK, GoodRuns, RentalSound, UsesOK, [Next]_vars
  PROVE  UsesOK' /\ AllKept
<1>1. AllMove BY EveryStepMoves
<1>2. TypeOK' BY TypeStep
<1>3. ASSUME NEW u \in Usages
      PROVE  GoodUse(usage'[u]) /\ Kept(usage[u], usage'[u])
  <2>1. usage[u] \in Usage /\ usage'[u] \in Usage BY <1>2 DEF TypeOK, OutreachTypeOK
  <2>2. QED BY <1>1, <2>1, MovesKeep DEF UsesOK, AllMove
<1>4. QED BY <1>3 DEF UsesOK, AllKept

LEMMA DueGrows == ASSUME AllKept PROVE Due \subseteq Due'
BY DEF AllKept, Kept, Due, Legs

LEMMA EveryStepRows ==
  ASSUME Sound, [Next]_vars
  PROVE  RowStep /\ JobStep
<1>1. CASE Apart BY <1>1, NoRowStep DEF Apart
<1>2. QED BY <1>1, NextCases, BillingRows, DialRows, SmsRows DEF Sound, TypeOK

LEMMA LegsStep == ASSUME Sound, [Next]_vars PROVE LegsOK'
<1>1. RowStep /\ JobStep BY EveryStepRows
<1>2. AllKept /\ UsesOK' BY EveryStepKeeps DEF Sound
<1>3. Due \subseteq Due' BY <1>2, DueGrows
<1>4. ASSUME NEW u \in Usages PROVE RowsOK(u)'
  <2>1. RowsOK(u) /\ Kept(usage[u], usage'[u]) BY <1>2 DEF Sound, LegsOK, AllKept
  <2>2. \A s \in Sides : <<u, s>> \in Legs /\ <<u, s>>[1] = u BY DEF Legs
  <2>3. ASSUME usage'[u].kind = "none"
        PROVE  (\A s \in Sides : row'[<<u, s>>] = NoRow) /\ job'[u]["final"] = "none"
    <3>1. usage[u].kind = "none" BY <2>1, <2>3 DEF Kept
    <3>2. QED BY <1>1, <2>1, <2>2, <3>1 DEF RowsOK, RowStep, JobStep
  <2>4. ASSUME usage'[u].kind = "call", NEW s \in Sides, row'[<<u, s>>].timed
        PROVE  <<u, s>> \in Due'
    <3>1. usage[u].kind \in {"none", "call"}
      BY <2>1, <2>4 DEF Kept, Sound, TypeOK, OutreachTypeOK, Usage
    <3>2. row[<<u, s>>].timed \/ <<u, s>> \in Due
      BY <1>1, <2>2, <2>4, <3>1 DEF RowStep
    <3>3. usage[u].kind = "call" BY <1>1, <2>1, <2>2, <2>4, <3>1 DEF RowsOK, NoRow, RowStep
    <3>4. QED BY <1>3, <2>1, <3>2, <3>3 DEF RowsOK
  <2>5. ASSUME usage'[u].kind = "text", job'[u]["final"] # "none"
        PROVE  usage'[u].stage = "over"
    <3>1. usage[u].kind \in {"none", "text"}
      BY <2>1, <2>5 DEF Kept, Sound, TypeOK, OutreachTypeOK, Usage
    <3>2. QED BY <1>1, <2>1, <2>5, <3>1 DEF RowsOK, JobStep, Kept
  <2>6. QED BY <2>3, <2>4, <2>5 DEF RowsOK
<1>5. QED BY <1>4 DEF LegsOK

\* A request that is not at the saving of its call.
LEMMA RestAsked ==
  ASSUME TypeOK, AskedOK, AllKept, NEW t \in Tabs, Rest(t)
  PROVE  AskedOK'
<1>1. \A s \in Tabs : dial'[s] = dial[s] \/ (dial'[s].pc = "idle" /\ dial'[s].call = NoUsage)
  BY DEF Rest, Idle, TypeOK, DialTypeOK, Dial
<1>2. QED BY <1>1, OutreachConstantsOK DEF AskedOK, AllKept, Kept

LEMMA GotoAsked ==
  ASSUME TypeOK, AskedOK, AllKept, NEW t \in Tabs, NEW p, Goto(t, p),
         p \in {"save", "hangup"} <=> dial[t].pc \in {"save", "hangup"}
  PROVE  AskedOK'
<1>1. \A s \in Tabs : dial'[s].call = dial[s].call
                      /\ (dial'[s].pc = dial[s].pc \/ (s = t /\ dial'[s].pc = p))
  BY DEF Goto, TypeOK, DialTypeOK, Dial
<1>2. QED BY <1>1, OutreachConstantsOK DEF AskedOK, AllKept, Kept

LEMMA AskedStep == ASSUME Sound, [Next]_vars PROVE AskedOK'
<1>1. AllKept BY EveryStepKeeps DEF Sound
<1>2. CASE UNCHANGED dial BY <1>1, <1>2 DEF Sound, AskedOK, AllKept, Kept
<1>3. ASSUME NEW t \in Tabs, NEW c \in Contacts, StartDial(t, c) PROVE AskedOK'
  <2>1. \A s \in Tabs : /\ dial'[s].call = dial[s].call
                        /\ dial'[s].pc = dial[s].pc \/ (dial[s].pc = "idle" /\ dial'[s].pc = "claim")
    BY <1>3 DEF StartDial, Sound, TypeOK, DialTypeOK, Dial
  <2>2. QED BY <1>1, <2>1 DEF Sound, AskedOK, AllKept, Kept
<1>4. ASSUME NEW t \in Tabs, ClaimForDial(t) PROVE AskedOK'
  BY <1>1, <1>4, GotoAsked, RestAsked DEF ClaimForDial, Sound
<1>5. ASSUME NEW t \in Tabs, CreateCall(t) PROVE AskedOK'
  <2>1. CASE Rest(t) BY <1>1, <2>1, RestAsked DEF Sound
  <2>2. ASSUME NEW u \in Usages, Places(t, u) PROVE AskedOK'
    <3>1. u \in Usages /\ usage[u].kind = "none" /\ u # NoUsage
      BY <2>2, OutreachConstantsOK DEF Places, Unused
    <3>2. usage'[u].kind = "call" /\ usage'[u].by = t
      BY <2>2, <3>1 DEF Places, Ringing, NotPlaced, Sound, TypeOK, OutreachTypeOK
    <3>3. dial'[t].pc = "save" /\ dial'[t].call = u /\ \A s \in Tabs \ {t} : dial'[s] = dial[s]
      BY <2>2 DEF Places, Sound, TypeOK, DialTypeOK, Dial
    <3>4. ASSUME NEW s \in Tabs, NEW v \in Usages, dial'[s].call = v
          PROVE  usage'[v].kind = "call" /\ usage'[v].by = s
      <4>1. CASE s = t BY <3>2, <3>3, <3>4, <4>1
      <4>2. CASE s # t
        BY <1>1, <3>3, <3>4, <4>2 DEF Sound, AskedOK, AllKept, Kept
      <4>3. QED BY <4>1, <4>2
    <3>5. QED BY <3>1, <3>3, <3>4 DEF Sound, AskedOK
  <2>3. QED BY <1>2, <1>5, <2>1, <2>2, CreateCases
<1>6. ASSUME NEW t \in Tabs, SaveCall(t) PROVE AskedOK'
  BY <1>1, <1>6, GotoAsked, RestAsked DEF SaveCall, Sound
<1>7. ASSUME NEW t \in Tabs, HangUpUntracked(t) \/ KillDial(t) PROVE AskedOK'
  BY <1>1, <1>7, RestAsked DEF HangUpUntracked, KillDial, Sound
<1>8. ASSUME \/ \E t \in Tabs : \/ \E u \in Usages : HangUp(t, u)
                                \/ FetchMore(t) \/ LeaveScreen(t)
             \/ \E c \in Contacts : Enqueue(c) /\ UNCHANGED dial
      PROVE  UNCHANGED dial
  BY <1>8 DEF HangUp, FetchMore, LeaveScreen
<1>9. CASE DialStep BY <1>2, <1>3, <1>4, <1>5, <1>6, <1>7, <1>8, <1>9 DEF DialStep
<1>10. QED BY <1>2, <1>9 DEF Next, vars

LEMMA SoundStep == Sound /\ [Next]_vars => Sound'
BY TypeStep, EveryStepKeeps, LegsStep, AskedStep DEF Sound

LEMMA AlwaysSound == Spec => []Sound
BY InitSound, SoundStep, PTL DEF Spec

LEMMA AccountInit == Init => A!Init
<1> SUFFICES ASSUME Init PROVE A!Init
  OBVIOUS
<1>1. Due = {} BY DEF Init, OutreachInit, Due, NotPlaced, Legs
<1>2. RentDue = {}
  <2>1. \A n \in Numbers : number[n].age = -1 BY DEF Init, RentalInit, OnOffer
  <2>2. QED BY <2>1, RentalConstantsOK DEF RentDue
<1>3. QED BY <1>1, <1>2 DEF Init, OutreachInit, RentalInit, A!Init

\* Legs and months are different events, at prices of their own.
LEMMA Prices ==
  /\ Legs \cap Rentals = {}
  /\ \A k \in Legs : PriceOf[k] = Price
  /\ \A k \in Rentals : PriceOf[k] = Rent
<1>1. \A k \in Legs : k[1] \in Usages BY DEF Legs
<1>2. \A k \in Rentals : k[1] \in Numbers BY DEF Rentals
<1>3. Numbers \cap Usages = {} BY RentalConstantsOK
<1>4. QED BY <1>1, <1>2, <1>3 DEF PriceOf

\* One step of the system is one of the account's, or none.
LEMMA AccountStep == Sound /\ [Next]_vars => [A!Next]_A!vars
<1> SUFFICES ASSUME Sound, [Next]_vars PROVE [A!Next]_A!vars
  OBVIOUS
<1>1. (Pays /\ UNCHANGED rentalVars) \/ (RentalStep /\ Apart) BY EveryStepPays DEF Sound
<1>2. Due \subseteq Due' BY EveryStepKeeps, DueGrows DEF Sound
<1>3. Due \subseteq Legs /\ Due' \subseteq Legs /\ RentDue \subseteq Rentals /\ RentDue' \subseteq Rentals
      /\ ledger \subseteq Legs /\ rents \subseteq Rentals
  BY DEF Due, RentDue, Rentals, Sound, TypeOK, OutreachTypeOK, RentalTypeOK
<1>4. ASSUME UNCHANGED <<ledger, rents, topups, credits>>, RentDue \subseteq RentDue'
      PROVE  [A!Next]_A!vars
  <2>1. A!Use BY <1>2, <1>3, <1>4 DEF A!Use
  <2>2. QED BY <2>1 DEF A!Next
<1>5. CASE UNCHANGED rentalVars /\ Pays
  <2>1. RentDue' = RentDue /\ rents' = rents BY <1>5 DEF rentalVars, RentDue
  <2>2. CASE UNCHANGED <<ledger, topups, credits>> BY <1>4, <2>1, <2>2
  <2>3. ASSUME NEW k \in Due, UNCHANGED <<usage, topups>>, Debit(k) PROVE [A!Next]_A!vars
    <3>1. Due' = Due BY <2>3 DEF Due
    <3>2. CASE k \in ledger
      <4>1. ledger' = ledger /\ credits' = credits BY <2>3, <3>2 DEF Debit
      <4>2. QED BY <2>1, <2>3, <3>1, <4>1 DEF A!vars
    <3>3. CASE k \notin ledger
      <4>1. k \notin rents /\ PriceOf[k] = Price BY <1>3, <2>3, Prices
      <4>2. A!Charge(k) BY <2>1, <2>3, <3>1, <3>3, <4>1 DEF A!Charge, Debit
      <4>3. QED BY <1>3, <4>2 DEF A!Next
    <3>4. QED BY <3>2, <3>3
  <2>4. ASSUME NEW s \in Sessions, UNCHANGED <<usage, ledger>>, CreditSession(s)
        PROVE  [A!Next]_A!vars
    <3>1. Due' = Due BY <2>4 DEF Due
    <3>2. CASE s \in topups
      <4>1. topups' = topups /\ credits' = credits BY <2>4, <3>2 DEF CreditSession
      <4>2. QED BY <2>1, <2>4, <3>1, <4>1 DEF A!vars
    <3>3. CASE s \notin topups
      <4>1. A!Credit(s) BY <2>1, <2>4, <3>1, <3>3 DEF A!Credit, CreditSession
      <4>2. QED BY <4>1 DEF A!Next
    <3>4. QED BY <3>2, <3>3
  <2>5. QED BY <1>5, <2>2, <2>3, <2>4 DEF Pays
<1>6. CASE RentalStep /\ Apart
  <2>1. UNCHANGED <<ledger, topups>> /\ Due' = Due BY <1>6 DEF Apart, Due
  <2>2. RentDue \subseteq RentDue' BY <1>6, RentalDebits DEF Sound
  <2>3. CASE UNCHANGED <<rents, credits>> BY <1>4, <2>1, <2>2, <2>3
  <2>4. ASSUME NEW k \in RentDue, RentDue' = RentDue, DebitRent(k) PROVE [A!Next]_A!vars
    <3>1. CASE k \in rents
      <4>1. rents' = rents /\ credits' = credits BY <2>4, <3>1 DEF DebitRent
      <4>2. QED BY <2>1, <2>4, <4>1 DEF A!vars
    <3>2. CASE k \notin rents
      <4>1. k \notin ledger /\ PriceOf[k] = Rent BY <1>3, <2>4, Prices
      <4>2. A!Charge(k) BY <2>1, <2>4, <3>2, <4>1 DEF A!Charge, DebitRent
      <4>3. QED BY <1>3, <4>2 DEF A!Next
    <3>3. QED BY <3>1, <3>2
  <2>5. QED BY <1>6, <2>3, <2>4, RentalDebits DEF Sound
<1>7. QED BY <1>1, <1>5, <1>6

\* Whatever calls, texts, callbacks, jobs, polls, sweeps and payments there are, and
\* whatever of them is lost, repeated or cut short, the ledger and the balance do what
\* the account promises.
THEOREM ImplementsAccount == Spec => RefinesAccount
BY AccountInit, AccountStep, AlwaysSound, PTL DEF Spec, RefinesAccount, A!Spec

\* The balance is inductive from the steps of the account.
LEMMA FiniteLegs == IsFiniteSet(Legs)
<1>1. IsFiniteSet(Sides)
  <2>1. IsFiniteSet({"agent"}) /\ IsFiniteSet({"contact"}) BY FS_Singleton
  <2>2. Sides = {"agent"} \cup {"contact"} BY DEF Sides
  <2>3. QED BY <2>1, <2>2, FS_Union
<1>2. QED BY <1>1, FS_Product, OutreachConstantsOK DEF Legs

LEMMA FiniteRentals == IsFiniteSet(Rentals)
<1>1. IsFiniteSet(0..LastCycle) BY RentalConstantsOK, FS_Interval
<1>2. QED BY <1>1, FS_Product, RentalConstantsOK DEF Rentals

\* A new entry counts once.
LEMMA OneMore ==
  ASSUME NEW S, IsFiniteSet(S), NEW k, k \notin S, NEW p \in Int
  PROVE  /\ Cardinality(S) \in Int
         /\ p * Cardinality(S \cup {k}) = p * Cardinality(S) + p
<1>1. Cardinality(S) \in Nat /\ Cardinality(S \cup {k}) = Cardinality(S) + 1
  BY FS_AddElement, FS_CardinalityType
<1>2. \A m \in Int : p * (m + 1) = p * m + p OBVIOUS
<1>3. QED BY <1>1, <1>2

LEMMA BalanceStep == Sound /\ BalanceIsLedger /\ [Next]_vars => BalanceIsLedger'
<1> SUFFICES ASSUME Sound, BalanceIsLedger, [Next]_vars PROVE BalanceIsLedger'
  OBVIOUS
<1>1. IsFiniteSet(ledger) /\ IsFiniteSet(topups) /\ IsFiniteSet(rents)
  BY FiniteLegs, FiniteRentals, FS_Subset, OutreachConstantsOK
  DEF Sound, TypeOK, OutreachTypeOK, RentalTypeOK, Rentals
<1> DEFINE p == Price * Cardinality(ledger)
           q == TopUp * Cardinality(topups)
           r == Rent * Cardinality(rents)
<1>2. Price \in Int /\ TopUp \in Int /\ OpeningCredits \in Int /\ Rent \in Int
      /\ p \in Int /\ q \in Int /\ r \in Int
  <2>1. Price \in Int /\ TopUp \in Int /\ OpeningCredits \in Int /\ Rent \in Int
    BY OutreachConstantsOK, RentalConstantsOK
  <2>2. Cardinality(ledger) \in Int /\ Cardinality(topups) \in Int /\ Cardinality(rents) \in Int
    BY <1>1, FS_CardinalityType
  <2>3. QED BY <2>1, <2>2
<1>3. credits = OpeningCredits + q - p - r BY DEF BalanceIsLedger
<1>4. (Pays /\ UNCHANGED rentalVars) \/ (RentalStep /\ Apart) BY EveryStepPays DEF Sound
<1>5. CASE UNCHANGED <<ledger, topups, rents, credits>> BY <1>5 DEF BalanceIsLedger
<1>6. ASSUME NEW k, UNCHANGED <<topups, rents>>, Debit(k) PROVE BalanceIsLedger'
  <2>1. CASE k \in ledger
    <3>1. ledger' = ledger /\ credits' = credits BY <1>6, <2>1 DEF Debit
    <3>2. QED BY <1>5, <1>6, <3>1
  <2>2. CASE k \notin ledger
    <3>1. p' = p + Price /\ q' = q /\ r' = r
      BY <1>1, <1>2, <1>6, <2>2, OneMore DEF Debit
    <3>2. credits' = credits - Price BY <1>6, <2>2 DEF Debit
    <3> HIDE DEF p, q, r
    <3>3. credits' = OpeningCredits + q' - p' - r' BY <1>2, <1>3, <3>1, <3>2
    <3>4. QED BY <3>3 DEF p, q, r, BalanceIsLedger
  <2>3. QED BY <2>1, <2>2
<1>7. ASSUME NEW s, UNCHANGED <<ledger, rents>>, CreditSession(s) PROVE BalanceIsLedger'
  <2>1. CASE s \in topups
    <3>1. topups' = topups /\ credits' = credits BY <1>7, <2>1 DEF CreditSession
    <3>2. QED BY <1>5, <1>7, <3>1
  <2>2. CASE s \notin topups
    <3>1. p' = p /\ q' = q + TopUp /\ r' = r
      BY <1>1, <1>2, <1>7, <2>2, OneMore DEF CreditSession
    <3>2. credits' = credits + TopUp BY <1>7, <2>2 DEF CreditSession
    <3> HIDE DEF p, q, r
    <3>3. credits' = OpeningCredits + q' - p' - r' BY <1>2, <1>3, <3>1, <3>2
    <3>4. QED BY <3>3 DEF p, q, r, BalanceIsLedger
  <2>3. QED BY <2>1, <2>2
<1>8. ASSUME NEW k, UNCHANGED <<ledger, topups>>, DebitRent(k) PROVE BalanceIsLedger'
  <2>1. CASE k \in rents
    <3>1. rents' = rents /\ credits' = credits BY <1>8, <2>1 DEF DebitRent
    <3>2. QED BY <1>5, <1>8, <3>1
  <2>2. CASE k \notin rents
    <3>1. p' = p /\ q' = q /\ r' = r + Rent
      BY <1>1, <1>2, <1>8, <2>2, OneMore DEF DebitRent
    <3>2. credits' = credits - Rent BY <1>8, <2>2 DEF DebitRent
    <3> HIDE DEF p, q, r
    <3>3. credits' = OpeningCredits + q' - p' - r' BY <1>2, <1>3, <3>1, <3>2
    <3>4. QED BY <3>3 DEF p, q, r, BalanceIsLedger
  <2>3. QED BY <2>1, <2>2
<1>9. CASE Pays /\ UNCHANGED rentalVars
  BY <1>5, <1>6, <1>7, <1>9 DEF Pays, rentalVars
<1>10. CASE RentalStep /\ Apart
  BY <1>5, <1>8, <1>10, RentalDebits DEF Apart, Sound
<1>11. QED BY <1>4, <1>9, <1>10

LEMMA BalanceInit == Init => BalanceIsLedger
<1>1. Cardinality({}) = 0 BY FS_EmptySet
<1>2. ASSUME Init PROVE credits = OpeningCredits /\ topups = {} /\ ledger = {} /\ rents = {}
  BY <1>2 DEF Init, OutreachInit, RentalInit
<1>3. OpeningCredits = OpeningCredits + TopUp * 0 - Price * 0 - Rent * 0
  BY OutreachConstantsOK, RentalConstantsOK
<1>4. QED BY <1>1, <1>2, <1>3 DEF BalanceIsLedger

\* The balance is what the ledger adds up to, however often an entry is repeated.
THEOREM BalanceHolds == Spec => []BalanceIsLedger
BY BalanceInit, BalanceStep, AlwaysSound, PTL DEF Spec

-----------------------------------------------------------------------------
(* The calls of the manual dialer.                                         *)

\* Only what a request places or a batch sends was not there before.
LEMMA GoesOld ==
  ASSUME NEW e, NEW f, GoodUse(e), Goes(e, f), e.kind = "none"
  PROVE  f.stage = "none"
<1>1. e.stage = "none" /\ e.news = {} BY DEF GoodUse
<1>2. CASE f = e BY <1>1, <1>2
<1>3. CASE \E S \in SUBSET e.news : f = [e EXCEPT !.news = S] BY <1>1, <1>3
<1>4. CASE f = [e EXCEPT !.adrift = TRUE] BY <1>1, <1>4
<1>5. QED BY <1>1, <1>2, <1>3, <1>4 DEF Goes

\* A call that is on was on before, or is placed by this step.
LEMMA LiveCalls ==
  ASSUME Sound, [Next]_vars, NEW u \in Usages, Live(u)'
  PROVE  \/ usage[u].kind = "call" /\ Live(u)
         \/ \E t \in Tabs : Places(t, u) \/ Strays(t, u)
<1>1. GoodUse(usage[u]) /\ usage[u] \in Usage BY DEF Sound, UsesOK, TypeOK, OutreachTypeOK
<1>2. CASE Goes(usage[u], usage'[u])
  <2>1. usage[u].kind # "none" BY <1>1, <1>2, GoesOld DEF Live
  <2>2. Kept(usage[u], usage'[u]) BY EveryStepKeeps DEF Sound, AllKept
  <2>3. Live(u) BY <2>1, <2>2 DEF Kept, Live
  <2>4. QED BY <1>1, <2>1, <2>3 DEF GoodUse, Usage, Live
<1>3. ASSUME NEW t \in Tabs, NEW v \in Usages, Places(t, v) \/ Strays(t, v), v # u
      PROVE  Goes(usage[u], usage'[u])
  BY <1>3 DEF Places, Strays, Goes, Sound, TypeOK, OutreachTypeOK
<1>4. ASSUME NEW d \in Dispatchers, NEW c \in Contacts, NEW v \in Usages, Sends(d, c, v)
      PROVE  Goes(usage[u], usage'[u])
  <2>1. PICK e : usage' = [usage EXCEPT ![v] = e]
                 /\ e \in {Texted(d, c), [Texted(d, c) EXCEPT !.adrift = TRUE]}
    BY <1>4 DEF Sends
  <2>2. e.stage = "accepted" BY <2>1 DEF Texted, NotPlaced
  <2>3. v # u BY <2>1, <2>2 DEF Live, Sound, TypeOK, OutreachTypeOK
  <2>4. QED BY <2>1, <2>3 DEF Goes, Sound, TypeOK, OutreachTypeOK
<1>5. CASE AllGo BY <1>2, <1>5 DEF AllGo
<1>6. CASE Apart BY <1>5, <1>6, StillGoes DEF Apart
<1>7. CASE BillingStep BY <1>5, <1>7, BillingGoes DEF Sound, TypeOK
<1>8. CASE DialStep BY <1>2, <1>3, <1>5, <1>8, DialGoes DEF Sound, TypeOK
<1>9. CASE SmsStep BY <1>2, <1>4, <1>5, <1>9, SmsGoes DEF Sound, TypeOK
<1>10. QED BY <1>6, <1>7, <1>8, <1>9, NextCases

\* The row of the agent's leg: open, once saved, as long as the call is on.
AgentSaved(u) == row[<<u, "agent">>].state = "open"

LEMMA AgentRows ==
  ASSUME Sound, [Next]_vars, NEW u \in Usages, Live(u)
  PROVE  row'[<<u, "agent">>] = row[<<u, "agent">>] \/ AgentSaved(u)'
<1> DEFINE l == <<u, "agent">>
<1>1. l \in Legs /\ l[1] = u /\ row \in [Legs -> Row]
  BY DEF Legs, Sides, Sound, TypeOK, OutreachTypeOK
<1>2. usage[u].kind = "call" /\ usage[u].stage # "over"
  BY DEF Live, Sound, UsesOK, GoodUse, TypeOK, OutreachTypeOK, Usage
<1>3. ASSUME NEW k, NEW r, row' = row \/ row' = [row EXCEPT ![k] = r], k # l PROVE row'[l] = row[l]
  BY <1>1, <1>3
<1>4. ASSUME NEW v \in Usages, NEW n, CallStatus(v, n) \/ SmsStatus(v, n) PROVE row'[l] = row[l]
  <2>1. \E r : row' = row \/ row' = [row EXCEPT ![<<v, "contact">>] = r]
    BY <1>4 DEF CallStatus, SmsStatus
  <2>2. QED BY <1>3, <2>1
<1>5. ASSUME NEW k \in Legs, PollCall(k) \/ OpenSyncCall(k) \/ OpenSyncText(k) PROVE row'[l] = row[l]
  <2>1. usage[k[1]].kind = "text" \/ usage[k[1]].stage = "over"
    BY <1>5 DEF PollCall, OpenSyncCall, OpenSyncText
  <2>2. k # l BY <1>1, <1>2, <2>1
  <2>3. \E r : row' = [row EXCEPT ![k] = r] BY <1>5 DEF PollCall, OpenSyncCall, OpenSyncText
  <2>4. QED BY <1>3, <2>2, <2>3
<1>6. ASSUME NEW t \in Tabs, SaveCall(t) PROVE row'[l] = row[l] \/ AgentSaved(u)'
  <2>1. CASE row' = row BY <2>1
  <2>2. CASE row' = [row EXCEPT ![<<dial[t].call, "agent">>].state = "open"]
    <3>1. CASE dial[t].call = u
      <4>1. row'[l] = [row[l] EXCEPT !.state = "open"] BY <1>1, <2>2, <3>1
      <4>2. QED BY <1>1, <4>1 DEF AgentSaved, Row
    <3>2. CASE dial[t].call # u BY <1>1, <2>2, <3>2
    <3>3. QED BY <3>1, <3>2
  <2>3. QED BY <1>6, <2>1, <2>2 DEF SaveCall
<1>7. ASSUME NEW d \in Dispatchers, NEW c \in Contacts, RecordText(d, c) PROVE row'[l] = row[l]
  <2>1. PICK v : \E r : row' = row \/ row' = [row EXCEPT ![<<v, "contact">>] = r]
    BY <1>7 DEF RecordText
  <2>2. QED BY <1>3, <2>1
<1>8. CASE UNCHANGED row BY <1>8
<1>9. CASE BillingStep
  <2>1. ASSUME \/ \E s \in Sessions : ConfirmPayment(s)
               \/ \E v \in Usages : AgentAnswers(v) \/ CallEnds(v) \/ TextMoves(v)
               \/ \E v \in Usages, n \in News : LoseCallback(v, n) \/ RunJob(v, n) \/ BuryJob(v, n)
        PROVE  UNCHANGED row
    BY <2>1 DEF ConfirmPayment, AgentAnswers, CallEnds, TextMoves, LoseCallback, RunJob, BuryJob
  <2>2. Followed \subseteq Usages /\ Followed \X Sides \subseteq Legs BY FollowedUsages DEF Legs
  <2>3. QED BY <1>4, <1>5, <1>8, <1>9, <2>1, <2>2 DEF BillingStep
<1>10. CASE DialStep
  <2>1. ASSUME NEW t \in Tabs,
               \/ \E c \in Contacts : StartDial(t, c)
               \/ ClaimForDial(t) \/ CreateCall(t) \/ HangUpUntracked(t) \/ KillDial(t)
               \/ \E v \in Usages : HangUp(t, v)
               \/ FetchMore(t) \/ LeaveScreen(t)
        PROVE  UNCHANGED row
    BY <2>1 DEF StartDial, outreachVars, ClaimForDial, CreateCall, HangUpUntracked, KillDial,
       HangUp, FetchMore, LeaveScreen
  <2>2. ASSUME NEW c \in Contacts, Enqueue(c) PROVE UNCHANGED row BY <2>2 DEF Enqueue
  <2>3. QED BY <1>6, <1>8, <1>10, <2>1, <2>2 DEF DialStep
<1>11. CASE SmsStep
  <2>1. ASSUME \/ Launch \/ Pause
               \/ \E d \in Dispatchers : \/ StartJob(d) \/ StartRequest(d) \/ FinishBatch(d)
                                         \/ CompleteJob(d) \/ KillRun(d)
               \/ \E c \in Contacts : EnqueueText(c) \/ StopText(c)
               \/ \E d \in Dispatchers, c \in Contacts :
                    DropOptedOut(d, c) \/ CheckMember(d, c) \/ SendText(d, c)
        PROVE  UNCHANGED row
    BY <2>1 DEF Launch, Pause, StartJob, StartRequest, FinishBatch, CompleteJob, KillRun,
       outreachVars, EnqueueText, Enqueue, StopText, Stop, DropOptedOut, CheckMember, SendText
  <2>2. QED BY <1>7, <1>8, <1>11, <2>1 DEF SmsStep, MemberStep
<1>12. CASE Apart BY <1>8, <1>12 DEF Apart
<1>13. QED BY <1>9, <1>10, <1>11, <1>12, NextCases

\* A request lets go of its call when the row is saved, the call over, or adrift.
LEMMA CallLetGo ==
  ASSUME Sound, [Next]_vars, NEW t \in Tabs, NEW u \in Usages, dial[t].call = u
  PROVE  \/ dial'[t].call = u
         \/ AgentSaved(u)'
         \/ ~Live(u)'
         \/ usage'[u].adrift = TRUE
<1>1. /\ dial \in [Tabs -> Dial] /\ usage \in [Usages -> Usage] /\ row \in [Legs -> Row]
      /\ <<u, "agent">> \in Legs
      /\ u # NoUsage
  BY OutreachConstantsOK DEF Sound, TypeOK, OutreachTypeOK, DialTypeOK, Legs, Sides
<1>2. dial[t].pc \in {"save", "hangup"} BY <1>1 DEF Sound, AskedOK
<1>3. ASSUME NEW s \in Tabs, Rest(s) \/ (\E pc : Goto(s, pc)), s # t PROVE dial'[t].call = u
  BY <1>1, <1>3 DEF Rest, Goto
<1>4. ASSUME NEW s \in Tabs, \E c \in Contacts : StartDial(s, c) PROVE dial'[t].call = u
  BY <1>1, <1>4 DEF StartDial, Dial
<1>5. ASSUME NEW s \in Tabs, ClaimForDial(s) \/ CreateCall(s) PROVE dial'[t].call = u
  <2>1. dial[s].pc \notin {"save", "hangup"} BY <1>5 DEF ClaimForDial, CreateCall
  <2>2. s # t BY <1>2, <2>1
  <2>3. CASE ClaimForDial(s) BY <1>3, <2>2, <2>3 DEF ClaimForDial
  <2>4. CASE CreateCall(s)
    <3>1. ASSUME NEW v, Places(s, v) PROVE dial'[t].call = u BY <1>1, <2>2, <3>1 DEF Places
    <3>2. QED BY <1>3, <2>2, <2>4, <3>1, CreateCases
  <2>5. QED BY <1>5, <2>3, <2>4
<1>6. ASSUME NEW s \in Tabs, SaveCall(s) PROVE dial'[t].call = u \/ AgentSaved(u)'
  <2>1. CASE s = t
    <3>1. CASE Goto(t, "hangup") BY <1>1, <3>1 DEF Goto, Dial
    <3>2. CASE row' = [row EXCEPT ![<<u, "agent">>].state = "open"]
      <4>1. row'[<<u, "agent">>] = [row[<<u, "agent">>] EXCEPT !.state = "open"] BY <1>1, <3>2
      <4>2. QED BY <1>1, <4>1 DEF AgentSaved, Row
    <3>3. QED BY <1>6, <2>1, <3>1, <3>2 DEF SaveCall
  <2>2. CASE s # t BY <1>3, <1>6, <2>2 DEF SaveCall
  <2>3. QED BY <2>1, <2>2
<1>7. ASSUME NEW s \in Tabs, HangUpUntracked(s)
      PROVE  dial'[t].call = u \/ ~Live(u)' \/ usage'[u].adrift = TRUE
  <2>1. CASE s = t
    <3>1. CASE usage' = [usage EXCEPT ![u].adrift = TRUE]
      <4>1. usage'[u] = [usage[u] EXCEPT !.adrift = TRUE] BY <1>1, <3>1
      <4>2. QED BY <1>1, <4>1 DEF Usage
    <3>2. ASSUME NEW answered \in BOOLEAN,
                 usage' = [usage EXCEPT ![u] = IF Live(u) THEN Ended(@, answered) ELSE @]
          PROVE  ~Live(u)'
      <4>1. usage'[u] = IF Live(u) THEN Ended(usage[u], answered) ELSE usage[u] BY <1>1, <3>2
      <4>2. Ended(usage[u], answered).stage = "over" BY <1>1 DEF Ended, Usage
      <4>3. QED BY <4>1, <4>2 DEF Live
    <3>3. QED BY <1>7, <2>1, <3>1, <3>2 DEF HangUpUntracked
  <2>2. CASE s # t BY <1>3, <1>7, <2>2 DEF HangUpUntracked
  <2>3. QED BY <2>1, <2>2
<1>8. ASSUME NEW s \in Tabs, KillDial(s) PROVE dial'[t].call = u \/ usage'[u].adrift = TRUE
  <2>1. CASE s = t
    <3>1. usage' = [usage EXCEPT ![u].adrift = TRUE] BY <1>1, <1>8, <2>1 DEF KillDial
    <3>2. usage'[u] = [usage[u] EXCEPT !.adrift = TRUE] BY <1>1, <3>1
    <3>3. QED BY <1>1, <3>2 DEF Usage
  <2>2. CASE s # t BY <1>3, <1>8, <2>2 DEF KillDial
  <2>3. QED BY <2>1, <2>2
<1>9. CASE UNCHANGED dial BY <1>9
<1>10. ASSUME \/ \E s \in Tabs : \/ \E v \in Usages : HangUp(s, v)
                                 \/ FetchMore(s) \/ LeaveScreen(s)
              \/ \E c \in Contacts : Enqueue(c) /\ UNCHANGED dial
       PROVE  UNCHANGED dial
  BY <1>10 DEF HangUp, FetchMore, LeaveScreen
<1>11. CASE DialStep BY <1>4, <1>5, <1>6, <1>7, <1>8, <1>9, <1>10, <1>11 DEF DialStep
<1>12. QED BY <1>9, <1>11 DEF Next, vars

Tracked ==
  \A u \in Usages :
    Live(u) => \/ AgentSaved(u)
               \/ \E t \in Tabs : dial[t].call = u
               \/ usage[u].adrift = TRUE

LEMMA TrackedStep == Sound /\ Tracked /\ [Next]_vars => Tracked'
<1> SUFFICES ASSUME Sound, Tracked, [Next]_vars, NEW u \in Usages, Live(u)'
             PROVE  \/ AgentSaved(u)'
                    \/ \E t \in Tabs : dial'[t].call = u
                    \/ usage'[u].adrift = TRUE
  BY DEF Tracked
<1>1. ASSUME NEW t \in Tabs, Places(t, u) \/ Strays(t, u)
      PROVE  dial'[t].call = u \/ usage'[u].adrift = TRUE
  <2>1. CASE Places(t, u) BY <2>1 DEF Places, Sound, TypeOK, DialTypeOK, Dial
  <2>2. CASE Strays(t, u)
    BY <2>2 DEF Strays, Ringing, NotPlaced, Sound, TypeOK, OutreachTypeOK
  <2>3. QED BY <1>1, <2>1, <2>2
<1>2. ASSUME Live(u), usage[u].adrift = TRUE, usage[u].kind = "call" PROVE usage'[u].adrift = TRUE
  <2>1. Kept(usage[u], usage'[u]) BY EveryStepKeeps DEF Sound, AllKept
  <2>2. Sound' BY SoundStep
  <2>3. usage'[u].adrift \in BOOLEAN BY <2>2 DEF Sound, TypeOK, OutreachTypeOK, Usage
  <2>4. usage'[u].adrift BY <1>2, <2>1 DEF Kept
  <2>5. QED BY <2>3, <2>4
<1>3. ASSUME Live(u), usage[u].kind = "call"
      PROVE  \/ AgentSaved(u)'
             \/ \E t \in Tabs : dial'[t].call = u
             \/ usage'[u].adrift = TRUE
  BY <1>2, <1>3, AgentRows, CallLetGo DEF Tracked, AgentSaved
<1>4. QED BY <1>1, <1>3, LiveCalls

LEMMA TrackedInit == Init => Tracked
BY DEF Init, OutreachInit, Tracked, Live, NotPlaced

LEMMA AlwaysTracked == Spec => [](Sound /\ Tracked)
BY InitSound, SoundStep, TrackedInit, TrackedStep, PTL DEF Spec

\* Whoever hangs up and whatever statement fails, a call that is on can be found by its
\* row or is still in the hands of its request, unless that was killed, could not hang
\* up, or never got the call's SID from Twilio.
THEOREM NoCallLost == Spec => []CallTracked
<1>1. Tracked => CallTracked
  <2> SUFFICES ASSUME Tracked PROVE CallTracked
    OBVIOUS
  <2>1. \A u \in Usages : AgentSaved(u) => Owned(<<u, "agent">>) BY DEF AgentSaved, Owned
  <2>2. QED BY <2>1 DEF Tracked, CallTracked
<1>2. QED BY <1>1, AlwaysTracked, PTL
\* The claim that lets a request go on.
Passes(t) ==
  /\ dial[t].pc = "claim"
  /\ ~ActiveCall(dial[t].contact)
  /\ UNCHANGED usage
  /\ dial'[t].contact = dial[t].contact

LEMMA ReadyToCreate ==
  ASSUME Sound, [Next]_vars, NEW t \in Tabs, dial'[t].pc = "create"
  PROVE  dial'[t] = dial[t] \/ Passes(t)
<1>1. dial \in [Tabs -> Dial] BY DEF Sound, TypeOK, DialTypeOK
<1>2. ASSUME NEW s \in Tabs, Rest(s) PROVE dial'[t] = dial[t]
  <2>1. s # t BY <1>1, <1>2 DEF Rest, Idle, Dial
  <2>2. QED BY <1>1, <1>2, <2>1 DEF Rest
<1>3. ASSUME NEW s \in Tabs, NEW pc, Goto(s, pc), s # t \/ pc # "create" PROVE dial'[t] = dial[t]
  BY <1>1, <1>3 DEF Goto, Dial
<1>4. ASSUME NEW s \in Tabs, NEW c \in Contacts, StartDial(s, c) PROVE dial'[t] = dial[t]
  BY <1>1, <1>4 DEF StartDial, Dial
<1>5. ASSUME NEW s \in Tabs, ClaimForDial(s) PROVE dial'[t] = dial[t] \/ Passes(t)
  <2>1. CASE Rest(s) BY <1>2, <2>1
  <2>2. CASE Goto(s, "create") /\ s # t BY <1>3, <2>2
  <2>3. CASE Goto(s, "create") /\ s = t /\ ~Rest(s)
    <3>1. dial'[t].contact = dial[t].contact BY <1>1, <2>3 DEF Goto, Dial
    <3>2. QED BY <1>5, <2>3, <3>1 DEF ClaimForDial, Passes
  <2>4. QED BY <1>5, <2>1, <2>2, <2>3 DEF ClaimForDial
<1>6. ASSUME NEW s \in Tabs, CreateCall(s) PROVE dial'[t] = dial[t]
  <2>1. CASE Rest(s) BY <1>2, <2>1
  <2>2. ASSUME NEW u, Places(s, u) PROVE dial'[t] = dial[t]
    BY <1>1, <2>2 DEF Places, Dial
  <2>3. QED BY <1>6, <2>1, <2>2, CreateCases
<1>7. ASSUME NEW s \in Tabs, SaveCall(s) PROVE dial'[t] = dial[t]
  BY <1>2, <1>3, <1>7 DEF SaveCall
<1>8. ASSUME NEW s \in Tabs, HangUpUntracked(s) \/ KillDial(s) PROVE dial'[t] = dial[t]
  BY <1>2, <1>8 DEF HangUpUntracked, KillDial
<1>9. ASSUME \/ \E s \in Tabs : \/ \E v \in Usages : HangUp(s, v)
                                \/ FetchMore(s) \/ LeaveScreen(s)
             \/ \E c \in Contacts : Enqueue(c) /\ UNCHANGED dial
      PROVE  UNCHANGED dial
  BY <1>9 DEF HangUp, FetchMore, LeaveScreen
<1>10. CASE DialStep BY <1>4, <1>5, <1>6, <1>7, <1>8, <1>9, <1>10 DEF DialStep
<1>11. QED BY <1>10 DEF Next, vars

\* What makes the claim see a saved call: as long as a call is on, the agent leg's row
\* is open or not there.
SavedOpen ==
  \A u \in Usages : Live(u) => AgentSaved(u) \/ row[<<u, "agent">>].state = "none"

LEMMA SavedOpenStep == Sound /\ SavedOpen /\ [Next]_vars => SavedOpen'
<1> SUFFICES ASSUME Sound, SavedOpen, [Next]_vars, NEW u \in Usages, Live(u)'
             PROVE  AgentSaved(u)' \/ row'[<<u, "agent">>].state = "none"
  BY DEF SavedOpen
<1>1. ASSUME NEW t \in Tabs, Places(t, u) \/ Strays(t, u)
      PROVE  row'[<<u, "agent">>].state = "none"
  <2>1. usage[u].kind = "none" BY <1>1 DEF Places, Strays, Unused
  <2>2. <<u, "agent">> \in Legs /\ <<u, "agent">>[1] = u /\ "agent" \in Sides
    BY DEF Legs, Sides
  <2>3. row[<<u, "agent">>] = NoRow BY <2>1, <2>2 DEF Sound, LegsOK, RowsOK
  <2>4. row'[<<u, "agent">>] = row[<<u, "agent">>] BY <2>1, <2>2, EveryStepRows DEF RowStep
  <2>5. QED BY <2>3, <2>4 DEF NoRow
<1>2. ASSUME Live(u) PROVE AgentSaved(u)' \/ row'[<<u, "agent">>].state = "none"
  BY <1>2, AgentRows DEF SavedOpen, AgentSaved
<1>3. QED BY <1>1, <1>2, LiveCalls

LEMMA SavedOpenInit == Init => SavedOpen
BY DEF Init, OutreachInit, SavedOpen, Live, NotPlaced

LEMMA AlwaysSavedOpen == Spec => [](Sound /\ SavedOpen)
BY InitSound, SoundStep, SavedOpenInit, SavedOpenStep, PTL DEF Spec

\* Whatever callbacks and polls write of a saved call, whoever releases, requeues or
\* fetches its contact, and whatever fails, no claim lets any request dial the contact
\* again while the call is on.
THEOREM OneCallAtATime == Spec => NotDialedAgain
<1>1. ASSUME Sound, SavedOpen, [Next]_vars, NEW t \in Tabs, NEW u \in Usages,
             dial[t].pc = "claim", dial'[t].pc = "create",
             Live(u), usage[u].contact = dial[t].contact
      PROVE  ~Owned(<<u, "agent">>)
  <2>1. ~ActiveCall(dial[t].contact) BY <1>1, ReadyToCreate DEF Passes
  <2>2. usage[u].kind = "call" BY <1>1 DEF Live, Sound, UsesOK, GoodUse, TypeOK, OutreachTypeOK, Usage
  <2>3. <<u, "agent">> \in Legs /\ <<u, "agent">>[1] = u BY DEF Legs, Sides
  <2>4. ~AgentSaved(u) BY <1>1, <2>1, <2>2, <2>3 DEF ActiveCall, AgentSaved
  <2>5. QED BY <1>1, <2>4 DEF SavedOpen, Owned
<1>2. Sound /\ SavedOpen /\ [Next]_vars
        => [\A t \in Tabs, u \in Usages :
              /\ dial[t].pc = "claim" /\ dial'[t].pc = "create"
              /\ Live(u) /\ usage[u].contact = dial[t].contact
              => ~Owned(<<u, "agent">>)]_dial
  BY <1>1
<1>3. QED BY <1>2, AlwaysSavedOpen, PTL DEF Spec, NotDialedAgain

-----------------------------------------------------------------------------
(* The texts of the batches.                                               *)

\* A run whose batch, if it has one, has only just been read.
FreshBatch(r) ==
  r.phase = "sending" =>
    \A c \in Contacts : r.at[c] \in {"out", "deferred", "drop"}
                        \/ (r.at[c] = "check" /\ c \notin optOut)
\* A job's failed batch goes on as a request's.
Orphaned(r) == [r EXCEPT !.kind = "request"]
Restarts ==
  /\ UNCHANGED optOut
  /\ \A d \in Dispatchers : run'[d] \in {run[d], Orphaned(run[d])} \/ FreshBatch(run'[d])

LEMMA PutRestarts ==
  ASSUME Sound, NEW e \in Dispatchers, NEW r, Put(e, r), FreshBatch(r), UNCHANGED optOut
  PROVE  Restarts
BY DEF Sound, GoodRuns, Put, Restarts

LEMMA IdleRuns ==
  ASSUME NEW r \in Run
  PROVE  FreshBatch(NewJob) /\ FreshBatch(NoRun) /\ FreshBatch(Failed(r)) /\ FreshBatch(Returned(r))
<1>1. NewJob.phase = "waiting" /\ NoRun.phase = "none" BY DEF NewJob, NoRun
<1>2. [NewJob EXCEPT !.tries = r.tries].phase = "waiting" BY DEF NewJob, NoRun
<1>3. Failed(r).phase # "sending" BY <1>1, <1>2 DEF Failed
<1>4. r.kind # "request" => Returned(r).phase = "ending" BY DEF Returned, Run
<1>5. Returned(r).phase # "sending" BY <1>1, <1>4 DEF Returned
<1>6. QED BY <1>1, <1>3, <1>5 DEF FreshBatch

LEMMA SuccessorRestarts ==
  ASSUME Sound, NEW d \in Dispatchers, NEW r \in Run, EnqueueSuccessor(d, r), UNCHANGED optOut
  PROVE  Restarts
<1>1. CASE Put(d, Returned(r)) BY <1>1, IdleRuns, PutRestarts
<1>2. ASSUME NEW e \in Dispatchers, run' = [run EXCEPT ![d] = Returned(r), ![e] = NewJob]
      PROVE  Restarts
  BY <1>2, IdleRuns DEF Restarts, Sound, GoodRuns
<1>3. QED BY <1>1, <1>2 DEF EnqueueSuccessor

LEMMA SnapshotRestarts ==
  ASSUME Sound, NEW d \in Dispatchers, NEW r \in Run, Snapshot(d, r), UNCHANGED optOut
  PROVE  Restarts
<1>1. PICK S \in SUBSET Queued, quiet \in SUBSET Contacts :
        Put(d, [r EXCEPT !.phase = "sending", !.at = Admitted(S, quiet), !.more = S # Queued])
  BY DEF Snapshot
<1>2. \A c \in Contacts : Admitted(S, quiet)[c] \in {"out", "deferred", "drop"}
                          \/ (Admitted(S, quiet)[c] = "check" /\ c \notin optOut)
  BY DEF Admitted
<1>3. FreshBatch([r EXCEPT !.phase = "sending", !.at = Admitted(S, quiet), !.more = S # Queued])
  BY <1>2 DEF FreshBatch, Run
<1>4. QED BY <1>1, <1>3, PutRestarts

LEMMA JobsRestart ==
  ASSUME Sound,
         \/ Launch \/ Pause
         \/ \E d \in Dispatchers : \/ StartJob(d) \/ StartRequest(d) \/ FinishBatch(d)
                                   \/ CompleteJob(d) \/ KillRun(d)
  PROVE  Restarts
<1> UNCHANGED optOut
  BY DEF Launch, Pause, StartJob, StartRequest, FinishBatch, CompleteJob, KillRun, outreachVars
<1>1. \A d \in Dispatchers : run[d] \in Run BY DEF Sound, TypeOK, SmsTypeOK
<1>2. CASE UNCHANGED run BY <1>2 DEF Restarts
<1>3. \A d \in Dispatchers : Fail(d) => Restarts BY <1>1, IdleRuns, PutRestarts DEF Fail
<1>4. CASE Launch \/ Pause
  <2>1. UNCHANGED run \/ \E d \in Dispatchers : Put(d, NewJob) BY <1>4 DEF Launch, Pause
  <2>2. QED BY <1>1, <1>2, <2>1, IdleRuns, PutRestarts
<1>5. ASSUME NEW d \in Dispatchers, StartJob(d) PROVE Restarts
  <2> DEFINE r == [run[d] EXCEPT !.tries = run[d].tries + 1]
  <2>1. Put(d, Returned(r)) \/ EnqueueSuccessor(d, r) \/ Snapshot(d, r) BY <1>5 DEF StartJob
  <2>2. r \in Run
    <3>1. run[d].tries < MaxTries /\ run[d].tries \in 0..MaxTries
      BY <1>5 DEF StartJob, Sound, GoodRuns, GoodRun, Run
    <3>2. run[d].tries + 1 \in 0..MaxTries BY <3>1, DispatchConstantsOK
    <3>3. QED BY <1>1, <3>2 DEF Run
  <2> HIDE DEF r
  <2>3. QED BY <2>1, <2>2, IdleRuns, PutRestarts, SuccessorRestarts, SnapshotRestarts
<1>6. ASSUME NEW d \in Dispatchers, StartRequest(d) PROVE Restarts
  <2>1. [NoRun EXCEPT !.kind = "request"] \in Run BY NoRunType DEF Run, GoodRun
  <2>2. QED BY <1>6, <2>1, SnapshotRestarts DEF StartRequest
<1>7. ASSUME NEW d \in Dispatchers, FinishBatch(d) PROVE Restarts
  <2>1. CASE EndBatch(d)
    BY <1>1, <1>3, <2>1, IdleRuns, PutRestarts, SuccessorRestarts DEF EndBatch
  <2>2. CASE RejectBatch(d)
    <3>1. PICK e \in Dispatchers :
            run' = [run EXCEPT ![d].kind = "request", ![e] = Failed(run[d])]
      BY <2>2 DEF RejectBatch
    <3>2. \A f \in Dispatchers : run'[f] \in {run[f], Orphaned(run[f]), Failed(run[d])}
      BY <3>1 DEF Orphaned, Sound, TypeOK, SmsTypeOK
    <3>3. QED BY <1>1, <3>2, IdleRuns DEF Restarts
  <2>3. QED BY <1>7, <2>1, <2>2 DEF FinishBatch
<1>8. ASSUME NEW d \in Dispatchers, CompleteJob(d) \/ KillRun(d) PROVE Restarts
  BY <1>1, <1>3, <1>8, IdleRuns, PutRestarts DEF CompleteJob, KillRun
<1>9. QED BY <1>4, <1>5, <1>6, <1>7, <1>8

\* What was read of the queue is kept, and what happened since.
Carries(d) ==
  /\ run'[d].phase = run[d].phase
  /\ run[d].stopped \subseteq run'[d].stopped
  /\ run[d].texted \subseteq run'[d].texted

LEMMA MoveAt ==
  ASSUME Sound, NEW e \in Dispatchers, NEW b \in Contacts, NEW s, Move(e, b, s),
         NEW d \in Dispatchers, NEW c \in Contacts
  PROVE  /\ Carries(d)
         /\ d = e /\ c = b => run'[d].at[c] = s
         /\ ~(d = e /\ c = b) => run'[d].at[c] = run[d].at[c]
<1>1. run' = [run EXCEPT ![e] = [run[e] EXCEPT !.at = [run[e].at EXCEPT ![b] = s]]] BY DEF Move
<1>2. run[e] \in Run /\ run \in [Dispatchers -> Run] BY DEF Sound, TypeOK, SmsTypeOK
<1>3. CASE d = e
  <2>1. Carries(d) /\ run'[d].at = [run[e].at EXCEPT ![b] = s]
    BY <1>1, <1>2, <1>3 DEF Run, Carries
  <2>2. QED BY <1>2, <1>3, <2>1 DEF Run
<1>4. CASE d # e BY <1>1, <1>2, <1>4 DEF Carries
<1>5. QED BY <1>3, <1>4

\* A text that is recorded is known to the other batches under way.
LEMMA RecordAt ==
  ASSUME Sound, NEW e \in Dispatchers, NEW b \in Contacts, RecordText(e, b),
         NEW d \in Dispatchers, NEW c \in Contacts
  PROVE  /\ Carries(d)
         /\ d = e /\ c = b => run'[d].at[c] \in {"sent", "failed"}
         /\ ~(d = e /\ c = b) => run'[d].at[c] = run[d].at[c]
         /\ d # e /\ run[d].phase = "sending" /\ row' # row => b \in run'[d].texted
<1>1. PICK saved \in BOOLEAN, left \in BOOLEAN :
        /\ ~saved => UNCHANGED row
        /\ run' = [f \in Dispatchers |->
                     IF f = e THEN [run[e] EXCEPT !.at[b] = IF left THEN "sent" ELSE "failed"]
                     ELSE IF saved /\ run[f].phase = "sending"
                     THEN [run[f] EXCEPT !.texted = @ \cup {b}]
                     ELSE run[f]]
  BY DEF RecordText, Works
<1>2. run[d] \in Run BY DEF Sound, TypeOK, SmsTypeOK
<1>3. CASE d = e
  <2>1. run'[d] = [run[e] EXCEPT !.at[b] = IF left THEN "sent" ELSE "failed"] BY <1>1, <1>3
  <2>2. Carries(d) /\ run'[d].at = [run[e].at EXCEPT ![b] = IF left THEN "sent" ELSE "failed"]
    BY <1>2, <1>3, <2>1 DEF Run, Carries
  <2>3. QED BY <1>2, <1>3, <2>2 DEF Run
<1>4. CASE d # e
  <2>1. run'[d] = IF saved /\ run[d].phase = "sending"
                  THEN [run[d] EXCEPT !.texted = @ \cup {b}] ELSE run[d]
    BY <1>1, <1>4
  <2>2. QED BY <1>1, <1>2, <1>4, <2>1 DEF Run, Carries
<1>5. QED BY <1>3, <1>4

LEMMA StopAt ==
  ASSUME Sound, NEW b \in Contacts, StopText(b), NEW d \in Dispatchers
  PROVE  /\ Carries(d) /\ run'[d].at = run[d].at
         /\ b \notin optOut /\ run[d].phase = "sending" => b \in run'[d].stopped
<1>1. run[d] \in Run BY DEF Sound, TypeOK, SmsTypeOK
<1>2. run'[d] = IF b \notin optOut /\ run[d].phase = "sending"
                THEN [run[d] EXCEPT !.stopped = @ \cup {b}] ELSE run[d]
  BY DEF StopText
<1>3. QED BY <1>1, <1>2 DEF Run, Carries

\* How a contact gets to a step of a batch.
LEMMA AtStep ==
  ASSUME Sound, [Next]_vars, NEW d \in Dispatchers, NEW c \in Contacts,
         NEW s \in {"check", "send", "record"}, At(d, c, s)'
  PROVE  \/ s = "check" /\ c \notin optOut /\ UNCHANGED optOut
         \/ /\ Carries(d)
            /\ \/ At(d, c, s)
               \/ s = "send" /\ At(d, c, "check") /\ ~HasDuplicate(c) /\ UNCHANGED <<row, usage>>
               \/ s = "record" /\ At(d, c, "send") /\ UNCHANGED row
<1>1. CASE Restarts
  <2>1. CASE FreshBatch(run'[d]) BY <1>1, <2>1 DEF Restarts, FreshBatch, At
  <2>2. CASE run'[d] \in {run[d], Orphaned(run[d])}
    <3>1. run[d] \in Run BY DEF Sound, TypeOK, SmsTypeOK
    <3>2. Carries(d) /\ run'[d].at = run[d].at BY <2>2, <3>1 DEF Orphaned, Run, Carries
    <3>3. QED BY <3>2 DEF Carries, At
  <2>3. QED BY <1>1, <2>1, <2>2 DEF Restarts
<1>2. CASE UNCHANGED run BY <1>2 DEF At, Carries
<1>3. ASSUME NEW e \in Dispatchers, NEW b \in Contacts, NEW p, Move(e, b, p),
             ~(d = e /\ c = b) \/ p # s
      PROVE  Carries(d) /\ At(d, c, s)
  <2>1. /\ Carries(d)
        /\ d = e /\ c = b => run'[d].at[c] = p
        /\ ~(d = e /\ c = b) => run'[d].at[c] = run[d].at[c]
    BY <1>3, MoveAt
  <2>2. QED BY <1>3, <2>1 DEF At, Carries
<1>4. ASSUME NEW e \in Dispatchers, NEW b \in Contacts, DropOptedOut(e, b)
      PROVE  Carries(d) /\ At(d, c, s)
  BY <1>3, <1>4 DEF DropOptedOut, Drop
<1>5. ASSUME NEW e \in Dispatchers, NEW b \in Contacts, CheckMember(e, b)
      PROVE  /\ Carries(d)
             /\ \/ At(d, c, s)
                \/ s = "send" /\ At(d, c, "check") /\ ~HasDuplicate(c) /\ UNCHANGED <<row, usage>>
  <2>1. CASE Drop(e, b) BY <1>3, <2>1 DEF Drop
  <2>2. CASE ~HasDuplicate(b) /\ Move(e, b, "send")
    <3>1. CASE d = e /\ c = b /\ s = "send" BY <1>5, <2>2, <3>1, MoveAt DEF CheckMember
    <3>2. CASE ~(d = e /\ c = b) \/ s # "send" BY <1>3, <2>2, <3>2
    <3>3. QED BY <3>1, <3>2
  <2>3. QED BY <1>5, <2>1, <2>2 DEF CheckMember
<1>6. ASSUME NEW e \in Dispatchers, NEW b \in Contacts, SendText(e, b)
      PROVE  Carries(d) /\ (At(d, c, s) \/ (s = "record" /\ At(d, c, "send") /\ UNCHANGED row))
  <2>1. Move(e, b, "record") \/ Move(e, b, "failed") \/ UNCHANGED run BY <1>6 DEF SendText
  <2>2. CASE UNCHANGED run BY <2>2 DEF At, Carries
  <2>3. CASE d = e /\ c = b /\ s = "record" /\ ~UNCHANGED run
    BY <1>6, <2>1, <2>3, MoveAt DEF SendText
  <2>4. CASE ~(d = e /\ c = b /\ s = "record") /\ ~UNCHANGED run BY <1>3, <2>1, <2>4
  <2>5. QED BY <2>2, <2>3, <2>4
<1>7. ASSUME NEW e \in Dispatchers, NEW b \in Contacts, RecordText(e, b)
      PROVE  Carries(d) /\ At(d, c, s)
  BY <1>7, RecordAt DEF Carries, At
<1>8. ASSUME NEW b \in Contacts, StopText(b) PROVE Carries(d) /\ At(d, c, s)
  BY <1>8, StopAt DEF Carries, At
<1>9. ASSUME NEW b \in Contacts, EnqueueText(b) PROVE UNCHANGED run BY <1>9 DEF EnqueueText
<1>10. CASE SmsStep
  BY <1>1, <1>2, <1>4, <1>5, <1>6, <1>7, <1>8, <1>9, <1>10, JobsRestart DEF SmsStep, MemberStep
<1>11. QED BY <1>2, <1>10 DEF Next, vars, smsVars

\* A text that comes into being is sent by a member of a batch.
LEMMA NewTexts ==
  ASSUME Sound, [Next]_vars, NEW u \in Usages, usage[u].kind # "text", usage'[u].kind = "text"
  PROVE  \E d \in Dispatchers, c \in Contacts : Sends(d, c, u)
<1>1. GoodUse(usage[u]) /\ usage[u] \in Usage BY DEF Sound, UsesOK, TypeOK, OutreachTypeOK
<1>2. usage[u].kind = "none" BY EveryStepKeeps, <1>1 DEF Sound, AllKept, Kept, Usage
<1>3. UsesOK' BY EveryStepKeeps DEF Sound
<1>4. CASE Goes(usage[u], usage'[u])
  <2>1. usage'[u].stage = "none" BY <1>1, <1>2, <1>4, GoesOld
  <2>2. QED BY <1>3, <2>1 DEF UsesOK, GoodUse
<1>5. ASSUME NEW t \in Tabs, NEW v \in Usages, Places(t, v) \/ Strays(t, v)
      PROVE  Goes(usage[u], usage'[u])
  <2>1. PICK e : usage' = [usage EXCEPT ![v] = e] /\ e.kind = "call"
    <3>1. CASE Places(t, v) BY <3>1 DEF Places, Ringing, NotPlaced
    <3>2. CASE Strays(t, v) BY <3>2 DEF Strays, Ringing, NotPlaced
    <3>3. QED BY <1>5, <3>1, <3>2
  <2>2. v # u BY <2>1 DEF Sound, TypeOK, OutreachTypeOK
  <2>3. QED BY <2>1, <2>2 DEF Goes, Sound, TypeOK, OutreachTypeOK
<1>6. ASSUME NEW d \in Dispatchers, NEW c \in Contacts, NEW v \in Usages, Sends(d, c, v), v # u
      PROVE  Goes(usage[u], usage'[u])
  BY <1>6 DEF Sends, Goes, Sound, TypeOK, OutreachTypeOK
<1>7. CASE AllGo BY <1>4, <1>7 DEF AllGo
<1>8. CASE Apart BY <1>7, <1>8, StillGoes DEF Apart
<1>9. CASE BillingStep BY <1>7, <1>9, BillingGoes DEF Sound, TypeOK
<1>10. CASE DialStep BY <1>4, <1>5, <1>7, <1>10, DialGoes DEF Sound, TypeOK
<1>11. CASE SmsStep BY <1>4, <1>6, <1>7, <1>11, SmsGoes DEF Sound, TypeOK
<1>12. QED BY <1>8, <1>9, <1>10, <1>11, NextCases

Recorded(u) == row[<<u, "contact">>].state # "none"

\* The row of a text comes from the batch that sent it, and nothing else does.
LEMMA TextRows ==
  ASSUME Sound, [Next]_vars, NEW u \in Usages, usage[u].kind = "text", ~Recorded(u), Recorded(u)'
  PROVE  \E d \in Dispatchers, c \in Contacts :
           RecordText(d, c) /\ usage[u].by = d /\ usage[u].contact = c
<1> DEFINE l == <<u, "contact">>
<1>1. l \in Legs /\ l[1] = u /\ row \in [Legs -> Row]
  BY DEF Legs, Sides, Sound, TypeOK, OutreachTypeOK
<1>2. ASSUME NEW k, NEW r, row' = row \/ row' = [row EXCEPT ![k] = r], k # l PROVE FALSE
  BY <1>1, <1>2 DEF Recorded
<1>3. ASSUME NEW v \in Usages, NEW n, CallStatus(v, n) PROVE FALSE
  <2>1. v # u BY <1>3 DEF CallStatus
  <2>2. \E r : row' = row \/ row' = [row EXCEPT ![<<v, "contact">>] = r] BY <1>3 DEF CallStatus
  <2>3. QED BY <1>2, <2>1, <2>2
<1>4. ASSUME NEW v \in Usages, NEW n, SmsStatus(v, n) PROVE FALSE
  <2>1. row' = row \/ (Recorded(v) /\ \E r : row' = [row EXCEPT ![<<v, "contact">>] = r])
    BY <1>4 DEF SmsStatus, Recorded
  <2>2. QED BY <1>1, <1>2, <2>1 DEF Recorded
<1>5. ASSUME NEW k \in Legs, PollCall(k) \/ OpenSyncCall(k) \/ OpenSyncText(k) PROVE FALSE
  <2>1. row[k].state = "open" BY <1>5 DEF PollCall, OpenSyncCall, OpenSyncText
  <2>2. k # l BY <2>1 DEF Recorded
  <2>3. \E r : row' = [row EXCEPT ![k] = r] BY <1>5 DEF PollCall, OpenSyncCall, OpenSyncText
  <2>4. QED BY <1>2, <2>2, <2>3
<1>6. ASSUME NEW t \in Tabs, SaveCall(t) PROVE FALSE
  <2>1. \E r : row' = row \/ row' = [row EXCEPT ![<<dial[t].call, "agent">>] = r]
    BY <1>6 DEF SaveCall
  <2>2. <<dial[t].call, "agent">> # l OBVIOUS
  <2>3. QED BY <1>2, <2>1, <2>2
<1>7. CASE UNCHANGED row BY <1>7 DEF Recorded
<1>8. ASSUME NEW d \in Dispatchers, NEW c \in Contacts, RecordText(d, c)
      PROVE  usage[u].by = d /\ usage[u].contact = c
  <2>1. PICK v \in Unrecorded(d) :
          /\ usage[v].contact = c
          /\ row' = row \/ row' = [row EXCEPT ![<<v, "contact">>] = [state |-> "open", timed |-> TRUE]]
    BY <1>8 DEF RecordText
  <2>2. v = u BY <1>2, <2>1
  <2>3. QED BY <2>1, <2>2, UnrecordedText
<1>9. CASE BillingStep
  <2>1. ASSUME \/ \E s \in Sessions : ConfirmPayment(s)
               \/ \E v \in Usages : AgentAnswers(v) \/ CallEnds(v) \/ TextMoves(v)
               \/ \E v \in Usages, n \in News : LoseCallback(v, n) \/ RunJob(v, n) \/ BuryJob(v, n)
        PROVE  UNCHANGED row
    BY <2>1 DEF ConfirmPayment, AgentAnswers, CallEnds, TextMoves, LoseCallback, RunJob, BuryJob
  <2>2. Followed \subseteq Usages /\ Followed \X Sides \subseteq Legs BY FollowedUsages DEF Legs
  <2>3. QED BY <1>3, <1>4, <1>5, <1>7, <1>9, <2>1, <2>2 DEF BillingStep
<1>10. CASE DialStep
  <2>1. ASSUME NEW t \in Tabs,
               \/ \E c \in Contacts : StartDial(t, c)
               \/ ClaimForDial(t) \/ CreateCall(t) \/ HangUpUntracked(t) \/ KillDial(t)
               \/ \E v \in Usages : HangUp(t, v)
               \/ FetchMore(t) \/ LeaveScreen(t)
        PROVE  UNCHANGED row
    BY <2>1 DEF StartDial, outreachVars, ClaimForDial, CreateCall, HangUpUntracked, KillDial,
       HangUp, FetchMore, LeaveScreen
  <2>2. ASSUME NEW c \in Contacts, Enqueue(c) PROVE UNCHANGED row BY <2>2 DEF Enqueue
  <2>3. QED BY <1>6, <1>7, <1>10, <2>1, <2>2 DEF DialStep
<1>11. CASE SmsStep
  <2>1. ASSUME \/ Launch \/ Pause
               \/ \E d \in Dispatchers : \/ StartJob(d) \/ StartRequest(d) \/ FinishBatch(d)
                                         \/ CompleteJob(d) \/ KillRun(d)
               \/ \E c \in Contacts : EnqueueText(c) \/ StopText(c)
               \/ \E d \in Dispatchers, c \in Contacts :
                    DropOptedOut(d, c) \/ CheckMember(d, c) \/ SendText(d, c)
        PROVE  UNCHANGED row
    BY <2>1 DEF Launch, Pause, StartJob, StartRequest, FinishBatch, CompleteJob, KillRun,
       outreachVars, EnqueueText, Enqueue, StopText, Stop, DropOptedOut, CheckMember, SendText
  <2>2. QED BY <1>7, <1>8, <1>11, <2>1 DEF SmsStep, MemberStep
<1>12. CASE Apart BY <1>7, <1>12 DEF Apart
<1>13. QED BY <1>9, <1>10, <1>11, <1>12, NextCases

\* What makes RecordedOnce inductive: if a contact about to be sent its text, or to
\* have it recorded, has one already, it was recorded since the batch read the queue.
NoneYet ==
  \A d \in Dispatchers, c \in Contacts :
    (At(d, c, "send") \/ At(d, c, "record")) /\ HasDuplicate(c) => c \in run[d].texted

LEMMA NewTextRow ==
  ASSUME Sound, [Next]_vars, NEW u \in Usages, usage[u].kind = "none"
  PROVE  ~Recorded(u)'
<1>1. <<u, "contact">> \in Legs /\ <<u, "contact">>[1] = u /\ "contact" \in Sides
  BY DEF Legs, Sides
<1>2. row[<<u, "contact">>] = NoRow BY <1>1 DEF Sound, LegsOK, RowsOK
<1>3. row'[<<u, "contact">>] = row[<<u, "contact">>] BY <1>1, EveryStepRows DEF RowStep
<1>4. QED BY <1>2, <1>3 DEF Recorded, NoRow

LEMMA KeptText ==
  ASSUME Sound, [Next]_vars, NEW u \in Usages, usage'[u].kind = "text", Recorded(u)'
  PROVE  /\ usage[u].kind = "text"
         /\ usage'[u].by = usage[u].by
         /\ usage'[u].contact = usage[u].contact
<1>1. usage[u].kind # "none" BY NewTextRow
<1>2. QED BY <1>1, EveryStepKeeps DEF Sound, AllKept, Kept

LEMMA NoneYetStep == Sound /\ NoneYet /\ [Next]_vars => NoneYet'
<1> SUFFICES ASSUME Sound, NoneYet, [Next]_vars,
                    NEW d \in Dispatchers, NEW c \in Contacts, NEW s \in {"send", "record"},
                    At(d, c, s)', HasDuplicate(c)'
             PROVE  c \in run'[d].texted
  BY DEF NoneYet
<1>1. CASE HasDuplicate(c) BY <1>1, AtStep DEF NoneYet, Carries
<1>2. CASE ~HasDuplicate(c)
  <2>1. PICK u \in Usages : usage'[u].kind = "text" /\ usage'[u].contact = c /\ Recorded(u)'
    BY DEF HasDuplicate, Recorded
  <2>2. usage[u].kind = "text" /\ usage[u].contact = c BY <2>1, KeptText
  <2>3. ~Recorded(u) BY <1>2, <2>2 DEF HasDuplicate, Recorded
  <2>4. PICK e \in Dispatchers : RecordText(e, c) BY <2>1, <2>2, <2>3, TextRows
  <2>5. row' # row BY <2>1, <2>3 DEF Recorded
  <2>6. d # e BY <2>4, RecordAt DEF At
  <2>7. run[d].phase = "sending" BY <2>4, RecordAt DEF At, Carries
  <2>8. QED BY <2>4, <2>5, <2>6, <2>7, RecordAt
<1>3. QED BY <1>1, <1>2

LEMMA NoneYetInit == Init => NoneYet
BY DEF Init, SmsInit, NoneYet, At, NoRun

LEMMA AlwaysNoneYet == Spec => [](Sound /\ NoneYet)
BY InitSound, SoundStep, NoneYetInit, NoneYetStep, PTL DEF Spec

\* The duplicate gate holds against every retry, successor, requeue and request: whoever
\* records a second text for a contact had read the queue before another batch recorded
\* the first.
THEOREM NoSecondRecord == Spec => RecordedOnce
<1>1. ASSUME Sound, NoneYet, [Next]_vars, NEW u \in Usages,
             usage[u].kind = "text", HasDuplicate(usage[u].contact),
             row[<<u, "contact">>].state = "none", row'[<<u, "contact">>].state # "none"
      PROVE  usage[u].contact \in run[usage[u].by].texted
  <2>1. PICK d \in Dispatchers, c \in Contacts :
          RecordText(d, c) /\ usage[u].by = d /\ usage[u].contact = c
    BY <1>1, TextRows DEF Recorded
  <2>2. At(d, c, "record") BY <2>1 DEF RecordText
  <2>3. QED BY <1>1, <2>1, <2>2 DEF NoneYet
<1>2. Sound /\ NoneYet /\ [Next]_vars
        => [\A u \in Usages :
              LET e == usage[u] IN
              /\ e.kind = "text"
              /\ \E v \in Usages : /\ usage[v].kind = "text" /\ usage[v].contact = e.contact
                                  /\ row[<<v, "contact">>].state # "none"
              /\ row[<<u, "contact">>].state = "none" /\ row'[<<u, "contact">>].state # "none"
              => e.contact \in run[e.by].texted]_row
  BY <1>1 DEF HasDuplicate
<1>3. QED BY <1>2, AlwaysNoneYet, PTL DEF Spec, RecordedOnce

\* What makes StopIsHeard inductive: a contact about to be checked or sent to, and opted
\* out, did so since the batch read the queue.
Silenced ==
  \A d \in Dispatchers, c \in Contacts :
    (At(d, c, "check") \/ At(d, c, "send")) /\ c \in optOut => c \in run[d].stopped

\* Opt-outs come from a STOP only.
LEMMA OptOutSteps ==
  ASSUME [Next]_vars
  PROVE  \/ UNCHANGED optOut
         \/ \E c \in Contacts : StopText(c) /\ optOut' = optOut \cup {c}
<1>1. CASE Apart BY <1>1 DEF Apart
<1>2. CASE BillingStep
  BY <1>2 DEF BillingStep, ConfirmPayment, AgentAnswers, CallEnds, TextMoves, CallStatus, SmsStatus,
     LoseCallback, RunJob, BuryJob, PollCall, OpenSyncCall, OpenSyncText
<1>3. CASE DialStep
  BY <1>3 DEF DialStep, StartDial, outreachVars, ClaimForDial, CreateCall, SaveCall, HangUpUntracked,
     KillDial, HangUp, FetchMore, LeaveScreen, Enqueue
<1>4. CASE SmsStep
  BY <1>4 DEF SmsStep, MemberStep, Launch, Pause, StartJob, StartRequest, FinishBatch, CompleteJob,
     KillRun, outreachVars, EnqueueText, Enqueue, StopText, Stop, DropOptedOut, CheckMember, SendText, RecordText
<1>5. QED BY <1>1, <1>2, <1>3, <1>4, NextCases

\* The text a member of a batch sends, and the rest as it was.
LEMMA SentText ==
  ASSUME Sound, NEW d \in Dispatchers, NEW c \in Contacts, NEW u \in Usages, Sends(d, c, u)
  PROVE  /\ usage'[u].by = d /\ usage'[u].contact = c
         /\ At(d, c, "send")
<1>1. PICK e : usage' = [usage EXCEPT ![u] = e]
               /\ e \in {Texted(d, c), [Texted(d, c) EXCEPT !.adrift = TRUE]}
  BY DEF Sends
<1>2. e.by = d /\ e.contact = c BY <1>1 DEF Texted, NotPlaced
<1>3. usage'[u] = e BY <1>1 DEF Sound, TypeOK, OutreachTypeOK
<1>4. QED BY <1>2, <1>3 DEF Sends

LEMMA SilencedStep == Sound /\ Silenced /\ [Next]_vars => Silenced'
<1> SUFFICES ASSUME Sound, Silenced, [Next]_vars,
                    NEW d \in Dispatchers, NEW c \in Contacts, NEW s \in {"check", "send"},
                    At(d, c, s)', c \in optOut'
             PROVE  c \in run'[d].stopped
  BY DEF Silenced
<1>1. Carries(d) /\ (At(d, c, "check") \/ At(d, c, "send")) BY AtStep
<1>2. CASE c \in optOut BY <1>1, <1>2 DEF Silenced, Carries
<1>3. CASE c \notin optOut
  <2>1. StopText(c) BY <1>3, OptOutSteps
  <2>2. run[d].phase = "sending" BY <1>1 DEF At
  <2>3. QED BY <1>3, <2>1, <2>2, StopAt
<1>4. QED BY <1>2, <1>3

LEMMA SilencedInit == Init => Silenced
BY DEF Init, SmsInit, Silenced, At, NoRun

LEMMA AlwaysSilenced == Spec => [](Sound /\ Silenced)
BY InitSound, SoundStep, SilencedInit, SilencedStep, PTL DEF Spec

\* Whoever texts a contact that has opted out had read the queue before the STOP: no
\* retry, successor, requeue or request that reads it later does.
THEOREM StopHeard == Spec => StopIsHeard
<1>1. ASSUME Sound, Silenced, [Next]_vars, NEW u \in Usages,
             usage[u].kind = "none", usage'[u].kind = "text", usage'[u].contact \in optOut
      PROVE  usage'[u].contact \in run[usage'[u].by].stopped
  <2>1. PICK d \in Dispatchers, c \in Contacts : Sends(d, c, u) BY <1>1, NewTexts
  <2>2. usage'[u].by = d /\ usage'[u].contact = c /\ At(d, c, "send") BY <1>1, <2>1, SentText
  <2>3. QED BY <1>1, <2>2 DEF Silenced
<1>2. Sound /\ Silenced /\ [Next]_vars
        => [\A u \in Usages :
              LET e == usage'[u] IN
              /\ usage[u].kind = "none" /\ e.kind = "text" /\ e.contact \in optOut
              => e.contact \in run[e.by].stopped]_usage
  BY <1>1
<1>3. QED BY <1>2, AlwaysSilenced, PTL DEF Spec, StopIsHeard

-----------------------------------------------------------------------------
(* The chain of dispatch jobs.                                             *)

\* A batch still has to do with c: it holds it, or is shorter than the queue.
Minds(r, c) ==
  /\ r.kind = "job" /\ r.phase = "sending"
  /\ r.more = TRUE \/ r.at[c] \in Step \ {"out", "gone", "sent"}
Waits(r) == r.kind = "job" /\ r.phase = "waiting"

\* What makes DispatchAlive inductive: somebody still minds the contacts that are
\* queued, unless the chain was halted or never started.
Alive ==
  \/ halted = TRUE
  \/ \E d \in Dispatchers : Waits(run[d])
  \/ \A c \in Queued : c \in missed \/ \E d \in Dispatchers : Minds(run[d], c)
  \/ Jobs = {} /\ status \notin {"running", "scheduled"}

LEMMA AliveSame ==
  ASSUME Alive, UNCHANGED <<run, halted, status>>, missed \subseteq missed',
         \A c \in Queued' : c \in Queued \/ c \in missed'
  PROVE  Alive'
BY DEF Alive, Jobs

\* The queue grows by what is put on it only.
LEMMA LessQueued ==
  ASSUME OutreachTypeOK, NEW b,
         queue' = queue \/ queue' = [queue EXCEPT ![b] = Dequeued(queue[b])]
  PROVE  Queued' \subseteq Queued
BY DEF Queued, OutreachTypeOK, Dequeued, Entry

LEMMA NewJobWaits == ASSUME NEW n \in 0..MaxTries PROVE Waits(NewJob) /\ Waits([NewJob EXCEPT !.tries = n])
BY DEF Waits, NewJob, NoRun

LEMMA FailAlive == ASSUME Sound, NEW d \in Dispatchers, Fail(d) PROVE Alive'
<1>1. run[d] \in Run /\ run[d].tries \in 0..MaxTries /\ run \in [Dispatchers -> Run]
  BY DEF Sound, TypeOK, SmsTypeOK, Run
<1>2. CASE run[d].tries < MaxTries
  <2>1. run'[d] = [NewJob EXCEPT !.tries = run[d].tries] BY <1>1, <1>2 DEF Fail, Failed, Put
  <2>2. Waits(run'[d]) BY <1>1, <2>1, NewJobWaits
  <2>3. QED BY <2>2 DEF Alive
<1>3. CASE ~(run[d].tries < MaxTries)
  <2>1. run[d].tries = MaxTries BY <1>1, <1>3, DispatchConstantsOK
  <2>2. halted' = (halted \/ run[d].tries = MaxTries) BY DEF Fail
  <2>3. halted' = TRUE BY <2>1, <2>2
  <2>4. QED BY <2>3 DEF Alive
<1>4. QED BY <1>2, <1>3

LEMMA SuccessorAlive ==
  ASSUME Sound, NEW d \in Dispatchers, NEW r, EnqueueSuccessor(d, r), UNCHANGED queue
  PROVE  Alive'
<1>1. run \in [Dispatchers -> Run] BY DEF Sound, TypeOK, SmsTypeOK
<1>2. ASSUME NEW e \in Dispatchers \ {d}, run' = [run EXCEPT ![d] = Returned(r), ![e] = NewJob]
      PROVE  Alive'
  <2>1. run'[e] = NewJob BY <1>1, <1>2
  <2>2. Waits(run'[e]) BY <2>1 DEF Waits, NewJob, NoRun
  <2>3. QED BY <2>2 DEF Alive
<1>3. CASE missed' = missed \cup Queued
  <2>1. \A c \in Queued' : c \in missed' BY <1>3 DEF Queued
  <2>2. QED BY <2>1 DEF Alive
<1>4. QED BY <1>2, <1>3 DEF EnqueueSuccessor

\* A run that minds nothing may go.
LEMMA ReleaseAlive ==
  ASSUME Sound, Alive, NEW d \in Dispatchers, NEW r, Put(d, r),
         UNCHANGED <<queue, halted, missed>>,
         ~Waits(run[d]), \A c \in Queued : ~Minds(run[d], c),
         r.kind = "job" => d \in Jobs, status' \in {status, "complete"}
  PROVE  Alive'
<1>1. \A e \in Dispatchers \ {d} : run'[e] = run[e] BY DEF Put, Sound, TypeOK, SmsTypeOK
<1>2. run'[d] = r BY DEF Put, Sound, TypeOK, SmsTypeOK
<1>3. CASE halted = TRUE BY <1>3 DEF Alive
<1>4. CASE \E e \in Dispatchers : Waits(run[e]) BY <1>1, <1>4 DEF Alive
<1>5. CASE \A c \in Queued : c \in missed \/ \E e \in Dispatchers : Minds(run[e], c)
  <2>1. Queued' = Queued BY DEF Queued
  <2>2. \A c \in Queued' : c \in missed' \/ \E e \in Dispatchers : Minds(run'[e], c)
    BY <1>1, <1>5, <2>1
  <2>3. QED BY <2>2 DEF Alive
<1>6. CASE Jobs = {} /\ status \notin {"running", "scheduled"}
  <2>1. r.kind # "job" BY <1>6
  <2>2. Jobs' = {} BY <1>1, <1>2, <1>6, <2>1 DEF Jobs
  <2>3. QED BY <1>6, <2>2 DEF Alive
<1>7. QED BY <1>3, <1>4, <1>5, <1>6 DEF Alive

LEMMA SnapshotAlive ==
  ASSUME Sound, NEW d \in Dispatchers, NEW r \in Run, r.kind = "job", Snapshot(d, r),
         UNCHANGED queue
  PROVE  Alive'
<1>1. PICK S \in SUBSET Queued, quiet \in SUBSET Contacts :
        Put(d, [r EXCEPT !.phase = "sending", !.at = Admitted(S, quiet), !.more = S # Queued])
  BY DEF Snapshot
<1>2. PICK more \in BOOLEAN : more = (S # Queued)
  <2>1. (S # Queued) \in BOOLEAN OBVIOUS
  <2>2. QED BY <2>1, Zenon
<1>3. run'[d] = [r EXCEPT !.phase = "sending", !.at = Admitted(S, quiet), !.more = more]
  BY <1>1, <1>2 DEF Put, Sound, TypeOK, SmsTypeOK
<1>4. /\ run'[d].kind = "job" /\ run'[d].phase = "sending"
      /\ run'[d].at = Admitted(S, quiet) /\ run'[d].more = more
  BY <1>3 DEF Run
<1>5. ASSUME NEW c \in Queued' PROVE Minds(run'[d], c)
  <2>1. c \in Queued /\ c \in Contacts BY <1>5 DEF Queued
  <2>2. CASE c \in S
    <3>1. Admitted(S, quiet)[c] \in {"deferred", "drop", "check"} BY <2>1, <2>2 DEF Admitted
    <3>2. QED BY <1>4, <3>1 DEF Minds, Step
  <2>3. CASE c \notin S
    <3>1. S # Queued BY <2>1, <2>3
    <3>2. more = TRUE BY <1>2, <3>1
    <3>3. QED BY <1>4, <3>2 DEF Minds
  <2>4. QED BY <2>2, <2>3
<1>6. QED BY <1>5 DEF Alive
LEMMA LaunchAlive == ASSUME Sound, Alive, Launch \/ Pause PROVE Alive'
<1>1. Queued' = Queued BY DEF Launch, Pause, outreachVars, Queued
<1>2. CASE Pause
  <2>1. status' \notin {"running", "scheduled"} /\ UNCHANGED <<run, halted, missed>>
    BY <1>2 DEF Pause
  <2>2. QED BY <1>1, <2>1 DEF Alive, Jobs
<1>3. CASE Launch
  <2>1. ASSUME NEW d \in Dispatchers, Put(d, NewJob) PROVE Alive'
    <3>1. run'[d] = NewJob BY <2>1 DEF Put, Sound, TypeOK, SmsTypeOK
    <3>2. Waits(run'[d]) BY <3>1 DEF Waits, NewJob, NoRun
    <3>3. QED BY <3>2 DEF Alive
  <2>2. CASE halted' = TRUE BY <2>2 DEF Alive
  <2>3. ASSUME Jobs # {}, halted' = (halted \/ \A d \in Jobs : run[d].phase = "ending"), UNCHANGED run
        PROVE  Alive'
    <3>1. halted = TRUE => halted' = TRUE BY <2>3
    <3>2. UNCHANGED missed BY <1>3 DEF Launch
    <3>3. QED BY <1>1, <2>3, <3>1, <3>2 DEF Alive
  <2>4. QED BY <1>3, <2>1, <2>2, <2>3 DEF Launch
<1>4. QED BY <1>2, <1>3

LEMMA StartAlive ==
  ASSUME Sound, Alive, NEW d \in Dispatchers, StartJob(d) \/ StartRequest(d)
  PROVE  Alive'
<1>1. UNCHANGED queue BY DEF StartJob, StartRequest, outreachVars
<1>2. CASE StartJob(d)
  <2> DEFINE r == [run[d] EXCEPT !.tries = run[d].tries + 1]
  <2>1. halted' = TRUE \/ EnqueueSuccessor(d, r) \/ Snapshot(d, r) BY <1>2 DEF StartJob
  <2>2. r \in Run /\ r.kind = "job"
    <3>1. run[d].tries < MaxTries /\ run[d].tries \in 0..MaxTries /\ run[d] \in Run
          /\ run[d].kind = "job"
      BY <1>2 DEF StartJob, Sound, GoodRuns, GoodRun, Run
    <3>2. run[d].tries + 1 \in 0..MaxTries BY <3>1, DispatchConstantsOK
    <3>3. QED BY <3>1, <3>2 DEF Run
  <2> HIDE DEF r
  <2>3. CASE halted' = TRUE BY <2>3 DEF Alive
  <2>4. QED BY <1>1, <2>1, <2>2, <2>3, SuccessorAlive, SnapshotAlive
<1>3. CASE StartRequest(d)
  <2>1. PICK r : Put(d, r) /\ r.kind # "job"
    <3>1. PICK S \in SUBSET Queued, quiet \in SUBSET Contacts :
            Put(d, [[NoRun EXCEPT !.kind = "request"]
                      EXCEPT !.phase = "sending", !.at = Admitted(S, quiet), !.more = S # Queued])
      BY <1>3 DEF StartRequest, Snapshot
    <3>2. [[NoRun EXCEPT !.kind = "request"]
             EXCEPT !.phase = "sending", !.at = Admitted(S, quiet), !.more = S # Queued].kind = "request"
      BY DEF NoRun
    <3>3. QED BY <3>1, <3>2
  <2>2. run[d] = NoRun /\ UNCHANGED <<status, halted, missed>> BY <1>3 DEF StartRequest
  <2>3. ~Waits(run[d]) /\ \A c \in Queued : ~Minds(run[d], c)
    BY <2>2 DEF Waits, Minds, NoRun
  <2>4. QED BY <1>1, <2>1, <2>2, <2>3, ReleaseAlive
<1>4. QED BY <1>2, <1>3

LEMMA FinishAlive == ASSUME Sound, Alive, NEW d \in Dispatchers, FinishBatch(d) PROVE Alive'
<1>1. run[d] \in Run /\ run[d].phase = "sending" /\ UNCHANGED queue
  BY DEF FinishBatch, outreachVars, Sound, TypeOK, SmsTypeOK
<1>2. ~Waits(run[d]) BY <1>1 DEF Waits
<1>3. CASE EndBatch(d) /\ run[d].kind = "request"
  <2>1. Put(d, NoRun) /\ UNCHANGED <<status, halted, missed>> BY <1>3 DEF EndBatch
  <2>2. \A c \in Queued : ~Minds(run[d], c) BY <1>3 DEF Minds
  <2>3. NoRun.kind = "none" BY DEF NoRun
  <2>4. QED BY <1>1, <1>2, <2>1, <2>2, <2>3, ReleaseAlive
<1>4. CASE Fail(d) BY <1>4, FailAlive
<1>5. CASE EnqueueSuccessor(d, run[d]) BY <1>1, <1>5, SuccessorAlive
<1>6. CASE /\ EndBatch(d) /\ \A c \in Contacts : run[d].at[c] \in Settled
           /\ run[d].kind # "request" /\ ~Throws(run[d]) /\ ~Remaining(run[d])
  <2>1. Put(d, Returned(run[d])) /\ UNCHANGED <<halted, missed>> BY <1>6 DEF EndBatch
  <2>2. ASSUME NEW c \in Queued PROVE ~Minds(run[d], c)
    <3>1. c \in Contacts /\ run[d].at[c] \in Settled BY <1>6 DEF Queued
    <3>2. run[d].at[c] \notin {"error", "deferred", "failed"} BY <1>6, <3>1 DEF Throws, Remaining
    <3>3. run[d].more # TRUE BY <1>6 DEF Remaining
    <3>4. QED BY <3>1, <3>2, <3>3 DEF Minds, Settled
  <2>3. Returned(run[d]).kind = "job" => d \in Jobs
    BY <1>1 DEF Returned, Run, NoRun, Jobs
  <2>4. status' \in {status, "complete"} BY <1>6 DEF EndBatch
  <2>5. QED BY <1>1, <1>2, <2>1, <2>2, <2>3, <2>4, ReleaseAlive
<1>7. CASE RejectBatch(d)
  <2>1. PICK e \in Dispatchers :
          run[e] = NoRun /\ run' = [run EXCEPT ![d].kind = "request", ![e] = Failed(run[d])]
    BY <1>7 DEF RejectBatch
  <2>2. run'[e] = Failed(run[d])
    BY <2>1 DEF Sound, TypeOK, SmsTypeOK
  <2>3. run[d].tries \in 0..MaxTries BY <1>1 DEF Run
  <2>4. CASE run[d].tries < MaxTries
    <3>1. run'[e] = [NewJob EXCEPT !.tries = run[d].tries] BY <2>2, <2>4 DEF Failed
    <3>2. Waits(run'[e]) BY <2>3, <3>1, NewJobWaits
    <3>3. QED BY <3>2 DEF Alive
  <2>5. CASE ~(run[d].tries < MaxTries)
    <3>1. run[d].tries = MaxTries BY <2>3, <2>5, DispatchConstantsOK
    <3>2. halted' = (halted \/ run[d].tries = MaxTries) BY <1>7 DEF RejectBatch
    <3>3. halted' = TRUE BY <3>1, <3>2
    <3>4. QED BY <3>3 DEF Alive
  <2>6. QED BY <2>4, <2>5
<1>8. CASE EndBatch(d) /\ \A c \in Contacts : run[d].at[c] \in Settled
  BY <1>3, <1>4, <1>5, <1>6, <1>8 DEF EndBatch
<1>9. QED BY <1>7, <1>8 DEF FinishBatch
LEMMA EndAlive ==
  ASSUME Sound, Alive, NEW d \in Dispatchers, CompleteJob(d) \/ KillRun(d)
  PROVE  Alive'
<1>1. UNCHANGED <<queue, missed, status>> BY DEF CompleteJob, KillRun, outreachVars
<1>2. NoRun.kind = "none" BY DEF NoRun
<1>3. CASE CompleteJob(d)
  <2>1. ~Waits(run[d]) /\ \A c \in Queued : ~Minds(run[d], c)
    BY <1>3 DEF CompleteJob, Waits, Minds
  <2>2. Put(d, NoRun) /\ UNCHANGED halted BY <1>3 DEF CompleteJob
  <2>3. QED BY <1>1, <1>2, <2>1, <2>2, ReleaseAlive
<1>4. CASE Fail(d) BY <1>4, FailAlive
<1>5. CASE KillRun(d) /\ run[d].kind # "job"
  <2>1. Put(d, NoRun) /\ UNCHANGED halted BY <1>5 DEF KillRun
  <2>2. ~Waits(run[d]) /\ \A c \in Queued : ~Minds(run[d], c) BY <1>5 DEF Waits, Minds
  <2>3. QED BY <1>1, <1>2, <2>1, <2>2, ReleaseAlive
<1>6. QED BY <1>3, <1>4, <1>5 DEF KillRun

\* A batch minds its members until they are settled for good.
LEMMA MoveAlive ==
  ASSUME Sound, Alive, NEW e \in Dispatchers, NEW b \in Contacts, NEW s \in Step,
         \A d \in Dispatchers : /\ run'[d].kind = run[d].kind /\ run'[d].phase = run[d].phase
                                /\ run'[d].more = run[d].more,
         \A d \in Dispatchers, c \in Contacts :
           /\ d = e /\ c = b => run'[d].at[c] = s
           /\ ~(d = e /\ c = b) => run'[d].at[c] = run[d].at[c],
         UNCHANGED <<halted, missed, status>>, Queued' \subseteq Queued,
         s \in {"out", "gone", "sent"} => b \notin Queued'
  PROVE  Alive'
<1>5. CASE halted = TRUE BY <1>5 DEF Alive
<1>6. ASSUME NEW d \in Dispatchers, Waits(run[d]) PROVE Alive'
  <2>1. Waits(run'[d]) BY <1>6 DEF Waits
  <2>2. QED BY <2>1 DEF Alive
<1>7. ASSUME NEW c \in Queued', NEW d \in Dispatchers, Minds(run[d], c) PROVE Minds(run'[d], c)
  <2>1. c \in Contacts /\ s \in Step BY <1>7 DEF Queued
  <2>2. CASE d = e /\ c = b
    <3>1. run'[d].at[c] = s /\ s \notin {"out", "gone", "sent"} BY <1>7, <2>1, <2>2
    <3>2. QED BY <1>7, <3>1 DEF Minds
  <2>3. CASE ~(d = e /\ c = b)
    <3>1. run'[d].at[c] = run[d].at[c] BY <2>1, <2>3
    <3>2. QED BY <1>7, <3>1 DEF Minds
  <2>4. QED BY <2>2, <2>3
<1>8. CASE \A c \in Queued : c \in missed \/ \E d \in Dispatchers : Minds(run[d], c)
  <2>1. \A c \in Queued' : c \in missed' \/ \E d \in Dispatchers : Minds(run'[d], c)
    BY <1>7, <1>8
  <2>2. QED BY <2>1 DEF Alive
<1>9. CASE Jobs = {} /\ status \notin {"running", "scheduled"}
  <2>1. Jobs' = {} BY <1>9 DEF Jobs
  <2>2. QED BY <1>9, <2>1 DEF Alive
<1>10. QED BY <1>5, <1>6, <1>8, <1>9 DEF Alive

LEMMA MoveKeeps ==
  ASSUME Sound, NEW e \in Dispatchers, NEW b \in Contacts, NEW s \in Step, Move(e, b, s)
  PROVE  /\ \A d \in Dispatchers : /\ run'[d].kind = run[d].kind
                                   /\ run'[d].phase = run[d].phase
                                   /\ run'[d].more = run[d].more
         /\ \A d \in Dispatchers, c \in Contacts :
              /\ d = e /\ c = b => run'[d].at[c] = s
              /\ ~(d = e /\ c = b) => run'[d].at[c] = run[d].at[c]
<1>1. run' = [run EXCEPT ![e] = [run[e] EXCEPT !.at = [run[e].at EXCEPT ![b] = s]]] BY DEF Move
<1>2. run \in [Dispatchers -> Run] BY DEF Sound, TypeOK, SmsTypeOK
<1>3. \A d \in Dispatchers : /\ run'[d].kind = run[d].kind /\ run'[d].phase = run[d].phase
                             /\ run'[d].more = run[d].more
  BY <1>1, <1>2 DEF Run
<1>4. QED BY <1>3, MoveAt

LEMMA RecordKeeps ==
  ASSUME Sound, NEW d \in Dispatchers, NEW c \in Contacts, RecordText(d, c)
  PROVE  \E s \in Step :
           /\ \A e \in Dispatchers : /\ run'[e].kind = run[e].kind
                                     /\ run'[e].phase = run[e].phase
                                     /\ run'[e].more = run[e].more
           /\ \A e \in Dispatchers, b \in Contacts :
                /\ e = d /\ b = c => run'[e].at[b] = s
                /\ ~(e = d /\ b = c) => run'[e].at[b] = run[e].at[b]
           /\ \/ s = "sent" /\ queue' = [queue EXCEPT ![c] = Dequeued(queue[c])]
              \/ s = "failed" /\ UNCHANGED queue
<1>1. run \in [Dispatchers -> Run] BY DEF Sound, TypeOK, SmsTypeOK
<1>2. PICK saved \in BOOLEAN, left \in BOOLEAN :
        /\ queue' = IF left THEN [queue EXCEPT ![c] = Dequeued(queue[c])] ELSE queue
        /\ run' = [e \in Dispatchers |->
                    IF e = d THEN [run[d] EXCEPT !.at[c] = IF left THEN "sent" ELSE "failed"]
                    ELSE IF saved /\ run[e].phase = "sending"
                    THEN [run[e] EXCEPT !.texted = run[e].texted \cup {c}]
                    ELSE run[e]]
  <2>1. Works \subseteq BOOLEAN BY DEF Works
  <2>2. QED BY <2>1 DEF RecordText
<1> DEFINE s == IF left THEN "sent" ELSE "failed"
<1>3. s \in Step BY DEF Step
<1>4. \A e \in Dispatchers : /\ run'[e].kind = run[e].kind
                             /\ run'[e].phase = run[e].phase
                             /\ run'[e].more = run[e].more
  BY <1>1, <1>2 DEF Run
<1>5. ASSUME NEW e \in Dispatchers, NEW b \in Contacts
      PROVE  /\ e = d /\ b = c => run'[e].at[b] = s
             /\ ~(e = d /\ b = c) => run'[e].at[b] = run[e].at[b]
  <2>1. CASE e = d
    <3>1. run'[e] = [run[d] EXCEPT !.at = [run[d].at EXCEPT ![c] = s]] BY <1>2, <2>1
    <3>2. run'[e].at = [run[d].at EXCEPT ![c] = s] BY <1>1, <3>1 DEF Run
    <3>3. QED BY <1>1, <2>1, <3>2 DEF Run
  <2>2. CASE e # d BY <1>1, <1>2, <2>2 DEF Run
  <2>3. QED BY <2>1, <2>2
<1>6. \/ s = "sent" /\ queue' = [queue EXCEPT ![c] = Dequeued(queue[c])]
      \/ s = "failed" /\ UNCHANGED queue
  BY <1>2
<1> HIDE DEF s
<1>7. QED BY <1>3, <1>4, <1>5, <1>6

LEMMA DequeuedGone ==
  ASSUME OutreachTypeOK, NEW b \in Contacts, queue' = [queue EXCEPT ![b] = Dequeued(queue[b])]
  PROVE  b \notin Queued' /\ Queued' \subseteq Queued
BY DEF Queued, OutreachTypeOK, Dequeued, Entry

LEMMA MemberAlive ==
  ASSUME Sound, Alive, NEW d \in Dispatchers, NEW c \in Contacts, MemberStep(d, c)
  PROVE  Alive'
<1>1. UNCHANGED <<halted, missed, status>> /\ OutreachTypeOK
  BY DEF MemberStep, DropOptedOut, CheckMember, SendText, RecordText, Sound, TypeOK
<1>2. ASSUME NEW s \in {"gone", "sent"}, Move(d, c, s), queue' = [queue EXCEPT ![c] = Dequeued(queue[c])]
      PROVE  Alive'
  <2>1. s \in Step BY DEF Step
  <2>2. QED BY <1>1, <1>2, <2>1, DequeuedGone, MoveKeeps, MoveAlive
<1>3. ASSUME NEW s \in {"error", "send", "record", "failed"}, Move(d, c, s), Queued' \subseteq Queued
      PROVE  Alive'
  <2>1. s \in Step /\ s \notin {"out", "gone", "sent"} BY DEF Step
  <2>2. QED BY <1>1, <1>3, <2>1, MoveKeeps, MoveAlive
<1>4. UNCHANGED queue => Queued' \subseteq Queued BY DEF Queued
<1>5. CASE Drop(d, c) BY <1>2, <1>3, <1>4, <1>5 DEF Drop
<1>6. CASE CheckMember(d, c) BY <1>3, <1>4, <1>5, <1>6 DEF CheckMember
<1>7. CASE SendText(d, c)
  <2>1. UNCHANGED queue BY <1>7 DEF SendText
  <2>2. Move(d, c, "record") \/ Move(d, c, "failed") \/ UNCHANGED run BY <1>7 DEF SendText
  <2>3. CASE UNCHANGED run
    <3>1. \A b \in Contacts : b \in Queued' => b \in Queued BY <2>1 DEF Queued
    <3>2. \A b \in Queued' : b \in Queued \/ b \in missed' BY <2>1, <3>1 DEF Queued
    <3>3. QED BY <1>1, <2>3, <3>2, AliveSame
  <2>4. QED BY <1>3, <1>4, <2>1, <2>2, <2>3
<1>8. CASE RecordText(d, c)
  <2>1. PICK s \in Step :
           /\ \A e \in Dispatchers : /\ run'[e].kind = run[e].kind
                                     /\ run'[e].phase = run[e].phase
                                     /\ run'[e].more = run[e].more
           /\ \A e \in Dispatchers, b \in Contacts :
                /\ e = d /\ b = c => run'[e].at[b] = s
                /\ ~(e = d /\ b = c) => run'[e].at[b] = run[e].at[b]
           /\ \/ s = "sent" /\ queue' = [queue EXCEPT ![c] = Dequeued(queue[c])]
              \/ s = "failed" /\ UNCHANGED queue
    BY <1>8, RecordKeeps
  <2>2. Queued' \subseteq Queued BY <1>1, <1>4, <2>1, DequeuedGone
  <2>3. s \in {"out", "gone", "sent"} => c \notin Queued' BY <1>1, <2>1, DequeuedGone
  <2>4. QED BY <1>1, <2>1, <2>2, <2>3, MoveAlive
<1>9. QED BY <1>5, <1>6, <1>7, <1>8 DEF MemberStep, DropOptedOut

\* Contacts who come later are missed, contacts who opt out leave.
LEMMA ContactsAlive ==
  ASSUME Sound, Alive, NEW b \in Contacts, EnqueueText(b) \/ StopText(b)
  PROVE  Alive'
<1>1. CASE EnqueueText(b)
  <2>1. queue' = EnqueueEntry(queue, b, TRUE) /\ b \in missed' BY <1>1 DEF EnqueueText, Enqueue
  <2>2. \A c \in Contacts : c # b => queue'[c] = queue[c]
    BY <2>1 DEF EnqueueEntry, Sound, TypeOK, OutreachTypeOK
  <2>3. \A c \in Queued' : c \in Queued \/ c \in missed' BY <2>1, <2>2 DEF Queued
  <2>4. UNCHANGED <<run, halted, status>> /\ missed \subseteq missed' BY <1>1 DEF EnqueueText
  <2>5. QED BY <2>3, <2>4, AliveSame
<1>2. CASE StopText(b)
  <2>1. queue' = queue \/ queue' = DequeueContact(queue, b, FALSE, NoAgent)
    BY <1>2, Zenon DEF StopText, Stop
  <2>2. \A c \in Contacts : queue'[c] = queue[c] \/ queue'[c] = Dequeued(queue[c])
    BY <2>1 DEF DequeueContact
  <2>3. \A c \in Contacts : Dequeued(queue[c]).state # "queued"
    BY DEF Dequeued, Sound, TypeOK, OutreachTypeOK, Entry
  <2>4. Queued' \subseteq Queued BY <2>2, <2>3 DEF Queued
  <2>5. UNCHANGED <<halted, missed, status>> BY <1>2 DEF StopText
  <2>6. \A e \in Dispatchers : /\ run'[e].kind = run[e].kind /\ run'[e].phase = run[e].phase
                               /\ run'[e].more = run[e].more /\ run'[e].at = run[e].at
    BY <1>2 DEF StopText, Sound, TypeOK, SmsTypeOK, Run
  <2>7. CASE halted = TRUE BY <2>5, <2>7 DEF Alive
  <2>8. CASE \E e \in Dispatchers : Waits(run[e]) BY <2>6, <2>8 DEF Alive, Waits
  <2>9. CASE \A c \in Queued : c \in missed \/ \E e \in Dispatchers : Minds(run[e], c)
    <3>1. \A c \in Queued, e \in Dispatchers : Minds(run[e], c) => Minds(run'[e], c)
      BY <2>6 DEF Minds
    <3>2. \A c \in Queued' : c \in missed' \/ \E e \in Dispatchers : Minds(run'[e], c)
      BY <2>4, <2>5, <2>9, <3>1
    <3>3. QED BY <3>2 DEF Alive
  <2>10. CASE Jobs = {} /\ status \notin {"running", "scheduled"}
    <3>1. Jobs' = {} BY <2>6, <2>10 DEF Jobs
    <3>2. QED BY <2>5, <2>10, <3>1 DEF Alive
  <2>11. QED BY <2>7, <2>8, <2>9, <2>10 DEF Alive
<1>3. QED BY <1>1, <1>2

\* Only a message campaign has dispatch jobs.
NoJobs == type # "message" => Jobs = {} /\ status = "paused"

LEMMA AliveStep == Sound /\ NoJobs /\ Alive /\ [Next]_vars => Alive' /\ NoJobs'
<1> SUFFICES ASSUME Sound, NoJobs, Alive, [Next]_vars PROVE Alive' /\ NoJobs'
  OBVIOUS
<1>1. CASE type # "message" /\ UNCHANGED <<smsVars, type>>
  <2>1. Jobs' = {} /\ status' = "paused" /\ NoJobs' BY <1>1 DEF NoJobs, smsVars, Jobs
  <2>2. QED BY <2>1 DEF Alive
<1>2. CASE type = "message" /\ SmsStep /\ UNCHANGED type
  <2>1. NoJobs' BY <1>2 DEF NoJobs
  <2>2. Alive' BY <1>2, LaunchAlive, StartAlive, FinishAlive, EndAlive, MemberAlive, ContactsAlive
    DEF SmsStep
  <2>3. QED BY <2>1, <2>2
<1>3. CASE type = "message" /\ UNCHANGED <<smsVars, type>> /\ (BillingStep \/ Apart)
  <2>1. UNCHANGED queue
    BY <1>3 DEF Apart, BillingStep, ConfirmPayment, AgentAnswers, CallEnds, TextMoves, CallStatus,
       SmsStatus, LoseCallback, RunJob, BuryJob, PollCall, OpenSyncCall, OpenSyncText
  <2>2. Queued' = Queued BY <2>1 DEF Queued
  <2>3. Alive' BY <1>3, <2>2, AliveSame DEF smsVars
  <2>4. NoJobs' BY <1>3 DEF NoJobs
  <2>5. QED BY <2>3, <2>4
<1>4. QED BY <1>1, <1>2, <1>3, ApartStep DEF Next, vars

LEMMA AliveInit == Init => Alive /\ NoJobs
<1> SUFFICES ASSUME Init PROVE Jobs = {} /\ status = "paused"
  BY DEF Alive, NoJobs
<1>1. NoRun.kind = "none" BY DEF NoRun
<1>2. QED BY <1>1 DEF Init, SmsInit, Jobs

\* The chain of dispatch jobs does not just stop while contacts are queued: whatever
\* fails, is killed or runs beside it, it ends halted or for contacts who came late.
THEOREM ChainGoesOn == Spec => []DispatchAlive
<1>1. Alive => DispatchAlive
  <2> SUFFICES ASSUME Alive, status = "running", Jobs = {} PROVE halted \/ Queued \subseteq missed
    BY DEF DispatchAlive
  <2>1. \A d \in Dispatchers : run[d].kind # "job" BY DEF Jobs
  <2>2. QED BY <2>1 DEF Alive, Waits, Minds
<1>2. QED BY <1>1, AlwaysSound, AliveInit, AliveStep, PTL DEF Spec

-----------------------------------------------------------------------------
(* What is used and not billed.                                            *)

\* In the ledger, or in a gap of the code.
Settles(k) == k \in ledger \cup gap
Grows == ledger \cup gap \subseteq (ledger \cup gap)'

\* What makes NoFreeUsage inductive: a closed row without a duration is settled or
\* was not used; the job of the last status has a closed row to bill; and a closed row
\* that no job and no callback is going to bill is settled.
CallBilled(u) ==
  LET agent == <<u, "agent">>
      contact == <<u, "contact">>
  IN /\ row[agent].state \in {"none", "open", "closed"}
     /\ row[contact].state # "sent"
     /\ row[agent].state = "closed" \/ row[contact].state = "closed" => usage[u].stage = "over"
     /\ row[agent].state = "closed" /\ agent \in Due => Settles(agent)
     /\ row[contact].state = "closed" /\ ~row[contact].timed /\ contact \in Due => Settles(contact)
     /\ job[u]["final"] # "none" => row[contact].state \in {"closed", "stray"}
Billed(u) ==
  LET contact == <<u, "contact">>
  IN /\ usage[u].kind = "call" => CallBilled(u)
     /\ row[contact].state = "stray" => Settles(contact)
     /\ job[u]["final"] \in {"done", "dead"} /\ contact \in Due => Settles(contact)
     /\ row[contact].state \in {"sent", "closed"} /\ Silent(u, usage[u].news) /\ contact \in Due
          => Settles(contact)

SameRows(u) ==
  /\ \A s \in Sides : row'[<<u, s>>] = row[<<u, s>>]
  /\ job'[u]["final"] = job[u]["final"]
StillSaid(u) == "final" \in usage[u].news => "final" \in usage'[u].news

LEMMA SideOf ==
  ASSUME NEW u \in Usages
  PROVE  /\ <<u, "agent">> \in Legs /\ <<u, "contact">> \in Legs
         /\ <<u, "agent">>[1] = u /\ <<u, "contact">>[1] = u
         /\ <<u, "agent">>[2] = "agent" /\ <<u, "contact">>[2] = "contact"
BY DEF Legs, Sides

\* What becomes of a call or a text as far as its debit goes.
DueStep(e, f) ==
  \/ e.kind = "none"
  \/ f.kind = e.kind /\ f.stage = e.stage /\ f.used = e.used
  \/ f.kind = e.kind /\ e.stage # "over" /\ f.stage # "over"
  \/ /\ f.kind = e.kind /\ e.stage # "over" /\ f.stage = "over"
     /\ e.kind = "text" => "final" \in f.news

LEMMA MovesDue ==
  ASSUME NEW e \in Usage, NEW f \in Usage, GoodUse(e), Moves(e, f)
  PROVE  DueStep(e, f)
<1>1. CASE f = e BY <1>1 DEF DueStep
<1>2. CASE \E S \in SUBSET e.news : f = [e EXCEPT !.news = S] BY <1>2 DEF DueStep, Usage
<1>3. CASE f = [e EXCEPT !.adrift = TRUE] BY <1>3 DEF DueStep, Usage
<1>4. CASE e.stage \in {"ringing", "talking"} /\ \E answered \in BOOLEAN : f = Ended(e, answered)
  <2>1. e.kind = "call" BY <1>4 DEF GoodUse, Usage
  <2>2. f.kind = e.kind /\ f.stage = "over" BY <1>4 DEF Ended, Usage
  <2>3. QED BY <1>4, <2>1, <2>2 DEF DueStep
<1>5. CASE e.stage = "ringing"
           /\ f = [e EXCEPT !.stage = "talking", !.used = {"agent"}, !.news = {"progress"}]
  BY <1>5 DEF DueStep, Usage
<1>6. CASE e.stage \in {"accepted", "sent"} /\ f = [e EXCEPT !.stage = "sent", !.news = @ \cup {"progress"}]
  BY <1>6 DEF DueStep, Usage
<1>7. CASE e.stage \in {"accepted", "sent"} /\ f = [e EXCEPT !.stage = "over", !.news = @ \cup {"final"}]
  BY <1>7 DEF DueStep, Usage
<1>8. QED BY <1>1, <1>2, <1>3, <1>4, <1>5, <1>6, <1>7 DEF Moves, Goes, DueStep

\* A step that writes no row and no job of u.
LEMMA QuietBilled ==
  ASSUME Sound, [Next]_vars, Grows, NEW u \in Usages, Billed(u), SameRows(u), StillSaid(u)
  PROVE  Billed(u)'
<1> DEFINE e == usage[u]
           f == usage'[u]
           a == <<u, "agent">>
           c == <<u, "contact">>
<1>0. Sound' BY SoundStep
<1>1. e \in Usage /\ f \in Usage BY <1>0 DEF Sound, TypeOK, OutreachTypeOK
<1>2. GoodUse(e) /\ GoodUse(f) BY <1>0 DEF Sound, UsesOK
<1>3. Moves(e, f) BY EveryStepMoves DEF Sound, AllMove
<1>4. DueStep(e, f) BY <1>1, <1>2, <1>3, MovesDue
<1>5. RowsOK(u) BY DEF Sound, LegsOK
<1>6. /\ a \in Due <=> e.stage = "over" /\ "agent" \in e.used
      /\ c \in Due <=> e.stage = "over" /\ "contact" \in e.used
      /\ a \in Due' <=> f.stage = "over" /\ "agent" \in f.used
      /\ c \in Due' <=> f.stage = "over" /\ "contact" \in f.used
  BY SideOf DEF Due
<1>7. /\ row'[a] = row[a] /\ row'[c] = row[c]
      /\ job'[u]["final"] = job[u]["final"]
  BY DEF SameRows, Sides
<1>8. (Settles(a) => Settles(a)') /\ (Settles(c) => Settles(c)') BY DEF Settles, Grows
<1>9. CASE e.kind = "none"
  <2>1. row[a] = NoRow /\ row[c] = NoRow /\ job[u]["final"] = "none" BY <1>5, <1>9 DEF RowsOK, Sides
  <2>2. row'[a].state = "none" /\ row'[c].state = "none" /\ job'[u]["final"] = "none"
    BY <1>7, <2>1 DEF NoRow
  <2>3. QED BY <2>2 DEF Billed, CallBilled
<1>10. CASE f.kind = e.kind /\ f.stage = e.stage /\ f.used = e.used
  BY <1>6, <1>7, <1>8, <1>10 DEF Billed, CallBilled, Silent, StillSaid
<1>11. CASE f.kind = e.kind /\ e.stage # "over" /\ f.stage # "over"
  BY <1>6, <1>7, <1>8, <1>11 DEF Billed, CallBilled, Silent
<1>12. CASE /\ f.kind = e.kind /\ e.kind = "call" /\ e.stage # "over" /\ f.stage = "over"
  BY <1>6, <1>7, <1>8, <1>12 DEF Billed, CallBilled, Silent
<1>13. CASE /\ f.kind = e.kind /\ e.kind = "text" /\ e.stage # "over" /\ f.stage = "over"
            /\ "final" \in f.news
  <2>1. job[u]["final"] = "none" BY <1>5, <1>13 DEF RowsOK
  <2>2. QED BY <1>6, <1>7, <1>8, <1>13, <2>1 DEF Billed, Silent
<1>14. e.kind \in {"none", "call", "text"} BY <1>1 DEF Usage
<1>15. QED BY <1>4, <1>9, <1>10, <1>11, <1>12, <1>13, <1>14 DEF DueStep

\* How the gap and the ledger settle a leg.
LEMMA MissedGrows ==
  ASSUME NEW k, NEW really, Missed(k, really), UNCHANGED ledger
  PROVE  Grows /\ (really => Settles(k)')
BY DEF Missed, Grows, Settles

LEMMA DebitGrows ==
  ASSUME NEW k, Debit(k), UNCHANGED gap
  PROVE  Grows /\ Settles(k)'
BY DEF Debit, Grows, Settles

LEMMA StillGrows == UNCHANGED <<ledger, gap>> => Grows
BY DEF Grows

\* The writes of a step on u leave every other call and text as it was.
LEMMA OthersBilled ==
  ASSUME Sound, [Next]_vars, Grows, NEW u \in Usages, NEW v \in Usages \ {u}, Billed(v),
         UNCHANGED usage \/ (\E e : usage' = [usage EXCEPT ![u] = e]),
         UNCHANGED row \/ (\E s \in Sides : \E r : row' = [row EXCEPT ![<<u, s>>] = r]),
         UNCHANGED job \/ (\E j : job' = [job EXCEPT ![u] = j])
  PROVE  Billed(v)'
<1>1. usage'[v] = usage[v] BY DEF Sound, TypeOK, OutreachTypeOK
<1>2. job'[v] = job[v] BY DEF Sound, TypeOK, OutreachTypeOK
<1>3. ASSUME NEW s \in Sides PROVE row'[<<v, s>>] = row[<<v, s>>]
  <2>1. <<v, s>> \in Legs BY DEF Legs
  <2>2. QED BY <2>1 DEF Sound, TypeOK, OutreachTypeOK
<1>4. QED BY <1>1, <1>2, <1>3, QuietBilled DEF SameRows, StillSaid

\* A callback that is answered or lost changes nothing of what is due.
LEMMA SameDue ==
  ASSUME OutreachTypeOK, NEW u \in Usages, NEW S, usage' = [usage EXCEPT ![u] = [usage[u] EXCEPT !.news = S]]
  PROVE  /\ usage'[u].news = S
         /\ usage'[u].kind = usage[u].kind
         /\ usage'[u].stage = usage[u].stage
         /\ usage'[u].used = usage[u].used
         /\ <<u, "agent">> \in Due <=> <<u, "agent">> \in Due'
         /\ <<u, "contact">> \in Due <=> <<u, "contact">> \in Due'
<1>1. usage[u] \in Usage BY DEF OutreachTypeOK
<1>2. usage'[u] = [usage[u] EXCEPT !.news = S] BY DEF OutreachTypeOK
<1>3. /\ usage'[u].kind = usage[u].kind /\ usage'[u].stage = usage[u].stage
      /\ usage'[u].used = usage[u].used /\ usage'[u].news = S
  BY <1>1, <1>2 DEF Usage
<1>4. QED BY <1>3, SideOf DEF Due

LEMMA EnqueuedFinal ==
  ASSUME OutreachTypeOK, NEW u \in Usages, NEW key \in News,
         job' = job \/ job' = [job EXCEPT ![u] = Enqueued(job[u], key)],
         job'[u]["final"] # job[u]["final"]
  PROVE  key = "final" /\ job'[u]["final"] = "queued"
<1>1. job[u] \in Job BY DEF OutreachTypeOK
<1>2. job'[u] = job[u] \/ job'[u] = Enqueued(job[u], key) BY DEF OutreachTypeOK
<1>3. QED BY <1>1, <1>2 DEF Enqueued, Job, News

LEMMA StateSet ==
  ASSUME OutreachTypeOK, NEW k \in Legs, NEW s, row' = [row EXCEPT ![k] = [row[k] EXCEPT !.state = s]]
  PROVE  row'[k].state = s /\ row'[k].timed = row[k].timed
<1>1. row[k] \in Row /\ row'[k] = [row[k] EXCEPT !.state = s] BY DEF OutreachTypeOK
<1>2. QED BY <1>1 DEF Row

LEMMA CallStatusBilled ==
  ASSUME Sound, [Next]_vars, NEW u \in Usages, NEW n \in News, CallStatus(u, n), Billed(u)
  PROVE  Grows /\ Billed(u)'
<1> DEFINE k == <<u, "contact">>
           a == <<u, "agent">>
           r == CallUpserted(u, n)
           key == IF n = "final" \/ r.state = "closed" THEN "final" ELSE "progress"
<1>1. usage[u].kind = "call" /\ n \in usage[u].news /\ OutreachTypeOK
  BY DEF CallStatus, Sound, TypeOK
<1>2. PICK again \in Repeats, died \in Dies :
        /\ Heard(u, n, again)
        /\ \/ row[k].state = "stray" /\ UNCHANGED <<row, job, gap>>
           \/ /\ row[k].state # "stray"
              /\ row' = [row EXCEPT ![k] = r]
              /\ job' = IF died THEN job ELSE [job EXCEPT ![u] = Enqueued(@, key)]
              /\ Missed(k, \/ r.state = "stray"
                           \/ n = "progress" /\ row[k].timed
                           \/ n = "final" /\ died
                              /\ Silent(u, IF again THEN usage[u].news ELSE usage[u].news \ {n}))
  BY DEF CallStatus
<1>3. UNCHANGED ledger BY DEF CallStatus
<1>4. Grows BY <1>2, <1>3, MissedGrows, StillGrows
<1>5. (Settles(k) => Settles(k)') /\ (Settles(a) => Settles(a)') BY <1>4 DEF Settles, Grows
<1>6. CallBilled(u) BY <1>1 DEF Billed
<1>7. /\ usage'[u].kind = "call" /\ usage'[u].stage = usage[u].stage
      /\ usage'[u].used = usage[u].used
      /\ usage'[u].news = IF again THEN usage[u].news ELSE usage[u].news \ {n}
      /\ (k \in Due <=> k \in Due') /\ (a \in Due <=> a \in Due')
  <2> DEFINE S == IF again THEN usage[u].news ELSE usage[u].news \ {n}
  <2>1. usage' = [usage EXCEPT ![u] = [usage[u] EXCEPT !.news = S]] BY <1>2 DEF Heard
  <2> HIDE DEF S
  <2>2. /\ usage'[u].news = S /\ usage'[u].kind = usage[u].kind
        /\ usage'[u].stage = usage[u].stage /\ usage'[u].used = usage[u].used
        /\ (a \in Due <=> a \in Due') /\ (k \in Due <=> k \in Due')
    BY <1>1, <2>1, SameDue
  <2>3. QED BY <1>1, <2>2 DEF S
<1>8. "final" \in usage[u].news => usage[u].stage = "over" BY DEF Sound, UsesOK, GoodUse
<1>9. CASE row[k].state = "stray" /\ UNCHANGED <<row, job, gap>>
  <2>1. row'[k].state = "stray" /\ row'[a] = row[a] /\ job'[u] = job[u] BY <1>9
  <2>2. Settles(k)' BY <1>5, <1>9 DEF Billed
  <2>3. QED BY <1>4, <1>5, <1>6, <1>7, <2>1, <2>2 DEF Billed, CallBilled
<1>10. CASE row[k].state # "stray" /\ row' = [row EXCEPT ![k] = r]
  <2>1. row'[k] = r /\ row'[a] = row[a]
    BY <1>1, <1>10, SideOf DEF OutreachTypeOK
  <2>2. job'[u]["final"] # job[u]["final"] => key = "final" /\ job'[u]["final"] = "queued"
    <3>1. job' = job \/ job' = [job EXCEPT ![u] = Enqueued(job[u], key)] BY <1>2, <1>10
    <3>2. key \in News BY DEF News
    <3>3. QED BY <1>1, <3>1, <3>2, EnqueuedFinal
  <2>3. Missed(k, \/ r.state = "stray"
                  \/ n = "progress" /\ row[k].timed
                  \/ n = "final" /\ died
                     /\ Silent(u, IF again THEN usage[u].news ELSE usage[u].news \ {n}))
    BY <1>2, <1>10
  <2>4. /\ r.state \in {"stray", "closed", "open"}
        /\ r.state = "closed" => n = "final" \/ row[k].state = "closed"
        /\ row[k].state = "closed" => r.state = "closed"
        /\ r.state = "stray" \/ n = "final" => r.state \in {"stray", "closed"}
        /\ n = "final" /\ r.state # "stray" => (r.timed <=> "contact" \in usage[u].used)
    BY <1>10 DEF CallUpserted
  <2> HIDE DEF r
  <2>5. r.state = "stray" => Settles(k)' BY <1>3, <2>3, MissedGrows
  <2>6. n = "progress" /\ row[k].timed => Settles(k)' BY <1>3, <2>3, MissedGrows
  <2>7. n = "final" /\ died /\ Silent(u, usage'[u].news) => Settles(k)'
    BY <1>3, <1>7, <2>3, MissedGrows
  <2>8. r.state = "closed" => usage[u].stage = "over"
    BY <1>1, <1>6, <1>8, <2>4 DEF CallBilled
  <2>9. r.state = "closed" /\ ~r.timed /\ k \in Due => Settles(k)'
    <3>1. CASE n = "final" BY <2>4, <3>1 DEF Due
    <3>2. CASE n = "progress"
      BY <1>5, <1>6, <2>4, <2>6, <3>2 DEF CallBilled
    <3>3. QED BY <3>1, <3>2 DEF News
  <2>10. job'[u]["final"] # "none" => r.state \in {"closed", "stray"}
    BY <1>6, <1>10, <2>2, <2>4 DEF CallBilled
  <2>11. job'[u]["final"] \in {"done", "dead"} /\ k \in Due => Settles(k)'
    BY <1>5, <2>2 DEF Billed
  <2>12. r.state = "closed" /\ Silent(u, usage[u].news)' /\ k \in Due => Settles(k)'
    <3> SUFFICES ASSUME r.state = "closed", "final" \notin usage'[u].news, job'[u]["final"] = "none"
                 PROVE  k \in Due => Settles(k)'
      BY <2>11 DEF Silent
    <3>1. job[u]["final"] = "none" BY <2>2
    <3>2. died
      <4>1. ~died => job'[u]["final"] = Enqueued(job[u], "final")["final"]
        BY <1>1, <1>2, <1>10 DEF OutreachTypeOK
      <4>2. Enqueued(job[u], "final")["final"] = "queued"
        BY <1>1, <3>1 DEF Enqueued, OutreachTypeOK, Job, News
      <4>3. QED BY <4>1, <4>2
    <3>3. CASE n = "final" BY <2>7, <3>1, <3>2, <3>3 DEF Silent
    <3>4. CASE n = "progress"
      <4>1. "final" \notin usage[u].news BY <1>7, <3>4
      <4>2. row[k].state = "closed" BY <2>4, <3>4
      <4>3. QED BY <1>5, <3>1, <4>1, <4>2 DEF Billed, Silent
    <3>5. QED BY <3>3, <3>4 DEF News
  <2>13. CallBilled(u)'
    BY <1>5, <1>6, <1>7, <2>1, <2>4, <2>8, <2>9, <2>10 DEF CallBilled
  <2>14. QED BY <1>4, <1>7, <2>1, <2>4, <2>5, <2>11, <2>12, <2>13 DEF Billed
<1>11. QED BY <1>2, <1>9, <1>10

LEMMA SmsStatusBilled ==
  ASSUME Sound, [Next]_vars, NEW u \in Usages, NEW n \in News, SmsStatus(u, n), Billed(u)
  PROVE  Grows /\ Billed(u)'
<1> DEFINE k == <<u, "contact">>
           a == <<u, "agent">>
           s == IF n = "final" \/ row[k].state = "closed" THEN "closed" ELSE "sent"
<1>1. usage[u].kind = "text" /\ n \in usage[u].news /\ OutreachTypeOK
  BY DEF SmsStatus, Sound, TypeOK
<1>2. PICK again \in Repeats, died \in Dies :
        /\ Heard(u, n, again)
        /\ \/ row[k].state = "none" /\ UNCHANGED <<row, job, gap>>
           \/ /\ row[k].state # "none"
              /\ row' = [row EXCEPT ![k] = [row[k] EXCEPT !.state = s]]
              /\ job' = IF died THEN job ELSE [job EXCEPT ![u] = Enqueued(@, n)]
              /\ Missed(k, /\ usage[u].stage = "over"
                           /\ n = "progress" \/ died
                           /\ Silent(u, IF again THEN usage[u].news ELSE usage[u].news \ {n}))
  BY DEF SmsStatus
<1>3. UNCHANGED ledger BY DEF SmsStatus
<1>4. Grows BY <1>2, <1>3, MissedGrows, StillGrows
<1>5. Settles(k) => Settles(k)' BY <1>4 DEF Settles, Grows
<1>6. /\ usage'[u].kind = "text" /\ usage'[u].stage = usage[u].stage
      /\ usage'[u].news = IF again THEN usage[u].news ELSE usage[u].news \ {n}
      /\ k \in Due <=> k \in Due'
  <2> DEFINE S == IF again THEN usage[u].news ELSE usage[u].news \ {n}
  <2>1. usage' = [usage EXCEPT ![u] = [usage[u] EXCEPT !.news = S]] BY <1>2 DEF Heard
  <2> HIDE DEF S
  <2>2. /\ usage'[u].news = S /\ usage'[u].kind = usage[u].kind
        /\ usage'[u].stage = usage[u].stage /\ usage'[u].used = usage[u].used
        /\ (a \in Due <=> a \in Due') /\ (k \in Due <=> k \in Due')
    BY <1>1, <2>1, SameDue
  <2>3. QED BY <1>1, <2>2 DEF S
<1>7. CASE row[k].state = "none" /\ UNCHANGED <<row, job, gap>>
  <2>1. row'[k].state = "none" /\ job'[u] = job[u] BY <1>7
  <2>2. QED BY <1>4, <1>5, <1>6, <2>1 DEF Billed
<1>8. CASE row[k].state # "none" /\ row' = [row EXCEPT ![k] = [row[k] EXCEPT !.state = s]]
  <2> HIDE DEF s
  <2>1. row'[k].state = s
    <3>1. k \in Legs BY SideOf
    <3> HIDE DEF k
    <3>2. QED BY <1>1, <1>8, <3>1, StateSet
  <2>2. job'[u]["final"] # job[u]["final"] => job'[u]["final"] = "queued"
    <3>1. job' = job \/ job' = [job EXCEPT ![u] = Enqueued(job[u], n)] BY <1>2, <1>8
    <3>2. QED BY <1>1, <3>1, EnqueuedFinal
  <2>3. /\ usage[u].stage = "over"
        /\ n = "progress" \/ died
        /\ Silent(u, usage'[u].news)
        => Settles(k)'
    BY <1>2, <1>3, <1>6, <1>8, MissedGrows
  <2>4. job'[u]["final"] \in {"done", "dead"} /\ k \in Due => Settles(k)'
    BY <1>5, <2>2 DEF Billed
  <2>5. Silent(u, usage[u].news)' /\ k \in Due => Settles(k)'
    <3> SUFFICES ASSUME "final" \notin usage'[u].news, job'[u]["final"] = "none", k \in Due
                 PROVE  Settles(k)'
      BY <2>4 DEF Silent
    <3>1. job[u]["final"] = "none" BY <2>2
    <3>2. n = "progress" \/ died
      <4>1. ~died => job'[u]["final"] = Enqueued(job[u], n)["final"]
        BY <1>1, <1>2, <1>8 DEF OutreachTypeOK
      <4>2. n = "final" => Enqueued(job[u], n)["final"] = "queued"
        BY <1>1, <3>1 DEF Enqueued, OutreachTypeOK, Job, News
      <4>3. QED BY <4>1, <4>2 DEF News
    <3>3. usage[u].stage = "over" BY SideOf DEF Due
    <3>4. QED BY <2>3, <3>1, <3>2, <3>3 DEF Silent
  <2>6. s # "stray" BY DEF s
  <2>7. QED BY <1>4, <1>6, <2>1, <2>4, <2>5, <2>6 DEF Billed
<1>9. QED BY <1>2, <1>7, <1>8

LEMMA LoseCallbackBilled ==
  ASSUME Sound, [Next]_vars, NEW u \in Usages, NEW n \in News, LoseCallback(u, n), Billed(u)
  PROVE  Grows /\ Billed(u)'
<1> DEFINE k == <<u, "contact">>
           a == <<u, "agent">>
<1>1. n \in usage[u].news /\ OutreachTypeOK /\ Heard(u, n, FALSE) /\ UNCHANGED <<row, job, ledger>>
  BY DEF LoseCallback, Sound, TypeOK
<1>2. Missed(k, n = "final" /\ Silent(u, usage[u].news \ {n}) /\ row[k].state \in {"sent", "closed"})
  BY DEF LoseCallback
<1>3. Grows BY <1>1, <1>2, MissedGrows
<1>4. (Settles(k) => Settles(k)') /\ (Settles(a) => Settles(a)') BY <1>3 DEF Settles, Grows
<1>5. n = "final" /\ Silent(u, usage[u].news \ {n}) /\ row[k].state \in {"sent", "closed"}
        => Settles(k)'
  BY <1>1, <1>2, MissedGrows
<1>6. /\ usage'[u].kind = usage[u].kind /\ usage'[u].stage = usage[u].stage
      /\ usage'[u].news = usage[u].news \ {n}
      /\ (k \in Due <=> k \in Due') /\ (a \in Due <=> a \in Due')
  <2>1. usage' = [usage EXCEPT ![u] = [usage[u] EXCEPT !.news = usage[u].news \ {n}]] BY <1>1 DEF Heard
  <2>2. QED BY <1>1, <2>1, SameDue
<1>7. CallBilled(u) => CallBilled(u)' BY <1>1, <1>4, <1>6 DEF CallBilled
<1>8. row[k].state \in {"sent", "closed"} /\ Silent(u, usage[u].news)' /\ k \in Due => Settles(k)'
  <2>1. CASE n = "final" BY <1>1, <1>5, <1>6, <2>1 DEF Silent
  <2>2. CASE n # "final" BY <1>1, <1>4, <1>6, <2>2 DEF Silent, Billed
  <2>3. QED BY <2>1, <2>2
<1>9. QED BY <1>1, <1>3, <1>4, <1>6, <1>7, <1>8 DEF Billed

LEMMA RunJobBilled ==
  ASSUME Sound, [Next]_vars, NEW u \in Followed, NEW n \in News, RunJob(u, n), Billed(u)
  PROVE  Grows /\ Billed(u)'
<1> DEFINE k == <<u, "contact">>
           a == <<u, "agent">>
<1>1. /\ OutreachTypeOK /\ u \in Usages /\ usage[u].kind \in {"call", "text"}
      /\ job[u][n] = "queued" /\ UNCHANGED <<usage, row, gap>>
  BY FollowedUsages DEF RunJob, Sound, TypeOK, Followed
<1>2. PICK end \in {"done", "dead", "queued"} : job' = [job EXCEPT ![u] = [job[u] EXCEPT ![n] = end]]
  BY DEF RunJob
<1>3. \/ usage[u].kind = "call" /\ BillTerminalCall(k, row[k])
      \/ usage[u].kind = "text" /\ n = "final" /\ Debit(k)
      \/ usage[u].kind = "text" /\ n # "final" /\ NoDebit
  BY <1>1 DEF RunJob
<1>4. Grows BY <1>1, <1>3, DebitGrows, StillGrows DEF BillTerminalCall, NoDebit
<1>5. (Settles(k) => Settles(k)') /\ (Settles(a) => Settles(a)') BY <1>4 DEF Settles, Grows
<1>6. Due' = Due BY <1>1 DEF Due
<1>7. \/ job'[u]["final"] = job[u]["final"]
      \/ n = "final" /\ job[u]["final"] = "queued" /\ job'[u]["final"] \in {"done", "dead"}
  BY <1>1, <1>2 DEF OutreachTypeOK, Job, News
<1>8. job'[u]["final"] = "none" => job[u]["final"] = "none" BY <1>7
<1>9. job'[u]["final"] # "none" => job[u]["final"] # "none" BY <1>7
<1>10. n = "final" /\ k \in Due => Settles(k)'
  <2> SUFFICES ASSUME n = "final", k \in Due PROVE Settles(k)'
    OBVIOUS
  <2>1. CASE usage[u].kind = "text"
    <3>1. Debit(k) BY <1>3, <2>1
    <3>2. QED BY <1>1, <3>1, DebitGrows
  <2>2. CASE usage[u].kind = "call"
    <3>1. CallBilled(u) BY <2>2 DEF Billed
    <3>2. row[k].state \in {"closed", "stray"} BY <1>1, <3>1 DEF CallBilled
    <3>3. CASE row[k].state = "stray" BY <1>5, <3>3 DEF Billed
    <3>4. CASE row[k].state = "closed" /\ ~row[k].timed BY <1>5, <3>1, <3>4 DEF CallBilled
    <3>5. CASE row[k].state = "closed" /\ row[k].timed
      <4>1. Debit(k) BY <1>3, <2>2, <3>5 DEF BillTerminalCall
      <4>2. QED BY <1>1, <4>1, DebitGrows
    <3>6. QED BY <3>2, <3>3, <3>4, <3>5
  <2>3. QED BY <1>1, <2>1, <2>2
<1>11. job'[u]["final"] \in {"done", "dead"} /\ k \in Due => Settles(k)'
  BY <1>5, <1>7, <1>10 DEF Billed
<1>12. CallBilled(u) => CallBilled(u)' BY <1>1, <1>5, <1>6, <1>9 DEF CallBilled
<1>13. QED BY <1>1, <1>4, <1>5, <1>6, <1>8, <1>11, <1>12 DEF Billed, Silent

\* A job that is dead-lettered before its debit leaves what there is to bill in the gap.
LEMMA BuryJobBilled ==
  ASSUME Sound, [Next]_vars, NEW u \in Followed, NEW n \in News, BuryJob(u, n), Billed(u)
  PROVE  Grows /\ Billed(u)'
<1> DEFINE k == <<u, "contact">>
           a == <<u, "agent">>
<1>1. /\ OutreachTypeOK /\ u \in Usages /\ usage[u].kind \in {"call", "text"}
      /\ job[u][n] = "queued" /\ UNCHANGED <<usage, row, ledger>>
      /\ Missed(k, n = "final" /\ (usage[u].kind = "call" => row[k].timed))
  BY FollowedUsages DEF BuryJob, Sound, TypeOK, Followed
<1>2. job' = [job EXCEPT ![u] = [job[u] EXCEPT ![n] = "dead"]] BY DEF BuryJob
<1>3. Grows BY <1>1, MissedGrows
<1>4. (Settles(k) => Settles(k)') /\ (Settles(a) => Settles(a)') BY <1>3 DEF Settles, Grows
<1>5. Due' = Due BY <1>1 DEF Due
<1>6. \/ job'[u]["final"] = job[u]["final"]
      \/ n = "final" /\ job[u]["final"] = "queued" /\ job'[u]["final"] = "dead"
  BY <1>1, <1>2 DEF OutreachTypeOK, Job, News
<1>7. n = "final" /\ k \in Due => Settles(k)'
  <2> SUFFICES ASSUME n = "final", k \in Due PROVE Settles(k)'
    OBVIOUS
  <2>1. CASE usage[u].kind = "call" => row[k].timed BY <1>1, <2>1, MissedGrows
  <2>2. CASE usage[u].kind = "call" /\ ~row[k].timed
    <3>1. CallBilled(u) BY <2>2 DEF Billed
    <3>2. row[k].state \in {"closed", "stray"} BY <1>1, <3>1 DEF CallBilled
    <3>3. CASE row[k].state = "stray" BY <1>4, <3>3 DEF Billed
    <3>4. CASE row[k].state = "closed" BY <1>4, <2>2, <3>1, <3>4 DEF CallBilled
    <3>5. QED BY <3>2, <3>3, <3>4
  <2>3. QED BY <2>1, <2>2
<1>8. job'[u]["final"] \in {"done", "dead"} /\ k \in Due => Settles(k)'
  BY <1>4, <1>6, <1>7 DEF Billed
<1>9. CallBilled(u) => CallBilled(u)' BY <1>1, <1>4, <1>5, <1>6 DEF CallBilled
<1>10. QED BY <1>1, <1>3, <1>4, <1>5, <1>6, <1>8, <1>9 DEF Billed, Silent

\* What is read from Twilio of a call that is over.
LEMMA ReadBilled ==
  ASSUME Sound, [Next]_vars, NEW k \in Legs, PollCall(k) \/ OpenSyncCall(k), Billed(k[1])
  PROVE  Grows /\ Billed(k[1])'
<1> DEFINE u == k[1]
           c == <<u, "contact">>
           a == <<u, "agent">>
           quiet == Silent(u, usage[u].news)
<1>1. /\ OutreachTypeOK /\ u \in Usages /\ k = <<u, k[2]>> /\ k[2] \in Sides
      /\ usage[u].kind = "call" /\ usage[u].stage = "over" /\ row[k].state = "open"
      /\ row' = [row EXCEPT ![k] = CallRead(k)] /\ UNCHANGED <<usage, job>>
  BY DEF PollCall, OpenSyncCall, Sound, TypeOK, Legs
<1>2. \/ Missed(k, k[2] = "agent" \/ quiet) /\ UNCHANGED ledger
      \/ BillTerminalCall(k, CallRead(k)) /\ UNCHANGED gap
  BY DEF PollCall, OpenSyncCall, NoDebit
<1>3. Grows BY <1>2, MissedGrows, DebitGrows, StillGrows DEF BillTerminalCall, NoDebit
<1>4. (Settles(c) => Settles(c)') /\ (Settles(a) => Settles(a)') BY <1>3 DEF Settles, Grows
<1>5. Due' = Due BY <1>1 DEF Due
<1>6. CallRead(k).state = "closed" /\ (CallRead(k).timed <=> k \in Due)
  BY <1>1 DEF CallRead, Due
<1>7. k[2] = "agent" \/ quiet => (k \in Due => Settles(k)')
  <2>1. CASE Missed(k, k[2] = "agent" \/ quiet) /\ UNCHANGED ledger BY <2>1, MissedGrows
  <2>2. CASE BillTerminalCall(k, CallRead(k)) /\ UNCHANGED gap
    BY <1>6, <2>2, DebitGrows DEF BillTerminalCall
  <2>3. QED BY <1>2, <2>1, <2>2
<1>8. CallBilled(u) BY <1>1 DEF Billed
<1>9. CASE k[2] = "agent"
  <2>1. row'[a].state = "closed" /\ row'[c] = row[c]
    BY <1>1, <1>6, <1>9, SideOf DEF OutreachTypeOK
  <2>2. a \in Due => Settles(a)' BY <1>1, <1>7, <1>9
  <2>3. CallBilled(u)' BY <1>1, <1>4, <1>5, <1>8, <2>1, <2>2 DEF CallBilled
  <2>4. QED BY <1>1, <1>3, <1>4, <1>5, <2>1, <2>3 DEF Billed, Silent
<1>10. CASE k[2] = "contact"
  <2>1. row'[c] = CallRead(c) /\ row'[a] = row[a]
    BY <1>1, <1>10, SideOf DEF OutreachTypeOK
  <2>2. quiet /\ c \in Due => Settles(c)' BY <1>1, <1>7, <1>10
  <2>3. CallRead(c).state = "closed" /\ (CallRead(c).timed <=> c \in Due) BY <1>1, <1>6, <1>10
  <2>4. CallBilled(u)' BY <1>1, <1>4, <1>5, <1>8, <2>1, <2>3 DEF CallBilled
  <2>5. Silent(u, usage[u].news)' <=> quiet BY <1>1 DEF Silent
  <2> HIDE DEF quiet
  <2>6. QED BY <1>1, <1>3, <1>4, <1>5, <2>1, <2>2, <2>3, <2>4, <2>5 DEF Billed
<1>11. QED BY <1>1, <1>9, <1>10 DEF Sides

LEMMA SyncTextBilled ==
  ASSUME Sound, [Next]_vars, NEW k \in Legs, OpenSyncText(k), Billed(k[1])
  PROVE  Grows /\ Billed(k[1])'
<1> DEFINE u == k[1]
           c == <<u, "contact">>
           over == usage[u].stage = "over"
           s == IF over THEN "closed" ELSE "sent"
<1>1. /\ OutreachTypeOK /\ u \in Usages /\ k = <<u, k[2]>> /\ k[2] \in Sides
      /\ usage[u].kind = "text" /\ row[k].state = "open"
      /\ row' = [row EXCEPT ![k] = [row[k] EXCEPT !.state = s]] /\ UNCHANGED <<usage, ledger>>
  BY DEF OpenSyncText, Sound, TypeOK, Legs
<1>2. \/ job' = (IF over THEN [job EXCEPT ![u] = Enqueued(@, "final")] ELSE job) /\ UNCHANGED gap
      \/ UNCHANGED job /\ Missed(k, over /\ Silent(u, usage[u].news))
  BY DEF OpenSyncText
<1>3. Grows BY <1>1, <1>2, MissedGrows, StillGrows
<1>4. Settles(c) => Settles(c)' BY <1>3 DEF Settles, Grows
<1>5. Due' = Due BY <1>1 DEF Due
<1>6. c \in Due => over BY SideOf, <1>1 DEF Due
<1>7. job'[u]["final"] # job[u]["final"] => job'[u]["final"] = "queued"
  BY <1>1, <1>2 DEF Enqueued, OutreachTypeOK, Job, News
<1>8. CASE k[2] = "agent"
  <2>1. row'[c] = row[c] BY <1>1, <1>8, SideOf DEF OutreachTypeOK
  <2>2. Silent(u, usage[u].news)' => Silent(u, usage[u].news) BY <1>1, <1>7 DEF Silent
  <2>3. job'[u]["final"] \in {"done", "dead"} => job[u]["final"] = job'[u]["final"] BY <1>7
  <2>4. QED BY <1>1, <1>3, <1>4, <1>5, <2>1, <2>2, <2>3 DEF Billed
<1>9. CASE k[2] = "contact"
  <2>1. row'[c].state = s BY <1>1, <1>9, SideOf DEF OutreachTypeOK, Row
  <2>2. Silent(u, usage[u].news)' /\ over => Settles(c)'
    <3> SUFFICES ASSUME Silent(u, usage[u].news)', over PROVE Settles(c)'
      OBVIOUS
    <3>1. job'[u]["final"] = job[u]["final"] /\ job[u]["final"] \in {"none", "dead"}
      BY <1>7 DEF Silent
    <3>2. Silent(u, usage[u].news) BY <1>1, <3>1 DEF Silent
    <3>3. CASE job' = [job EXCEPT ![u] = Enqueued(@, "final")]
      <4>1. job'[u]["final"] = "queued"
        BY <1>1, <3>1, <3>3 DEF Enqueued, OutreachTypeOK, Job, News
      <4>2. QED BY <3>1, <4>1
    <3>4. CASE Missed(k, over /\ Silent(u, usage[u].news))
      BY <1>1, <1>9, <3>2, <3>4, MissedGrows
    <3>5. QED BY <1>2, <3>3, <3>4
  <2>3. job'[u]["final"] \in {"done", "dead"} /\ c \in Due => Settles(c)'
    BY <1>4, <1>7 DEF Billed
  <2>4. s # "stray" OBVIOUS
  <2> HIDE DEF s, over
  <2>5. QED BY <1>1, <1>3, <1>5, <1>6, <2>1, <2>2, <2>3, <2>4 DEF Billed
<1>10. QED BY <1>1, <1>8, <1>9 DEF Sides

AllBilled == \A u \in Usages : Billed(u)

\* A step that writes on one call or text.
LEMMA OneBilled ==
  ASSUME Sound, AllBilled, [Next]_vars, NEW u \in Usages, Grows, Billed(u)',
         UNCHANGED usage \/ (\E e : usage' = [usage EXCEPT ![u] = e]),
         UNCHANGED row \/ (\E s \in Sides : \E r : row' = [row EXCEPT ![<<u, s>>] = r]),
         UNCHANGED job \/ (\E j : job' = [job EXCEPT ![u] = j])
  PROVE  AllBilled'
<1>1. ASSUME NEW v \in Usages \ {u} PROVE Billed(v)'
  BY <1>1, OthersBilled DEF AllBilled
<1>2. QED BY <1>1 DEF AllBilled

\* A step that writes no row, no job and no debit.
LEMMA NoneWritten ==
  ASSUME Sound, AllBilled, [Next]_vars, UNCHANGED row, UNCHANGED job, Grows,
         \A u \in Usages : StillSaid(u)
  PROVE  AllBilled'
BY QuietBilled DEF AllBilled, SameRows

LEMMA OneSays ==
  ASSUME OutreachTypeOK, NEW u, NEW e, usage' = [usage EXCEPT ![u] = e],
         u \in Usages /\ "final" \in usage[u].news => "final" \in e.news
  PROVE  \A v \in Usages : StillSaid(v)
BY DEF OutreachTypeOK, StillSaid

LEMMA EndedSays ==
  ASSUME NEW e \in Usage, NEW answered, "final" \in e.news
  PROVE  "final" \in Ended(e, answered).news
BY DEF Ended, Usage

LEMMA BillingBilled == ASSUME Sound, AllBilled, [Next]_vars, BillingStep PROVE AllBilled'
<1>0. OutreachTypeOK /\ UsesOK BY DEF Sound, TypeOK
<1>1. ASSUME NEW s \in Sessions, ConfirmPayment(s) PROVE AllBilled'
  <2>1. UNCHANGED <<usage, row, job, ledger, gap>> BY <1>1 DEF ConfirmPayment
  <2>2. QED BY <2>1, NoneWritten, StillGrows DEF StillSaid
<1>2. ASSUME NEW u \in Followed, NEW n \in News,
             CallStatus(u, n) \/ SmsStatus(u, n) \/ LoseCallback(u, n)
               \/ RunJob(u, n) \/ BuryJob(u, n)
      PROVE  AllBilled'
  <2>1. u \in Usages BY FollowedUsages
  <2>2. Grows /\ Billed(u)'
    BY <1>2, <2>1, CallStatusBilled, SmsStatusBilled, LoseCallbackBilled, RunJobBilled, BuryJobBilled
    DEF AllBilled
  <2>3. UNCHANGED usage \/ \E e : usage' = [usage EXCEPT ![u] = e]
    BY <1>2 DEF CallStatus, SmsStatus, LoseCallback, RunJob, BuryJob, Heard
  <2>4. UNCHANGED row \/ \E s \in Sides : \E r : row' = [row EXCEPT ![<<u, s>>] = r]
    <3>1. UNCHANGED row \/ \E r : row' = [row EXCEPT ![<<u, "contact">>] = r]
      BY <1>2 DEF CallStatus, SmsStatus, LoseCallback, RunJob, BuryJob
    <3>2. QED BY <3>1 DEF Sides
  <2>5. UNCHANGED job \/ \E j : job' = [job EXCEPT ![u] = j]
    BY <1>2 DEF CallStatus, SmsStatus, LoseCallback, RunJob, BuryJob
  <2>6. QED BY <2>1, <2>2, <2>3, <2>4, <2>5, OneBilled
<1>3. ASSUME NEW u \in Usages, AgentAnswers(u) \/ CallEnds(u) \/ TextMoves(u) PROVE AllBilled'
  <2>1. UNCHANGED <<row, job, ledger, gap>> BY <1>3 DEF AgentAnswers, CallEnds, TextMoves
  <2>2. usage[u] \in Usage /\ GoodUse(usage[u]) BY <1>0 DEF OutreachTypeOK, UsesOK
  <2>3. PICK e : /\ usage' = [usage EXCEPT ![u] = e]
                 /\ \/ usage[u].stage = "ringing"
                    \/ \E answered : e = Ended(usage[u], answered)
                    \/ e = [usage[u] EXCEPT !.stage = "sent", !.news = @ \cup {"progress"}]
                    \/ e = [usage[u] EXCEPT !.stage = "over", !.news = @ \cup {"final"}]
    BY <1>3 DEF AgentAnswers, CallEnds, TextMoves
  <2>4. "final" \in usage[u].news => "final" \in e.news
    <3>1. CASE usage[u].stage = "ringing" BY <2>2, <3>1 DEF GoodUse
    <3>2. CASE \E answered : e = Ended(usage[u], answered) BY <2>2, <3>2, EndedSays
    <3>3. CASE e = [usage[u] EXCEPT !.stage = "sent", !.news = @ \cup {"progress"}]
      BY <2>2, <3>3 DEF Usage
    <3>4. CASE e = [usage[u] EXCEPT !.stage = "over", !.news = @ \cup {"final"}]
      BY <2>2, <3>4 DEF Usage
    <3>5. QED BY <2>3, <3>1, <3>2, <3>3, <3>4
  <2>5. QED BY <1>0, <2>1, <2>3, <2>4, OneSays, NoneWritten, StillGrows
<1>4. ASSUME NEW k \in Legs, PollCall(k) \/ OpenSyncCall(k) \/ OpenSyncText(k) PROVE AllBilled'
  <2>1. k[1] \in Usages /\ k[2] \in Sides /\ k = <<k[1], k[2]>> BY DEF Legs
  <2>2. Grows /\ Billed(k[1])' BY <1>4, <2>1, ReadBilled, SyncTextBilled DEF AllBilled
  <2>3. UNCHANGED usage /\ \E r : row' = [row EXCEPT ![k] = r]
    BY <1>4 DEF PollCall, OpenSyncCall, OpenSyncText
  <2>4. UNCHANGED job \/ \E j : job' = [job EXCEPT ![k[1]] = j]
    BY <1>4 DEF PollCall, OpenSyncCall, OpenSyncText
  <2>5. \E s \in Sides : \E r : row' = [row EXCEPT ![<<k[1], s>>] = r] BY <2>1, <2>3
  <2>6. QED BY <2>1, <2>2, <2>3, <2>4, <2>5, OneBilled
<1>5. Followed \subseteq Usages /\ Followed \X Sides \subseteq Legs BY FollowedUsages DEF Legs
<1>6. QED BY <1>1, <1>2, <1>3, <1>4, <1>5 DEF BillingStep

\* The agent's leg of a call gets its row.
LEMMA OpenedBilled ==
  ASSUME Sound, NEW u \in Usages, usage[u].kind = "call", Billed(u), UNCHANGED <<usage, job, ledger, gap>>,
         row' = [row EXCEPT ![<<u, "agent">>] = [row[<<u, "agent">>] EXCEPT !.state = "open"]]
  PROVE  Grows /\ Billed(u)'
<1> DEFINE a == <<u, "agent">>
           c == <<u, "contact">>
<1>1. row'[a].state = "open" /\ row'[c] = row[c]
  <2>1. OutreachTypeOK /\ a \in Legs /\ c \in Legs BY SideOf DEF Sound, TypeOK
  <2>2. row'[a].state = "open" BY <2>1, StateSet
  <2>3. QED BY <2>1, <2>2 DEF OutreachTypeOK
<1>2. Grows /\ Due' = Due BY DEF Grows, Due
<1>3. Settles(c) => Settles(c)' BY DEF Settles
<1>4. CallBilled(u) BY DEF Billed
<1>5. CallBilled(u)' BY <1>1, <1>2, <1>3, <1>4 DEF CallBilled
<1>6. QED BY <1>1, <1>2, <1>3, <1>5 DEF Billed, Silent

LEMMA DialBilled == ASSUME Sound, AllBilled, [Next]_vars, DialStep PROVE AllBilled'
<1>0. OutreachTypeOK /\ UsesOK BY DEF Sound, TypeOK
<1>1. ASSUME NEW t \in Tabs, SaveCall(t) PROVE AllBilled'
  <2>1. PICK u \in Usages : u = dial[t].call /\ usage[u].kind = "call"
    BY <1>1 DEF SaveCall, Sound, AskedOK, TypeOK, DialTypeOK, Dial
  <2>2. UNCHANGED <<usage, job, ledger, gap>> BY <1>1 DEF SaveCall
  <2>3. CASE UNCHANGED row BY <2>2, <2>3, NoneWritten, StillGrows DEF StillSaid
  <2>4. CASE row' = [row EXCEPT ![<<u, "agent">>] = [row[<<u, "agent">>] EXCEPT !.state = "open"]]
    <3>1. Billed(u) BY <2>1 DEF AllBilled
    <3>2. Grows /\ Billed(u)' BY <2>1, <2>2, <2>4, <3>1, OpenedBilled
    <3>3. "agent" \in Sides BY DEF Sides
    <3>4. QED BY <2>1, <2>2, <2>4, <3>2, <3>3, OneBilled
  <2>5. QED BY <1>1, <2>1, <2>3, <2>4 DEF SaveCall
<1>2. ASSUME NEW t \in Tabs, HangUpUntracked(t) \/ KillDial(t) \/ \E u \in Usages : HangUp(t, u)
      PROVE  AllBilled'
  <2>1. UNCHANGED <<row, job, ledger, gap>> BY <1>2 DEF HangUpUntracked, KillDial, HangUp
  <2>2. CASE UNCHANGED usage BY <2>1, <2>2, NoneWritten, StillGrows DEF StillSaid
  <2>3. CASE ~UNCHANGED usage
    <3>1. PICK u, e : /\ usage' = [usage EXCEPT ![u] = e]
                      /\ \/ e = [usage[u] EXCEPT !.adrift = TRUE]
                         \/ e = usage[u]
                         \/ \E answered : e = Ended(usage[u], answered)
      BY <1>2, <2>3 DEF HangUpUntracked, KillDial, HangUp
    <3>2. u \in Usages => usage[u] \in Usage BY <1>0 DEF OutreachTypeOK
    <3>3. u \in Usages /\ "final" \in usage[u].news => "final" \in e.news
      BY <3>1, <3>2, EndedSays DEF Usage
    <3>4. QED BY <1>0, <2>1, <3>1, <3>3, OneSays, NoneWritten, StillGrows
  <2>4. QED BY <2>2, <2>3
<1>3. ASSUME NEW t \in Tabs, CreateCall(t) PROVE AllBilled'
  <2>1. UNCHANGED <<row, job, ledger, gap>> BY <1>3 DEF CreateCall
  <2>2. CASE UNCHANGED usage BY <2>1, <2>2, NoneWritten, StillGrows DEF StillSaid
  <2>3. CASE ~UNCHANGED usage
    <3>1. PICK u \in Unused : \E e : usage' = [usage EXCEPT ![u] = e]
      BY <1>3, <2>3 DEF CreateCall, Accept
    <3>2. u \in Usages /\ usage[u].news = {} BY <1>0 DEF Unused, UsesOK, GoodUse
    <3>3. QED BY <1>0, <2>1, <3>1, <3>2, OneSays, NoneWritten, StillGrows
  <2>4. QED BY <2>2, <2>3
<1>4. ASSUME \/ \E t \in Tabs : \/ \E c \in Contacts : StartDial(t, c)
                                \/ ClaimForDial(t) \/ FetchMore(t) \/ LeaveScreen(t)
             \/ \E c \in Contacts : Enqueue(c)
      PROVE  AllBilled'
  <2>1. UNCHANGED <<usage, row, job, ledger, gap>>
    BY <1>4 DEF StartDial, outreachVars, ClaimForDial, FetchMore, LeaveScreen, Enqueue
  <2>2. QED BY <2>1, NoneWritten, StillGrows DEF StillSaid
<1>5. QED BY <1>1, <1>2, <1>3, <1>4 DEF DialStep

LEMMA SmsBilled == ASSUME Sound, AllBilled, [Next]_vars, SmsStep PROVE AllBilled'
<1>0. OutreachTypeOK /\ UsesOK BY DEF Sound, TypeOK
<1>1. ASSUME NEW d \in Dispatchers, NEW c \in Contacts, RecordText(d, c) PROVE AllBilled'
  <2>1. UNCHANGED <<job, ledger, gap>> BY <1>1 DEF RecordText
  <2>2. PICK u \in Unrecorded(d) :
          \/ /\ row' = [row EXCEPT ![<<u, "contact">>] = [state |-> "open", timed |-> TRUE]]
             /\ UNCHANGED usage
          \/ /\ usage' = [usage EXCEPT ![u] = [usage[u] EXCEPT !.adrift = TRUE]]
             /\ UNCHANGED row
    BY <1>1 DEF RecordText, Works
  <2>3. u \in Usages /\ usage[u].kind = "text" /\ usage[u] \in Usage
    BY <1>0, <2>2, UnrecordedText DEF OutreachTypeOK
  <2>4. CASE /\ usage' = [usage EXCEPT ![u] = [usage[u] EXCEPT !.adrift = TRUE]]
             /\ UNCHANGED row
    <3>1. [usage[u] EXCEPT !.adrift = TRUE].news = usage[u].news BY <2>3 DEF Usage
    <3>2. QED BY <1>0, <2>1, <2>4, <3>1, OneSays, NoneWritten, StillGrows
  <2>5. CASE /\ row' = [row EXCEPT ![<<u, "contact">>] = [state |-> "open", timed |-> TRUE]]
             /\ UNCHANGED usage
    <3>1. row'[<<u, "contact">>].state = "open"
      BY <1>0, <2>3, <2>5, SideOf DEF OutreachTypeOK
    <3>2. Grows /\ Due' = Due BY <2>1, <2>5 DEF Grows, Due
    <3>3. Settles(<<u, "contact">>) => Settles(<<u, "contact">>)' BY <2>1 DEF Settles
    <3>4. Billed(u)' BY <2>1, <2>3, <2>5, <3>1, <3>2, <3>3 DEF AllBilled, Billed
    <3>5. "contact" \in Sides BY DEF Sides
    <3>6. QED BY <2>1, <2>3, <2>5, <3>2, <3>4, <3>5, OneBilled
  <2>6. QED BY <2>2, <2>4, <2>5
<1>2. ASSUME NEW d \in Dispatchers, NEW c \in Contacts, SendText(d, c) PROVE AllBilled'
  <2>1. UNCHANGED <<row, job, ledger, gap>> BY <1>2 DEF SendText
  <2>2. CASE UNCHANGED usage BY <2>1, <2>2, NoneWritten, StillGrows DEF StillSaid
  <2>3. CASE ~UNCHANGED usage
    <3>1. PICK u \in Unused : \E e : usage' = [usage EXCEPT ![u] = e]
      BY <1>2, <2>3 DEF SendText, Accept
    <3>2. u \in Usages /\ usage[u].news = {} BY <1>0 DEF Unused, UsesOK, GoodUse
    <3>3. QED BY <1>0, <2>1, <3>1, <3>2, OneSays, NoneWritten, StillGrows
  <2>4. QED BY <2>2, <2>3
<1>3. ASSUME NEW d \in Dispatchers, KillRun(d) PROVE AllBilled'
  <2>1. UNCHANGED <<row, job, ledger, gap>> BY <1>3 DEF KillRun
  <2>2. \A u \in Usages : usage'[u] = usage[u] \/ usage'[u] = [usage[u] EXCEPT !.adrift = TRUE]
    BY <1>3 DEF KillRun
  <2>3. \A u \in Usages : StillSaid(u) BY <1>0, <2>2 DEF StillSaid, OutreachTypeOK, Usage
  <2>4. QED BY <2>1, <2>3, NoneWritten, StillGrows
<1>4. ASSUME \/ Launch \/ Pause
             \/ \E d \in Dispatchers : StartJob(d) \/ StartRequest(d) \/ FinishBatch(d) \/ CompleteJob(d)
             \/ \E c \in Contacts : EnqueueText(c) \/ StopText(c)
             \/ \E d \in Dispatchers, c \in Contacts : DropOptedOut(d, c) \/ CheckMember(d, c)
      PROVE  AllBilled'
  <2>1. UNCHANGED <<usage, row, job, ledger, gap>>
    BY <1>4 DEF Launch, Pause, StartJob, StartRequest, FinishBatch, CompleteJob, outreachVars,
       EnqueueText, Enqueue, StopText, Stop, DropOptedOut, CheckMember
  <2>2. QED BY <2>1, NoneWritten, StillGrows DEF StillSaid
<1>5. QED BY <1>1, <1>2, <1>3, <1>4 DEF SmsStep, MemberStep

LEMMA BilledStep == Sound /\ AllBilled /\ [Next]_vars => AllBilled'
<1> SUFFICES ASSUME Sound, AllBilled, [Next]_vars PROVE AllBilled'
  OBVIOUS
<1>1. CASE Apart
  <2>1. UNCHANGED <<usage, row, job, ledger, gap>> BY <1>1 DEF Apart
  <2>2. QED BY <2>1, NoneWritten, StillGrows DEF StillSaid
<1>2. QED BY <1>1, NextCases, BillingBilled, DialBilled, SmsBilled

LEMMA BilledInit == Init => AllBilled
<1> SUFFICES ASSUME Init, NEW u \in Usages PROVE Billed(u)
  BY DEF AllBilled
<1>1. row[<<u, "contact">>].state = "none" /\ job[u]["final"] = "none" /\ usage[u].kind = "none"
  BY SideOf DEF Init, OutreachInit, NoRow, NotPlaced, News
<1>2. QED BY <1>1 DEF Billed

\* However many calls, texts, callbacks, jobs, polls and sweeps there are, and whatever
\* of them is lost, repeated or cut short, a use whose row is closed has something left
\* that is going to bill it, has been billed, or fell into a gap that is named.
THEOREM NothingFree == Spec => []NoFreeUsage
<1>1. Sound /\ AllBilled => NoFreeUsage
  <2> SUFFICES ASSUME Sound, AllBilled, NEW k \in Legs, k \in Due,
                      row[k].state \notin {"none", "open"}, ~Pending(k[1])
               PROVE  Settles(k)
    BY DEF NoFreeUsage, Settles
  <2> DEFINE u == k[1]
  <2>1. /\ u \in Usages /\ k[2] \in Sides /\ k = <<u, k[2]>>
        /\ Billed(u) /\ GoodUse(usage[u]) /\ usage[u] \in Usage /\ job[u] \in Job /\ row[k] \in Row
    BY DEF Legs, AllBilled, Sound, UsesOK, TypeOK, OutreachTypeOK
  <2>2. usage[u].news = {} /\ job[u]["final"] # "queued" BY DEF Pending, News
  <2>3. usage[u].stage = "over" /\ k[2] \in usage[u].used BY DEF Due
  <2>4. CASE k[2] = "agent"
    <3>1. usage[u].kind = "call" BY <2>1, <2>3, <2>4 DEF GoodUse, Usage
    <3>2. QED BY <2>1, <2>4, <3>1 DEF Billed, CallBilled
  <2>5. CASE k[2] = "contact"
    <3>1. row[k].state \in {"sent", "stray", "closed"} BY <2>1 DEF Row
    <3>2. job[u]["final"] \in {"none", "done", "dead"} BY <2>1, <2>2 DEF Job, News
    <3>3. Silent(u, usage[u].news) \/ job[u]["final"] \in {"done", "dead"} BY <2>2, <3>2 DEF Silent
    <3>4. QED BY <2>1, <2>5, <3>1, <3>3 DEF Billed
  <2>6. QED BY <2>1, <2>4, <2>5 DEF Sides
<1>2. QED BY <1>1, InitSound, SoundStep, BilledInit, BilledStep, PTL DEF Spec

-----------------------------------------------------------------------------
(* Rented numbers, while one sweep runs at a time.                         *)

LEMMA RentalCases ==
  ASSUME [Next]_vars
  PROVE  RentalStep \/ UNCHANGED rentalVars
BY DEF Next, vars, BillingStep, rentalVars

Lawful == Sound /\ RentalLaw

LEMMA InitLawful == Init => Lawful
BY InitSound, LawInit DEF Init, Lawful

LEMMA LawfulStep == OneSweep /\ Lawful /\ [Next]_vars => Lawful'
<1> SUFFICES ASSUME OneSweep, Lawful, [Next]_vars PROVE RentalLaw'
  BY SoundStep DEF Lawful
<1>1. RentalSound /\ RentalLaw BY DEF Lawful, Sound
<1>2. QED BY <1>1, RentalCases, LawStep, LawStays

LEMMA AlwaysLawful == OneSweep => (Spec => []Lawful)
<1> SUFFICES ASSUME OneSweep PROVE Spec => []Lawful
  OBVIOUS
<1>1. Lawful /\ [Next]_vars => Lawful' BY LawfulStep
<1>2. QED BY <1>1, InitLawful, PTL DEF Spec

\* Whatever fails on other numbers, and whatever is bought, removed or spent meanwhile,
\* a number that owes nothing is left suspended only by a sweep that failed on it.
THEOREM PaidIsRestored == OneSweep => (Spec => []RestoredWhenPaid)
<1> SUFFICES ASSUME OneSweep PROVE Spec => []RestoredWhenPaid
  OBVIOUS
<1>1. Lawful => RestoredWhenPaid BY LawRestores DEF Lawful
<1>2. QED BY <1>1, AlwaysLawful, PTL

\* A sweep gives a number back only while it owes three months and is suspended, for any
\* number of months, numbers and payments: its subtraction counts what the ledger says,
\* and what it read before the charges is still so.
THEOREM ReleasesEarned == OneSweep => (Spec => ReleaseEarned)
<1> SUFFICES ASSUME OneSweep PROVE Spec => ReleaseEarned
  OBVIOUS
<1>1. Lawful /\ [Next]_vars
        => [\A n \in Numbers \ amiss :
              GivenBack(n) => Cardinality(Owed(n, number[n].age)) >= 3 /\ number[n].suspended]_rentalVars
  <2> SUFFICES ASSUME Lawful, [Next]_vars, ~UNCHANGED rentalVars,
                      NEW n \in Numbers \ amiss, GivenBack(n)
               PROVE  Cardinality(Owed(n, number[n].age)) >= 3 /\ number[n].suspended
    OBVIOUS
  <2>1. RentalSound /\ RentalLaw /\ RentalStep BY RentalCases DEF Lawful, Sound
  <2>2. QED BY <2>1, LawReleases
<1>2. QED BY <1>1, AlwaysLawful, PTL DEF Spec, ReleaseEarned

\* A sweep is done with a number two months behind only when it is suspended or gone.
THEOREM LateIsSuspended == OneSweep => (Spec => BehindIsSuspended)
<1> SUFFICES ASSUME OneSweep PROVE Spec => BehindIsSuspended
  OBVIOUS
<1>1. Lawful /\ [Next]_vars
        => [\A s \in Sweeps : LET n == sweep[s].at IN
              DoneWith(s) /\ n \notin amiss' /\ number[n].listed
                /\ Cardinality(Owed(n, Read(s).age)) >= 2
              => number'[n].suspended \/ ~number'[n].listed]_rentalVars
  <2> SUFFICES ASSUME Lawful, [Next]_vars, ~UNCHANGED rentalVars, NEW s \in Sweeps,
                      DoneWith(s), sweep[s].at \notin amiss', number[sweep[s].at].listed,
                      Cardinality(Owed(sweep[s].at, Read(s).age)) >= 2
               PROVE  number'[sweep[s].at].suspended \/ ~number'[sweep[s].at].listed
    OBVIOUS
  <2>1. RentalSound /\ RentalLaw /\ RentalStep BY RentalCases DEF Lawful, Sound
  <2>2. QED BY <2>1, LawSuspends
<1>2. QED BY <1>1, AlwaysLawful, PTL DEF Spec, BehindIsSuspended
=============================================================================
