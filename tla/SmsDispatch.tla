---------------------------- MODULE SmsDispatch ----------------------------
(***************************************************************************)
(* A message campaign: launch and pause, the chain of campaign_dispatch    *)
(* jobs that send its texts batch by batch, and requests to /api/sms that  *)
(* run the same batches beside them.  run[d] is one such job or request.   *)
(* The members of a batch are handled at once: at[c] is where contact c is *)
(* in it.  A live job is one that is queued or running; whoever enqueues   *)
(* another is deduplicated against it.                                     *)
(***************************************************************************)
EXTENDS Outreach

CONSTANTS
  BatchSize,    \* DISPATCH_BATCH_SIZE
  MaxTries      \* of a job

ASSUME DispatchConstantsOK == BatchSize \in Nat \ {0} /\ MaxTries \in Nat \ {0}

VARIABLES
  status,   \* campaign.status
  run,
  halted,   \* history: a job ended since the last one was enqueued, see DispatchAlive
  missed    \* history: contacts put on the queue that no job's snapshot has seen

smsVars == <<status, run, halted, missed>>

Step == {"out", "deferred", "drop", "check", "send", "record", "gone", "sent", "failed", "error"}
Settled == {"out", "deferred", "gone", "sent", "failed", "error"}

\* ending: the handler has returned and the job is not marked completed yet.
Run == [kind : {"none", "job", "request"}, phase : {"none", "waiting", "sending", "ending"},
        tries : 0..MaxTries, at : [Contacts -> Step],
        more : BOOLEAN,   \* the batch is shorter than the queue
        stopped : SUBSET Contacts,   \* history: who opted out since the queue was read
        texted : SUBSET Contacts]    \* history: for whom others recorded a text since
Nowhere == [c \in Contacts |-> "out"]
NoRun == [kind |-> "none", phase |-> "none", tries |-> 0, at |-> Nowhere, more |-> FALSE,
          stopped |-> {}, texted |-> {}]
NewJob == [NoRun EXCEPT !.kind = "job", !.phase = "waiting"]

SmsTypeOK ==
  /\ status \in {"paused", "scheduled", "running", "complete"}
  /\ run \in [Dispatchers -> Run]
  /\ halted \in BOOLEAN
  /\ missed \subseteq Contacts

SmsInit ==
  /\ status = "paused"
  /\ run = [d \in Dispatchers |-> NoRun]
  /\ halted = FALSE
  /\ missed = {}

Jobs == {d \in Dispatchers : run[d].kind = "job"}
\* Texts of d that were accepted and are still to be recorded.
Unrecorded(d) ==
  {u \in Usages : /\ usage[u].kind = "text" /\ usage[u].by = d /\ ~usage[u].adrift
                  /\ row[<<u, "contact">>].state = "none"}
Queued == {c \in Contacts : queue[c].state = "queued"}
Put(d, r) == run' = [run EXCEPT ![d] = r]

-----------------------------------------------------------------------------
(* Launch and pause.                                                       *)

\* launchCampaign: the status, then a job unless one is live.
Launch ==
  /\ Queued # {}
  /\ status' \in {"running", "scheduled"}
  /\ \/ /\ Jobs = {}
        /\ \E d \in Dispatchers : run[d] = NoRun /\ Put(d, NewJob)
        /\ halted' = FALSE
     \/ /\ Jobs # {}
        /\ halted' = (halted \/ \A d \in Jobs : run[d].phase = "ending")
        /\ UNCHANGED run
     \/ /\ "kill" \in Faults
        /\ halted' = TRUE
        /\ UNCHANGED run
  /\ UNCHANGED <<outreachVars, missed>>

Pause ==
  /\ status \in {"running", "scheduled"}
  /\ status' = "paused"
  /\ UNCHANGED <<outreachVars, run, halted, missed>>

-----------------------------------------------------------------------------
(* campaignDispatchHandler, around the batch.                              *)

\* (mutant) One retry more than max_attempts.
Failed_Extra(r) == IF r.tries <= MaxTries THEN [NewJob EXCEPT !.tries = r.tries] ELSE NoRun

\* The job is retried, or dead-lettered after its last attempt.
Failed(r) == IF r.tries < MaxTries THEN [NewJob EXCEPT !.tries = r.tries] ELSE NoRun
Fail(d) ==
  /\ Put(d, Failed(run[d]))
  /\ halted' = (halted \/ run[d].tries = MaxTries)

\* The handler returns: a request is over, a job is still to be marked.
Returned(r) ==
  IF r.kind = "request" THEN NoRun
  ELSE [r EXCEPT !.phase = "ending", !.at = Nowhere, !.more = FALSE,
                 !.stopped = {}, !.texted = {}]

\* enqueueDispatchSuccessor: no second live job beside d's own.
EnqueueSuccessor(d, r) ==
  IF Jobs = {d}
  THEN /\ \E e \in Dispatchers \ {d} :
            run[e] = NoRun /\ run' = [run EXCEPT ![d] = Returned(r), ![e] = NewJob]
       /\ halted' = FALSE
       /\ UNCHANGED missed
  ELSE /\ Put(d, Returned(r))
       /\ missed' = missed \cup Queued
       /\ UNCHANGED halted

\* (mutant) The batch trusts that no opted-out contact is on the queue.
Admitted_All(S, quiet) ==
  [c \in Contacts |-> IF c \notin S THEN "out" ELSE IF c \in quiet THEN "deferred" ELSE "check"]

\* Where the members of a batch start: by their quiet hours, then by the opt-out
\* flag that was read with the queue.
Admitted(S, quiet) ==
  [c \in Contacts |-> IF c \notin S THEN "out"
                      ELSE IF c \in quiet THEN "deferred"
                      ELSE IF c \in optOut THEN "drop"
                      ELSE "check"]

\* The batch: some BatchSize queued rows for a job, all of them for a request.
Snapshot(d, r) ==
  \E S \in SUBSET Queued, quiet \in SUBSET Contacts :
    /\ quiet \subseteq S /\ ("night" \in Faults \/ quiet = {})
    /\ S # Queued => r.kind = "job" /\ Cardinality(S) = BatchSize
    /\ r.kind = "job" => Cardinality(S) <= BatchSize
    /\ Put(d, [r EXCEPT !.phase = "sending", !.at = Admitted(S, quiet), !.more = S # Queued])

\* A worker claims the job: the campaign's status, the credit gate, the send window,
\* the snapshot.
StartJob(d) ==
  /\ run[d].kind = "job" /\ run[d].phase = "waiting"
  /\ LET r == [run[d] EXCEPT !.tries = @ + 1]
         Halt == /\ Put(d, Returned(r))
                 /\ halted' = TRUE
                 /\ UNCHANGED missed
     IN \/ /\ status \notin {"running", "scheduled"}
           /\ Halt
           /\ UNCHANGED status
        \/ /\ status \in {"running", "scheduled"}
           /\ status' = "running"
           /\ \/ /\ ~CreditsOK \/ "config" \in Faults
                 /\ Halt
              \/ CreditsOK /\ "night" \in Faults /\ EnqueueSuccessor(d, r)
              \/ CreditsOK /\ Snapshot(d, r) /\ missed' = {} /\ UNCHANGED halted
  /\ UNCHANGED outreachVars

\* POST /api/sms: the same batch, whatever the campaign's status.
StartRequest(d) ==
  /\ run[d] = NoRun /\ CreditsOK
  /\ Snapshot(d, [NoRun EXCEPT !.kind = "request"])
  /\ UNCHANGED <<outreachVars, status, halted, missed>>

\* (mutant) A contact in its quiet hours is not work that remains.
Remaining_Loud(r) == r.more \/ \E c \in Contacts : r.at[c] = "failed"

\* queuedRemaining > 0
Remaining(r) == r.more \/ \E c \in Contacts : r.at[c] \in {"deferred", "failed"}

\* Every member was attempted and none was sent or dequeued, or one of them threw.
Throws(r) ==
  \/ \E c \in Contacts : r.at[c] = "error"
  \/ /\ \E c \in Contacts : r.at[c] = "failed"
     /\ \A c \in Contacts : r.at[c] \notin {"sent", "gone"}

\* Promise.all rejects at the first error: the job has failed, and the members that
\* are not settled go on as a request's would.
RejectBatch(d) ==
  /\ run[d].kind = "job"
  /\ \E c \in Contacts : run[d].at[c] = "error"
  /\ \E e \in Dispatchers :
       /\ run[e] = NoRun
       /\ run' = [run EXCEPT ![d].kind = "request", ![e] = Failed(run[d])]
  /\ halted' = (halted \/ run[d].tries = MaxTries)
  /\ UNCHANGED <<status, missed>>

\* The batch is done: throw, successor, or try_complete_campaign_if_drained.
EndBatch(d) ==
  IF run[d].kind = "request"
  THEN Put(d, NoRun) /\ UNCHANGED <<status, halted, missed>>
  ELSE IF Throws(run[d])
  THEN Fail(d) /\ UNCHANGED <<status, missed>>
  ELSE IF Remaining(run[d])
  THEN EnqueueSuccessor(d, run[d]) /\ UNCHANGED status
  ELSE /\ status' = IF status = "running" /\ ~PendingWork(queue) THEN "complete" ELSE status
       /\ Put(d, Returned(run[d]))
       /\ UNCHANGED <<halted, missed>>

FinishBatch(d) ==
  /\ run[d].phase = "sending"
  /\ IF \A c \in Contacts : run[d].at[c] \in Settled THEN EndBatch(d) ELSE RejectBatch(d)
  /\ UNCHANGED outreachVars

\* The worker marks the job completed.
CompleteJob(d) ==
  /\ run[d].phase = "ending"
  /\ Put(d, NoRun)
  /\ UNCHANGED <<outreachVars, status, halted, missed>>

\* The process is stopped: the job is claimed again when its lease is stale.
KillRun(d) ==
  /\ "kill" \in Faults /\ run[d].phase \in {"sending", "ending"}
  /\ IF run[d].kind = "job" THEN Fail(d) ELSE Put(d, NoRun) /\ UNCHANGED halted
  /\ usage' = [u \in Usages |-> IF u \in Unrecorded(d) THEN [usage[u] EXCEPT !.adrift = TRUE]
                                ELSE usage[u]]
  /\ UNCHANGED <<queue, optOut, row, job, ledger, topups, credits, gap, status, missed>>

-----------------------------------------------------------------------------
(* The members of a batch.                                                 *)

At(d, c, step) == run[d].phase = "sending" /\ run[d].at[c] = step
Move(d, c, step) == run' = [run EXCEPT ![d].at[c] = step]

\* A dequeue by id, which has no guard; or its statement fails and the batch throws.
Drop(d, c) ==
  \/ queue' = [queue EXCEPT ![c] = Dequeued(@)] /\ Move(d, c, "gone")
  \/ "dberror" \in Faults /\ UNCHANGED queue /\ Move(d, c, "error")

DropOptedOut(d, c) ==
  /\ At(d, c, "drop")
  /\ Drop(d, c)
  /\ UNCHANGED <<optOut, usage, row, job, ledger, topups, credits, gap, status, halted, missed>>

\* (mutant) Only texts that were delivered count.
HasDuplicate_Delivered(c) ==
  \E u \in Usages : usage[u].kind = "text" /\ usage[u].contact = c
                    /\ row[<<u, "contact">>].state = "closed"

\* hasDuplicateCampaignSms: any message row of the campaign to this number.
HasDuplicate(c) ==
  \E u \in Usages : usage[u].kind = "text" /\ usage[u].contact = c
                    /\ row[<<u, "contact">>].state # "none"

\* Landlines and contacts who were texted before are dequeued.
CheckMember(d, c) ==
  /\ At(d, c, "check")
  /\ \/ (HasDuplicate(c) \/ "landline" \in Faults) /\ Drop(d, c)
     \/ /\ ~HasDuplicate(c)
        /\ Move(d, c, "send")
        /\ UNCHANGED queue
  /\ UNCHANGED <<optOut, usage, row, job, ledger, topups, credits, gap, status, halted, missed>>

Texted(d, c) ==
  [NotPlaced EXCEPT !.kind = "text", !.contact = c, !.by = d, !.stage = "accepted",
                    !.used = {"contact"}]

\* messages.create beside createOutreachAttempt: if either fails the member failed,
\* and a text that was accepted is not recorded.  If an answer of Twilio is lost,
\* withTwilioRetry asks again, or gives up.
SendText(d, c) ==
  /\ At(d, c, "send")
  /\ \/ \E u \in Unused :
          \/ Accept(u, Texted(d, c)) /\ Move(d, c, "record")
          \/ /\ {"dberror", "ambiguous"} \cap Faults # {}
             /\ Accept(u, [Texted(d, c) EXCEPT !.adrift = TRUE])
             /\ Move(d, c, "failed") \/ ("ambiguous" \in Faults /\ UNCHANGED run)
     \/ "reject" \in Faults /\ Move(d, c, "failed") /\ UNCHANGED usage
  /\ UNCHANGED <<queue, optOut, row, job, ledger, topups, credits, gap, status, halted, missed>>

\* Whether a statement of the database works.
Works == IF "dberror" \in Faults THEN BOOLEAN ELSE {TRUE}

\* persistMessageRecord beside the dequeue: an error of the first is ignored, one
\* of the second fails the member.
RecordText(d, c) ==
  /\ At(d, c, "record")
  /\ \E u \in Unrecorded(d), saved \in Works, left \in Works :
       /\ usage[u].contact = c
       /\ row' = IF saved THEN [row EXCEPT ![<<u, "contact">>] = [state |-> "open", timed |-> TRUE]]
                 ELSE row
       /\ usage' = IF saved THEN usage ELSE [usage EXCEPT ![u].adrift = TRUE]
       /\ queue' = IF left THEN [queue EXCEPT ![c] = Dequeued(@)] ELSE queue
       /\ run' = [e \in Dispatchers |->
                    IF e = d THEN [run[d] EXCEPT !.at[c] = IF left THEN "sent" ELSE "failed"]
                    ELSE IF saved /\ run[e].phase = "sending"
                    THEN [run[e] EXCEPT !.texted = @ \cup {c}]
                    ELSE run[e]]
  /\ UNCHANGED <<optOut, job, ledger, topups, credits, gap, status, halted, missed>>

MemberStep(d, c) == DropOptedOut(d, c) \/ CheckMember(d, c) \/ SendText(d, c) \/ RecordText(d, c)

\* A STOP, while batches are under way.
StopText(c) ==
  /\ Stop(c)
  /\ run' = [d \in Dispatchers |->
               IF c \notin optOut /\ run[d].phase = "sending"
               THEN [run[d] EXCEPT !.stopped = @ \cup {c}] ELSE run[d]]
  /\ UNCHANGED <<status, halted, missed>>

\* Contacts join or rejoin the queue while jobs run.
EnqueueText(c) ==
  /\ Enqueue(c)
  /\ missed' = missed \cup {c}
  /\ UNCHANGED <<status, run, halted>>

SmsStep ==
  \/ Launch \/ Pause
  \/ \E d \in Dispatchers : \/ StartJob(d) \/ StartRequest(d) \/ FinishBatch(d)
                            \/ CompleteJob(d) \/ KillRun(d)
                            \/ \E c \in Contacts : MemberStep(d, c)
  \/ \E c \in Contacts : EnqueueText(c) \/ StopText(c)

-----------------------------------------------------------------------------
(* Properties.                                                             *)

\* A second text of the campaign is recorded for a contact only by a batch that had
\* read the queue before the first was: the duplicate gate holds against every retry,
\* successor and request that reads it later, though the contact is put back on it
\* (hasDuplicateCampaignSms).
RecordedOnce ==
  [][\A u \in Usages :
       LET e == usage[u] IN
       /\ e.kind = "text"
       /\ \E v \in Usages : /\ usage[v].kind = "text" /\ usage[v].contact = e.contact
                           /\ row[<<v, "contact">>].state # "none"
       /\ row[<<u, "contact">>].state = "none" /\ row'[<<u, "contact">>].state # "none"
       => e.contact \in run[e.by].texted]_row

\* A contact who opted out is texted only by a batch that had read the queue before the
\* STOP: no retry, successor or request that reads it later does, though an editor puts
\* the contact back on it (the opt-out test of dispatchCampaignSmsBatch).
StopIsHeard ==
  [][\A u \in Usages :
       LET e == usage'[u] IN
       /\ usage[u].kind = "none" /\ e.kind = "text" /\ e.contact \in optOut
       => e.contact \in run[e.by].stopped]_usage

\* A running campaign that still has contacts queued has a live dispatch job, or its
\* last one ended for a reason there is: blocked, dead-lettered, skipped while the
\* campaign was paused, the launch found a job that was ending or died itself, or
\* the contacts came too late for the last snapshot.  It never just stops
\* (campaignDispatchHandler's successor).
DispatchAlive ==
  status = "running" /\ Jobs = {} /\ Queued # {}
    => halted \/ Queued \subseteq missed
=============================================================================
