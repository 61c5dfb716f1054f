------------------------------ MODULE JobQueue ------------------------------
(***************************************************************************)
(* The job table and the processes that share it: polling workers, a drain *)
(* worker, callers that enqueue, administrators that requeue dead letters, *)
(* and the retention job.  A row of the table is claimed under a lease     *)
(* (claimed_until), executed at least once, and ends completed or in the   *)
(* dead-letter state.  Wall-clock time is abstracted to what the SQL       *)
(* compares it with: a lease is live or past, a retry_at is due or not.    *)
(***************************************************************************)
EXTENDS Naturals, FiniteSets

CONSTANTS
  Workers,      \* worker processes (worker/index.ts)
  Drainers,     \* those started with "drain": one job, no heartbeat
  Callers,      \* webhook requests that enqueue under an idempotency key
  Admins,       \* operators on the dead-letter page
  JobIds,       \* rows the table can hold at one time: the bound of a model
  Keys,         \* (type, idempotency_key) pairs
  Lives,        \* (type, workspace) pairs enqueued with live dedupe
  Chains,       \* self-scheduling types, enqueued with live dedupe as well
  Plains,       \* types enqueued with dedupe "none"
  MaxAttempts,  \* job.max_attempts
  Killers,      \* scopes whose handlers may take their process down
  Faults,       \* the faults the environment may inject, see FaultKinds
  NoJob, NoWorker, NoKey, NoScope

\* redeploy: the platform stops or kills a process at any point
\* stall:    a process is frozen, or its heartbeat writes fail, for a whole TTL
\* dberror:  a statement raises, having taken effect or not
FaultKinds == {"redeploy", "stall", "dberror"}

\* What a row's dedupe check compares: its key, its (type, workspace) or nothing.
Scopes == Keys \cup Lives \cup Chains \cup Plains

ASSUME ConstantsOK ==
  /\ Drainers \subseteq Workers
  /\ MaxAttempts \in Nat \ {0}
  /\ Faults \subseteq FaultKinds /\ Killers \subseteq Scopes
  /\ NoJob \notin JobIds /\ NoWorker \notin Workers /\ NoKey \notin Keys
  /\ NoScope \notin Scopes
  /\ Keys \cap (Lives \cup Chains \cup Plains) = {}
  /\ Lives \cap Chains = {} /\ Plains \cap (Lives \cup Chains) = {}

VARIABLES
  job,      \* the table: one row per id, "absent" when there is none
  older,    \* pairs of ids, the first row created before the second (created_at)
  worker,   \* per process: program counter, claimed row, claimed attempt_count
  caller,   \* per caller: the key whose INSERT met a conflict, NoKey if none
  admin,    \* per operator: the dead letter whose SELECT succeeded, else NoJob
  tries     \* history: executions of a row since it was enqueued or revived

vars == <<job, older, worker, caller, admin, tries>>

Status == {"absent", "queued", "running", "completed", "dead_letter"}
Row == [status : Status, scope : Scopes \cup {NoScope}, attempts : Nat, due : BOOLEAN,
        lease : {"none", "live", "past"}, owner : Workers \cup {NoWorker}]
PC == {"down", "seed", "boot", "bootBury", "poll", "bury", "claim",
       "run", "resched", "complete", "fail"}
Worker == [pc : PC, job : JobIds \cup {NoJob}, attempt : Nat,
           threw : BOOLEAN, todo : SUBSET Chains]

TypeOK ==
  /\ job \in [JobIds -> Row]
  /\ older \subseteq JobIds \X JobIds
  /\ worker \in [Workers -> Worker]
  /\ caller \in [Callers -> Keys \cup {NoKey}]
  /\ admin \in [Admins -> JobIds \cup {NoJob}]
  /\ tries \in [JobIds -> Nat]

NoRow == [status |-> "absent", scope |-> NoScope, attempts |-> 0, due |-> FALSE,
          lease |-> "none", owner |-> NoWorker]
Down == [pc |-> "down", job |-> NoJob, attempt |-> 0, threw |-> FALSE, todo |-> {}]

Init ==
  /\ job = [j \in JobIds |-> NoRow]
  /\ older = {}
  /\ worker = [w \in Workers |-> Down]
  /\ caller = [c \in Callers |-> NoKey]
  /\ admin = [a \in Admins |-> NoJob]
  /\ tries = [j \in JobIds |-> 0]

-----------------------------------------------------------------------------
(* The statements of the worker and of the enqueuers, as functions of the  *)
(* table.                                                                  *)

Live(j) == job[j].status \in {"queued", "running"}

\* (mutant) The coordinator finds itself and never schedules its successor.
LiveRows_NoExclude(s, exclude) == {j \in JobIds : Live(j) /\ job[j].scope = s}

\* Rows a live-dedupe check finds for a scope: queued or running, any id but
\* the coordinator's own (excludeJobId).
LiveRows(s, exclude) == {j \in JobIds \ {exclude} : Live(j) /\ job[j].scope = s}

\* INSERT of a queued row.  runAt in the future makes it not yet due.
Insert(s, due) ==
  \E j \in JobIds :
    /\ job[j].status = "absent"
    /\ job' = [job EXCEPT ![j] = [NoRow EXCEPT !.status = "queued", !.scope = s, !.due = due]]
    /\ older' = older \cup ({i \in JobIds : job[i].status # "absent"} \X {j})
    /\ tries' = [tries EXCEPT ![j] = 0]

\* (mutant) The dedupe check looks at queued rows only.
EnqueueLive_QueuedOnly(s, exclude, due) ==
  IF \E j \in LiveRows(s, exclude) : job[j].status = "queued"
  THEN UNCHANGED <<job, older, tries>> ELSE Insert(s, due)

\* enqueueWithLiveDedupe: the advisory lock makes check and insert one step.
EnqueueLive(s, exclude, due) ==
  IF LiveRows(s, exclude) # {} THEN UNCHANGED <<job, older, tries>> ELSE Insert(s, due)

\* Both ways a dead letter becomes queued again write the same columns.
Requeued(row, due) ==
  [row EXCEPT !.status = "queued", !.attempts = 0, !.due = due,
              !.lease = "none", !.owner = NoWorker]

\* (mutants) The reset forgets the lease; the reset charges an attempt of its own.
ResetStale_NoTtl(row) ==
  IF row.status = "running" THEN [row EXCEPT !.status = "queued", !.owner = NoWorker] ELSE row
ResetStale_Charges(row) ==
  IF row.status = "running" /\ row.lease = "past"
  THEN [row EXCEPT !.status = "queued", !.lease = "none", !.attempts = @ + 1, !.owner = NoWorker]
  ELSE row

\* UPDATE ... WHERE status = 'running' AND claimed_until < now()
ResetStale(row) ==
  IF row.status = "running" /\ row.lease = "past"
  THEN [row EXCEPT !.status = "queued", !.lease = "none", !.owner = NoWorker]
  ELSE row

\* (mutant) Nothing buries a row whose attempts ran out without a throw.
BuryExhausted_Never(row) == row

\* UPDATE ... WHERE status = 'queued' AND attempt_count >= max_attempts
BuryExhausted(row) ==
  IF row.status = "queued" /\ row.attempts >= MaxAttempts
  THEN [row EXCEPT !.status = "dead_letter"]
  ELSE row

\* (mutant) The claim query does not bound attempt_count.
Claimable_Unbounded(j) == job[j].status = "queued" /\ job[j].due

Claimable(j) ==
  /\ job[j].status = "queued"
  /\ job[j].due
  /\ job[j].attempts < MaxAttempts

Claimed(row, w) ==
  [row EXCEPT !.status = "running", !.lease = "live", !.owner = w, !.attempts = @ + 1]

\* completeJob: WHERE id only; the claim columns stay as they are.
Completed(row) == [row EXCEPT !.status = "completed"]

\* (mutant) The terminal branch writes a status the table does not know.
Failed_Unknown(row, attempt) ==
  IF attempt < MaxAttempts
  THEN [row EXCEPT !.status = "queued", !.due = FALSE]
  ELSE [row EXCEPT !.status = "failed"]

\* failJob decides on the attempt_count its worker claimed with.
Failed(row, attempt) ==
  IF attempt < MaxAttempts
  THEN [row EXCEPT !.status = "queued", !.due = FALSE]
  ELSE [row EXCEPT !.status = "dead_letter"]


-----------------------------------------------------------------------------
(* One worker process.                                                     *)

Executing(w) == worker[w].pc \in {"run", "resched", "complete", "fail"}
Heartbeating(w, j) == Executing(w) /\ worker[w].job = j /\ w \notin Drainers

\* Where a process goes after a job, an empty claim or a failed statement: a
\* drain worker exits, a polling one starts its next iteration.
Idle(w) == IF w \in Drainers THEN Down ELSE [Down EXCEPT !.pc = "poll"]

Goto(w, pc) == worker' = [worker EXCEPT ![w].pc = pc]
Settle(w) == worker' = [worker EXCEPT ![w] = Idle(w)]
Others == <<caller, admin>>

Start(w) ==
  /\ worker[w].pc = "down"
  /\ worker' = [worker EXCEPT ![w] = [Down EXCEPT !.pc = "seed", !.todo = Chains]]
  /\ UNCHANGED <<job, older, caller, admin, tries>>

\* ensureSelfSchedulingJobsSeeded: a failed seed is logged and skipped.
Seed(w, s) ==
  /\ worker[w].pc = "seed" /\ s \in worker[w].todo
  /\ \/ EnqueueLive(s, NoJob, TRUE)
     \/ "dberror" \in Faults /\ UNCHANGED <<job, older, tries>>
  /\ worker' = [worker EXCEPT ![w].todo = @ \ {s}]
  /\ UNCHANGED Others

Seeded(w) ==
  /\ worker[w].pc = "seed" /\ worker[w].todo = {}
  /\ Goto(w, "boot")
  /\ UNCHANGED <<job, older, caller, admin, tries>>

Reset(w) ==
  /\ worker[w].pc \in {"boot", "poll"}
  /\ job' = [j \in JobIds |-> ResetStale(job[j])]
  /\ Goto(w, IF worker[w].pc = "boot" THEN "bootBury" ELSE "bury")
  /\ UNCHANGED <<older, caller, admin, tries>>

Bury(w) ==
  /\ worker[w].pc \in {"bootBury", "bury"}
  /\ job' = [j \in JobIds |-> BuryExhausted(job[j])]
  /\ Goto(w, IF worker[w].pc = "bootBury" /\ w \notin Drainers THEN "poll" ELSE "claim")
  /\ UNCHANGED <<older, caller, admin, tries>>

\* The oldest claimable row; the snapshot the worker keeps has the new count.
Claim(w) ==
  /\ worker[w].pc = "claim"
  /\ \E j \in JobIds :
       /\ Claimable(j)
       /\ \A i \in JobIds : Claimable(i) => <<i, j>> \notin older
       /\ job' = [job EXCEPT ![j] = Claimed(job[j], w)]
       /\ worker' = [worker EXCEPT ![w].pc = "run", ![w].job = j,
                                   ![w].attempt = job[j].attempts + 1]
       /\ tries' = [tries EXCEPT ![j] = @ + 1]
  /\ UNCHANGED <<older, caller, admin>>

NothingToClaim(w) ==
  /\ worker[w].pc = "claim"
  /\ \A j \in JobIds : ~Claimable(j)
  /\ Settle(w)
  /\ UNCHANGED <<job, older, caller, admin, tries>>

\* A statement of an iteration raises before a job is in hand.  A claim whose
\* commit was not acknowledged leaves a running row nobody executes.
PollError(w) ==
  /\ "dberror" \in Faults
  /\ worker[w].pc \in {"boot", "bootBury", "poll", "bury", "claim"}
  /\ \/ UNCHANGED job
     \/ /\ worker[w].pc = "claim"
        /\ \E j \in JobIds : Claimable(j) /\ job' = [job EXCEPT ![j] = Claimed(job[j], w)]
  /\ Settle(w)
  /\ UNCHANGED <<older, caller, admin, tries>>

\* Where the program goes when the handler is done with its own work.
Outcome(threw) == IF threw THEN "fail" ELSE "complete"

\* (mutant) The successor is enqueued after the work instead of in a finally.
Run_NoFinally(w, threw) ==
  /\ worker[w].pc = "run"
  /\ worker' = [worker EXCEPT ![w].threw = threw,
        ![w].pc = IF ~threw /\ job[worker[w].job].scope \in Chains
                  THEN "resched" ELSE Outcome(threw)]
  /\ UNCHANGED <<job, older, caller, admin, tries>>

\* The handler returns or throws.  A self-scheduling one then runs the finally
\* block of withReschedule.
Run(w, threw) ==
  /\ worker[w].pc = "run"
  /\ worker' = [worker EXCEPT ![w].threw = threw,
        ![w].pc = IF job[worker[w].job].scope \in Chains THEN "resched" ELSE Outcome(threw)]
  /\ UNCHANGED <<job, older, caller, admin, tries>>

\* rescheduleJob: the successor is due later; an error is logged and dropped.
Resched(w) ==
  /\ worker[w].pc = "resched"
  /\ \/ EnqueueLive(job[worker[w].job].scope, worker[w].job, FALSE)
     \/ "dberror" \in Faults /\ UNCHANGED <<job, older, tries>>
  /\ Goto(w, Outcome(worker[w].threw))
  /\ UNCHANGED Others

Complete(w) ==
  /\ worker[w].pc = "complete"
  /\ job' = [job EXCEPT ![worker[w].job] = Completed(@)]
  /\ Settle(w)
  /\ UNCHANGED <<older, caller, admin, tries>>

\* completeJob raises inside the try block, so the job is failed next, even if
\* the UPDATE had taken effect.
CompleteError(w) ==
  /\ "dberror" \in Faults
  /\ worker[w].pc = "complete"
  /\ \/ UNCHANGED job
     \/ job' = [job EXCEPT ![worker[w].job] = Completed(@)]
  /\ Goto(w, "fail")
  /\ UNCHANGED <<older, caller, admin, tries>>

Fail(w) ==
  /\ worker[w].pc = "fail"
  /\ \/ job' = [job EXCEPT ![worker[w].job] = Failed(@, worker[w].attempt)]
     \/ "dberror" \in Faults /\ UNCHANGED job
  /\ Settle(w)
  /\ UNCHANGED <<older, caller, admin, tries>>

\* The heartbeat's UPDATE looks at the id only.
Heartbeat(w) ==
  /\ Executing(w) /\ w \notin Drainers
  /\ job[worker[w].job].lease # "live"
  /\ job' = [job EXCEPT ![worker[w].job].lease = "live"]
  /\ UNCHANGED <<older, worker, caller, admin, tries>>

\* A handler takes its process down (out of memory, uncaughtException), or the
\* platform does.
Crash(w) ==
  /\ \/ worker[w].pc = "run" /\ job[worker[w].job].scope \in Killers
     \/ "redeploy" \in Faults /\ worker[w].pc # "down"
  /\ worker' = [worker EXCEPT ![w] = Down]
  /\ UNCHANGED <<job, older, caller, admin, tries>>

-----------------------------------------------------------------------------
(* Time, callers, operators and retention.                                 *)

\* TTL (5 min) is ten heartbeats (30 s): a process that beats keeps its lease.
LeaseExpires(j) ==
  /\ job[j].status = "running" /\ job[j].lease = "live"
  /\ "stall" \in Faults \/ \A w \in Workers : ~Heartbeating(w, j)
  /\ job' = [job EXCEPT ![j].lease = "past"]
  /\ UNCHANGED <<older, worker, caller, admin, tries>>

BecomesDue(j) ==
  /\ job[j].status = "queued" /\ ~job[j].due
  /\ job' = [job EXCEPT ![j].due = TRUE]
  /\ UNCHANGED <<older, worker, caller, admin, tries>>

\* enqueueWithIdempotency, first statement: INSERT ... ON CONFLICT DO NOTHING.
InsertKeyed(c, k) ==
  /\ caller[c] = NoKey
  /\ LET clash == \E j \in JobIds : job[j].status # "absent" /\ job[j].scope = k
     IN  \/ ~clash /\ Insert(k, TRUE) /\ UNCHANGED caller
         \/ clash /\ caller' = [caller EXCEPT ![c] = k] /\ UNCHANGED <<job, older, tries>>
  /\ UNCHANGED <<worker, admin>>

\* (mutant) The revive UPDATE does not look at the status.
Revivable_Any(j, k) == job[j].scope = k

\* Second statement, after a conflict: revive the row if it is a dead letter.
Revivable(j, k) == job[j].scope = k /\ job[j].status = "dead_letter"

Revive(c) ==
  /\ caller[c] # NoKey
  /\ LET hit == {j \in JobIds : Revivable(j, caller[c])}
     IN  /\ job' = [j \in JobIds |-> IF j \in hit THEN Requeued(job[j], TRUE) ELSE job[j]]
         /\ tries' = [j \in JobIds |-> IF j \in hit THEN 0 ELSE tries[j]]
  /\ caller' = [caller EXCEPT ![c] = NoKey]
  /\ UNCHANGED <<older, worker, admin>>

EnqueueFromWeb(s, due) ==
  /\ s \in Lives /\ EnqueueLive(s, NoJob, due)
  /\ UNCHANGED <<worker, caller, admin>>

EnqueuePlain(s, due) ==
  /\ s \in Plains /\ Insert(s, due)
  /\ UNCHANGED <<worker, caller, admin>>

\* requeueDeadLetteredJob: the SELECT that finds the dead letter ...
AdminSelect(a, j) ==
  /\ admin[a] = NoJob /\ job[j].status = "dead_letter"
  /\ admin' = [admin EXCEPT ![a] = j]
  /\ UNCHANGED <<job, older, worker, caller, tries>>

\* (mutant) The UPDATE relies on the SELECT before it.
Requeueable_Any(j) == TRUE

\* ... and the UPDATE that checks the status again.
Requeueable(j) == job[j].status = "dead_letter"

AdminRequeue(a) ==
  /\ admin[a] # NoJob
  /\ IF Requeueable(admin[a])
     THEN /\ job' = [job EXCEPT ![admin[a]] = Requeued(@, TRUE)]
          /\ tries' = [tries EXCEPT ![admin[a]] = 0]
     ELSE UNCHANGED <<job, tries>>
  /\ admin' = [admin EXCEPT ![a] = NoJob]
  /\ UNCHANGED <<older, worker, caller>>

Drop(j) ==
  /\ \A w \in Workers : Executing(w) => worker[w].job # j
  /\ \A a \in Admins : admin[a] # j
  /\ job' = [job EXCEPT ![j] = NoRow]
  /\ older' = {p \in older : p[1] # j /\ p[2] # j}
  /\ tries' = [tries EXCEPT ![j] = 0]
  /\ UNCHANGED <<worker, caller, admin>>

\* Retention deletes completed rows only, a week after the last use of one.
Prunable(j) == job[j].status = "completed"
Prune(j) == Prunable(j) /\ Drop(j)

\* Bound of the model, not an operation: a dead letter that no redelivery can
\* revive stops being tracked, so that its id can stand for a later row.
Forget(j) == job[j].status = "dead_letter" /\ job[j].scope \notin Keys /\ Drop(j)

-----------------------------------------------------------------------------
WorkerStep(w) ==
  \/ Start(w) \/ Seeded(w) \/ Reset(w) \/ Bury(w) \/ Claim(w) \/ NothingToClaim(w)
  \/ Resched(w) \/ Complete(w) \/ Fail(w)
  \/ \E s \in Chains : Seed(w, s)
  \/ \E threw \in BOOLEAN : Run(w, threw)

Next ==
  \/ \E w \in Workers :
       WorkerStep(w) \/ PollError(w) \/ CompleteError(w) \/ Heartbeat(w) \/ Crash(w)
  \/ \E j \in JobIds : LeaseExpires(j) \/ BecomesDue(j) \/ Prune(j) \/ Forget(j)
  \/ \E c \in Callers : Revive(c) \/ \E k \in Keys : InsertKeyed(c, k)
  \/ \E due \in BOOLEAN, s \in Scopes : EnqueuePlain(s, due) \/ EnqueueFromWeb(s, due)
  \/ \E a \in Admins : AdminRequeue(a) \/ \E j \in JobIds : AdminSelect(a, j)

Spec == Init /\ [][Next]_vars

\* Processes that are up keep running, the platform restarts those that are
\* not, handlers end, and time passes.  Nobody is obliged to enqueue.
Fairness ==
  /\ \A w \in Workers : WF_vars(WorkerStep(w))
  /\ \A j \in JobIds : WF_vars(LeaseExpires(j)) /\ WF_vars(BecomesDue(j))
  /\ \A j \in JobIds : WF_vars(Prune(j) \/ Forget(j))

FairSpec == Spec /\ Fairness

-----------------------------------------------------------------------------
(* Properties.                                                             *)

\* Two processes are never executing the same row at once (claimNextJob, the
\* heartbeat and resetStaleClaims together), as long as every process that is
\* alive keeps its lease.
SoleRunner ==
  \A w, v \in Workers :
    Executing(w) /\ Executing(v) /\ worker[w].job = worker[v].job => w = v

\* A job that keeps killing its process is started at most max_attempts times
\* per enqueue, whatever fails: the crash loop claimNextJob's bound is for.
PoisonBounded ==
  \A j \in JobIds : tries[j] <= job[j].attempts /\ job[j].attempts <= MaxAttempts

\* No row is given up early: a dead letter was really started max_attempts
\* times since it was enqueued or revived, so a crash and its recovery cost one
\* attempt, not two (resetStaleClaims, failJob, deadLetterExhaustedJobs).
DeadLetterEarned ==
  \A j \in JobIds : job[j].status = "dead_letter" => tries[j] = MaxAttempts

\* What has completed is never executed again: no reset, late failure,
\* redelivery or requeue takes a row out of "completed" other than retention.
CompletedIsFinal ==
  [][\A j \in JobIds : job[j].status = "completed" => job'[j].status \in {"completed", "absent"}]_vars

\* Two operators who click at once, or an operator and a redelivery, cannot
\* both requeue: attempts are handed back to a dead letter only.
AttemptsNeverRefunded ==
  [][\A j \in JobIds : Live(j) => job'[j].attempts >= job[j].attempts]_vars

\* Once a worker has booted, a self-scheduling type always has a queued or
\* running row: the chain withReschedule keeps alive when the work throws.
ChainAlive ==
  (\E w \in Workers : worker[w].pc \notin {"down", "seed"}) =>
    \A s \in Chains : LiveRows(s, NoJob) # {}

\* Live dedupe holds: a type that is enqueued from the web has one live row per
\* workspace, and a self-scheduling one a coordinator and its successor, whatever
\* the boots, the retries and the requests do.
NoLiveDuplicates ==
  /\ \A s \in Lives : Cardinality(LiveRows(s, NoJob)) <= 1
  /\ \A s \in Chains : Cardinality(LiveRows(s, NoJob)) <= 2

\* Every queued row is completed or given up, even when its handler keeps
\* throwing or keeps killing the worker.
EveryJobSettles ==
  \A j \in JobIds : job[j].status = "queued" ~> job[j].status \in {"completed", "dead_letter"}

\* A self-scheduling type is executed again and again, even if every run throws.
ChainKeepsTicking ==
  \A s \in Chains : []<>(\E w \in Workers :
    worker[w].pc = "run" /\ job[worker[w].job].scope = s)

-----------------------------------------------------------------------------
(* The table implements the queue that its users think of.                 *)

Q == INSTANCE WorkQueue WITH Jobs <- JobIds, MaxStarts <- MaxAttempts,
       state <- [j \in JobIds |-> job[j].status],
       hands <- [j \in JobIds |-> {w \in Workers : Executing(w) /\ worker[w].job = j}],
       starts <- tries

\* With leases kept and no commit lost, the claims, heartbeats, sweeps, requeues
\* and crashes of any number of processes amount to one queue whose rows are
\* taken, returned, lost, recovered and given up one step at a time.
RefinesWorkQueue == Q!Spec
=============================================================================
