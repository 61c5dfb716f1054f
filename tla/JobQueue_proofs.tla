--------------------------- MODULE JobQueue_proofs ---------------------------
(***************************************************************************)
(* Theorems about JobQueue, for any number of workers, rows and keys.      *)
(***************************************************************************)
EXTENDS JobQueue, FiniteSetTheorems, TLAPS

\* What is inductive about the types: a row that exists has a scope, and the
\* row a process is executing exists.
RowsExist ==
  /\ \A j \in JobIds : job[j].status # "absent" => job[j].scope \in Scopes
  /\ \A w \in Workers : Executing(w) =>
       worker[w].job \in JobIds /\ job[worker[w].job].status # "absent"

TypeInv == TypeOK /\ RowsExist

-----------------------------------------------------------------------------
(* The statements, row by row.                                             *)

\* What a statement of a worker does to one row: it stays a row, of the same
\* scope, and is neither created nor deleted.
Kept(old, new) ==
  new \in Row /\ new.scope = old.scope /\ (new.status = "absent" <=> old.status = "absent")

LEMMA ResetKeeps == ASSUME NEW row \in Row PROVE Kept(row, ResetStale(row))
BY DEF Kept, Row, Status, ResetStale

LEMMA BuryKeeps == ASSUME NEW row \in Row PROVE Kept(row, BuryExhausted(row))
BY DEF Kept, Row, Status, BuryExhausted

LEMMA ClaimKeeps ==
  ASSUME NEW row \in Row, NEW w \in Workers, row.status # "absent"
  PROVE  Kept(row, Claimed(row, w))
<1>1. row.attempts + 1 \in Nat BY DEF Row
<1> DEFINE n == row.attempts + 1
<1>2. Claimed(row, w) = [row EXCEPT !.status = "running", !.lease = "live",
                                   !.owner = w, !.attempts = n]
  BY DEF Claimed
<1> HIDE DEF n
<1>3. QED BY <1>1, <1>2 DEF Kept, Row, Status, n

LEMMA CompleteKeeps ==
  ASSUME NEW row \in Row, row.status # "absent" PROVE Kept(row, Completed(row))
BY DEF Kept, Row, Status, Completed

LEMMA FailKeeps ==
  ASSUME NEW row \in Row, NEW n \in Nat, row.status # "absent" PROVE Kept(row, Failed(row, n))
<1>1. CASE n < MaxAttempts BY <1>1 DEF Kept, Row, Status, Failed
<1>2. CASE ~(n < MaxAttempts) BY <1>2 DEF Kept, Row, Status, Failed
<1>3. QED BY <1>1, <1>2

LEMMA RequeueKeeps ==
  ASSUME NEW row \in Row, NEW due \in BOOLEAN, row.status # "absent"
  PROVE  Kept(row, Requeued(row, due))
BY DEF Kept, Row, Status, Requeued

LEMMA NoRowType == NoRow \in Row
BY DEF NoRow, Row, Status

LEMMA WorkerTypes ==
  ASSUME NEW w \in Workers
  PROVE  /\ Down \in Worker /\ Idle(w) \in Worker
         /\ Down.pc = "down" /\ Idle(w).pc \in {"down", "poll"}
BY DEF Down, Idle, Worker, PC

\* If every row is kept, the table is still a table.
LEMMA KeptTable ==
  ASSUME TypeInv, job' \in [JobIds -> Row], \A j \in JobIds : Kept(job[j], job'[j])
  PROVE  \A j \in JobIds : job'[j].status # "absent" => job'[j].scope \in Scopes
BY DEF TypeInv, RowsExist, Kept

\* What an INSERT does to one row: nothing, or it is the new row.
Inserted(j) ==
  \/ job'[j] = job[j] /\ tries'[j] = tries[j]
  \/ /\ job[j].status = "absent"
     /\ job'[j].status = "queued" /\ job'[j].attempts = 0 /\ tries'[j] = 0

\* INSERT, behind a dedupe check or not, changes an absent row only.
LEMMA InsertType ==
  ASSUME TypeInv, NEW s \in Scopes, NEW due \in BOOLEAN, Insert(s, due)
  PROVE  /\ job' \in [JobIds -> Row] /\ older' \subseteq JobIds \X JobIds
         /\ tries' \in [JobIds -> Nat]
         /\ \A j \in JobIds : job'[j].status # "absent" => job'[j].scope \in Scopes
         /\ \A j \in JobIds : Inserted(j)
<1>1. PICK j \in JobIds :
        /\ job[j].status = "absent"
        /\ job' = [job EXCEPT ![j] = [NoRow EXCEPT !.status = "queued", !.scope = s, !.due = due]]
        /\ older' = older \cup ({i \in JobIds : job[i].status # "absent"} \X {j})
        /\ tries' = [tries EXCEPT ![j] = 0]
  BY DEF Insert
<1> DEFINE new == [NoRow EXCEPT !.status = "queued", !.scope = s, !.due = due]
<1>2. new \in Row /\ new.status = "queued" /\ new.scope \in Scopes /\ new.attempts = 0
  BY DEF NoRow, Row, Status
<1>3. job'[j] = new /\ \A i \in JobIds \ {j} : job'[i] = job[i] /\ tries'[i] = tries[i]
  BY <1>1 DEF TypeInv, TypeOK
<1>4. job' \in [JobIds -> Row] /\ tries' \in [JobIds -> Nat] /\ tries'[j] = 0
  BY <1>1, <1>2 DEF TypeInv, TypeOK
<1>5. older' \subseteq JobIds \X JobIds
  BY <1>1 DEF TypeInv, TypeOK
<1> HIDE DEF new
<1>6. QED BY <1>1, <1>2, <1>3, <1>4, <1>5 DEF TypeInv, RowsExist, Inserted

LEMMA EnqueueLiveType ==
  ASSUME TypeInv, NEW s \in Scopes, NEW due \in BOOLEAN, NEW x, EnqueueLive(s, x, due)
  PROVE  /\ job' \in [JobIds -> Row] /\ older' \subseteq JobIds \X JobIds
         /\ tries' \in [JobIds -> Nat]
         /\ \A j \in JobIds : job'[j].status # "absent" => job'[j].scope \in Scopes
         /\ \A j \in JobIds : Inserted(j)
<1>1. CASE Insert(s, due) BY <1>1, InsertType
<1>2. CASE UNCHANGED <<job, older, tries>> BY <1>2 DEF TypeInv, TypeOK, RowsExist, Inserted
<1>3. QED BY <1>1, <1>2 DEF EnqueueLive

\* A step that deletes no row, and after which whoever executes a row was
\* executing it before or has just claimed one, preserves TypeInv.
LEMMA RowsStep ==
  ASSUME TypeInv, TypeOK',
         \A j \in JobIds : job'[j].status # "absent" => job'[j].scope \in Scopes,
         \A j \in JobIds : job[j].status # "absent" => job'[j].status # "absent",
         \A w \in Workers : Executing(w)' =>
           \/ Executing(w) /\ worker'[w].job = worker[w].job
           \/ worker'[w].job \in JobIds /\ job[worker'[w].job].status # "absent"
  PROVE  TypeInv'
<1>1. ASSUME NEW w \in Workers, Executing(w)'
      PROVE  worker'[w].job \in JobIds /\ job'[worker'[w].job].status # "absent"
  BY <1>1 DEF TypeInv, RowsExist
<1>2. QED BY <1>1 DEF TypeInv, RowsExist

LEMMA KeptStep ==
  ASSUME TypeInv, TypeOK',
         \A j \in JobIds : Kept(job[j], job'[j]) \/ job'[j] = job[j],
         \A w \in Workers : Executing(w)' =>
           \/ Executing(w) /\ worker'[w].job = worker[w].job
           \/ worker'[w].job \in JobIds /\ job[worker'[w].job].status # "absent"
  PROVE  TypeInv'
<1>1. \A j \in JobIds : job'[j].status # "absent" => job'[j].scope \in Scopes
  BY DEF TypeInv, RowsExist, Kept
<1>2. \A j \in JobIds : job[j].status # "absent" => job'[j].status # "absent"
  BY DEF Kept
<1>3. QED BY <1>1, <1>2, RowsStep

\* The steps that change nothing but program counters.
LEMMA ControlStep ==
  ASSUME TypeInv, UNCHANGED <<job, older, caller, admin, tries>>, worker' \in [Workers -> Worker],
         \A w \in Workers : Executing(w)' => Executing(w) /\ worker'[w].job = worker[w].job
  PROVE  TypeInv'
BY KeptStep DEF TypeInv, TypeOK

LEMMA WorkerStepType ==
  ASSUME TypeInv, NEW w \in Workers, WorkerStep(w)
  PROVE  TypeInv'
<1> USE WorkerTypes
<1> TypeOK BY DEF TypeInv
<1>0. CASE Start(w)
  <2>1. [Down EXCEPT !.pc = "seed", !.todo = Chains] \in Worker BY DEF Down, Worker, PC
  <2>2. worker' \in [Workers -> Worker] BY <1>0, <2>1 DEF Start, TypeOK
  <2>3. worker'[w].pc = "seed" BY <1>0 DEF Start, Down, TypeOK
  <2>4. QED BY <1>0, <2>2, <2>3, ControlStep DEF Start, Executing, TypeOK
<1>1. CASE Seeded(w)
  <2>1. worker' \in [Workers -> Worker] BY <1>1 DEF Seeded, Goto, TypeOK, Worker, PC
  <2>2. QED BY <1>1, <2>1, ControlStep DEF Seeded, Goto, Executing, TypeOK
<1>2. CASE Reset(w)
  <2>1. \A j \in JobIds : Kept(job[j], job'[j]) BY <1>2, ResetKeeps DEF Reset, TypeOK
  <2>a. job' \in [JobIds -> Row] BY <1>2, ResetKeeps DEF Reset, TypeOK, Kept
  <2>b. worker' \in [Workers -> Worker] BY <1>2 DEF Reset, Goto, TypeOK, Worker, PC
  <2>2. TypeOK' BY <1>2, <2>a, <2>b DEF Reset, TypeOK
  <2>3. QED BY <1>2, <2>1, <2>2, KeptStep DEF Reset, Goto, Executing, TypeOK
<1>3. CASE Bury(w)
  <2>1. \A j \in JobIds : Kept(job[j], job'[j]) BY <1>3, BuryKeeps DEF Bury, TypeOK
  <2>a. job' \in [JobIds -> Row] BY <1>3, BuryKeeps DEF Bury, TypeOK, Kept
  <2>b. worker' \in [Workers -> Worker] BY <1>3 DEF Bury, Goto, TypeOK, Worker, PC
  <2>2. TypeOK' BY <1>3, <2>a, <2>b DEF Bury, TypeOK
  <2>3. QED BY <1>3, <2>1, <2>2, KeptStep DEF Bury, Goto, Executing, TypeOK
<1>4. CASE Claim(w)
  <2>1. PICK j \in JobIds :
          /\ Claimable(j)
          /\ job' = [job EXCEPT ![j] = Claimed(job[j], w)]
          /\ worker' = [worker EXCEPT ![w].pc = "run", ![w].job = j,
                                      ![w].attempt = job[j].attempts + 1]
          /\ tries' = [tries EXCEPT ![j] = @ + 1]
    BY <1>4 DEF Claim
  <2>2. job[j] \in Row /\ job[j].status # "absent" BY <2>1 DEF Claimable, TypeOK
  <2>3. Kept(job[j], Claimed(job[j], w)) BY <2>2, ClaimKeeps
  <2>4. job[j].attempts + 1 \in Nat BY <2>2 DEF Row
  <2> DEFINE n == job[j].attempts + 1
             rec == [worker[w] EXCEPT !.pc = "run", !.job = j, !.attempt = n]
  <2>a. worker' = [worker EXCEPT ![w] = rec] BY <2>1 DEF TypeOK
  <2>b. n \in Nat BY <2>4
  <2> HIDE DEF n
  <2>c. rec \in Worker BY <2>b DEF TypeOK, Worker, PC
  <2> HIDE DEF rec
  <2>5. worker' \in [Workers -> Worker] BY <2>a, <2>c DEF TypeOK
  <2>6. TypeOK' BY <1>4, <2>1, <2>3, <2>5 DEF Claim, TypeOK, Kept
  <2>7. QED BY <2>1, <2>2, <2>3, <2>6, KeptStep DEF Executing, TypeOK
<1>5. CASE NothingToClaim(w)
  BY <1>5, ControlStep DEF NothingToClaim, Settle, Executing, TypeOK
<1>6. CASE Resched(w)
  <2>1. worker[w].job \in JobIds /\ job[worker[w].job].scope \in Scopes
    BY <1>6 DEF Resched, TypeInv, RowsExist, Executing
  <2>2. worker' \in [Workers -> Worker]
    BY <1>6 DEF Resched, Goto, Outcome, TypeOK, Worker, PC
  <2>3. CASE EnqueueLive(job[worker[w].job].scope, worker[w].job, FALSE)
    <3>1. TypeOK' BY <1>6, <2>1, <2>2, <2>3, EnqueueLiveType DEF Resched, Others, TypeOK
    <3>2. \A j \in JobIds : job'[j].status # "absent" => job'[j].scope \in Scopes
      BY <2>1, <2>3, EnqueueLiveType
    <3>3. \A j \in JobIds : job[j].status # "absent" => job'[j].status # "absent"
      BY <2>1, <2>3, EnqueueLiveType DEF Inserted
    <3>4. \A v \in Workers : Executing(v)' => Executing(v) /\ worker'[v].job = worker[v].job
      BY <1>6 DEF Resched, Goto, Outcome, Executing, TypeOK
    <3>5. QED BY <3>1, <3>2, <3>3, <3>4, RowsStep
  <2>4. CASE UNCHANGED <<job, older, tries>>
    BY <1>6, <2>2, <2>4, ControlStep DEF Resched, Goto, Outcome, Others, Executing, TypeOK
  <2>5. QED BY <1>6, <2>3, <2>4 DEF Resched
<1>7. CASE Complete(w) \/ Fail(w)
  <2>1. worker[w].job \in JobIds /\ job[worker[w].job].status # "absent"
    BY <1>7 DEF Complete, Fail, TypeInv, RowsExist, Executing
  <2>2. job[worker[w].job] \in Row /\ worker[w].attempt \in Nat
    BY <2>1 DEF TypeOK, Worker
  <2>3. \A j \in JobIds : Kept(job[j], job'[j]) \/ job'[j] = job[j]
    BY <1>7, <2>1, <2>2, CompleteKeeps, FailKeeps DEF Complete, Fail, TypeOK
  <2>4. job' \in [JobIds -> Row]
    BY <1>7, <2>1, <2>2, CompleteKeeps, FailKeeps DEF Complete, Fail, TypeOK, Kept
  <2>5. TypeOK' BY <1>7, <2>4 DEF Complete, Fail, Settle, TypeOK
  <2>6. QED BY <1>7, <2>3, <2>5, KeptStep DEF Complete, Fail, Settle, Executing, TypeOK
<1>8. ASSUME NEW s \in Chains, Seed(w, s) PROVE TypeInv'
  <2>1. s \in Scopes BY DEF Scopes
  <2>2. worker' \in [Workers -> Worker] BY <1>8 DEF Seed, TypeOK, Worker
  <2>3. CASE EnqueueLive(s, NoJob, TRUE)
    <3>1. TypeOK' BY <1>8, <2>1, <2>2, <2>3, EnqueueLiveType DEF Seed, Others, TypeOK
    <3>2. \A j \in JobIds : job'[j].status # "absent" => job'[j].scope \in Scopes
      BY <2>1, <2>3, EnqueueLiveType
    <3>3. \A j \in JobIds : job[j].status # "absent" => job'[j].status # "absent"
      BY <2>1, <2>3, EnqueueLiveType DEF Inserted
    <3>4. \A v \in Workers : Executing(v)' => Executing(v) /\ worker'[v].job = worker[v].job
      BY <1>8 DEF Seed, Executing, TypeOK
    <3>5. QED BY <3>1, <3>2, <3>3, <3>4, RowsStep
  <2>4. CASE UNCHANGED <<job, older, tries>>
    BY <1>8, <2>2, <2>4, ControlStep DEF Seed, Others, Executing, TypeOK
  <2>5. QED BY <1>8, <2>3, <2>4 DEF Seed
<1>9. ASSUME NEW threw \in BOOLEAN, Run(w, threw) PROVE TypeInv'
  <2>1. worker' \in [Workers -> Worker] BY <1>9 DEF Run, Outcome, TypeOK, Worker, PC
  <2>2. QED BY <1>9, <2>1, ControlStep DEF Run, Outcome, Executing, TypeOK
<1>10. QED BY <1>0, <1>1, <1>2, <1>3, <1>4, <1>5, <1>6, <1>7, <1>8, <1>9 DEF WorkerStep

\* The failures of a worker, its heartbeat and its death.
LEMMA FaultStepType ==
  ASSUME TypeInv, NEW w \in Workers,
         PollError(w) \/ CompleteError(w) \/ Heartbeat(w) \/ Crash(w)
  PROVE  TypeInv'
<1> USE WorkerTypes
<1> TypeOK BY DEF TypeInv
<1>1. CASE PollError(w)
  <2>1. worker' \in [Workers -> Worker] BY <1>1 DEF PollError, Settle, TypeOK
  <2>2. \A v \in Workers : Executing(v)' => Executing(v) /\ worker'[v].job = worker[v].job
    BY <1>1 DEF PollError, Settle, Executing, TypeOK
  <2>3. CASE UNCHANGED job
    BY <1>1, <2>1, <2>2, <2>3, ControlStep DEF PollError
  <2>4. ASSUME NEW j \in JobIds, Claimable(j), job' = [job EXCEPT ![j] = Claimed(job[j], w)]
        PROVE  TypeInv'
    <3>1. Kept(job[j], Claimed(job[j], w)) BY <2>4, ClaimKeeps DEF Claimable, TypeOK
    <3>2. TypeOK' BY <1>1, <2>1, <2>4, <3>1 DEF PollError, TypeOK, Kept
    <3>3. QED BY <2>2, <2>4, <3>1, <3>2, KeptStep DEF TypeOK
  <2>5. QED BY <1>1, <2>3, <2>4 DEF PollError
<1>2. CASE CompleteError(w)
  <2>1. worker[w].job \in JobIds /\ job[worker[w].job].status # "absent"
    BY <1>2 DEF CompleteError, TypeInv, RowsExist, Executing
  <2>2. Kept(job[worker[w].job], Completed(job[worker[w].job]))
    BY <2>1, CompleteKeeps DEF TypeOK
  <2>3. \A j \in JobIds : Kept(job[j], job'[j]) \/ job'[j] = job[j]
    BY <1>2, <2>1, <2>2 DEF CompleteError, TypeOK
  <2>4. worker' \in [Workers -> Worker] BY <1>2 DEF CompleteError, Goto, TypeOK, Worker, PC
  <2>5. job' \in [JobIds -> Row] BY <1>2, <2>1, <2>2 DEF CompleteError, TypeOK, Kept
  <2>6. TypeOK' BY <1>2, <2>4, <2>5 DEF CompleteError, TypeOK
  <2>7. QED BY <1>2, <2>3, <2>6, KeptStep DEF CompleteError, Goto, Executing, TypeOK
<1>3. CASE Heartbeat(w)
  <2>1. worker[w].job \in JobIds BY <1>3 DEF Heartbeat, TypeInv, RowsExist
  <2>2. Kept(job[worker[w].job], [job[worker[w].job] EXCEPT !.lease = "live"])
    BY <2>1 DEF TypeOK, Kept, Row
  <2>3. TypeOK' BY <1>3, <2>1, <2>2 DEF Heartbeat, TypeOK, Kept
  <2>4. QED BY <1>3, <2>1, <2>2, <2>3, KeptStep DEF Heartbeat, Executing, TypeOK
<1>4. CASE Crash(w)
  BY <1>4, ControlStep DEF Crash, Executing, TypeOK
<1>5. QED BY <1>1, <1>2, <1>3, <1>4

\* Time and retention.
LEMMA RowStepType ==
  ASSUME TypeInv, NEW j \in JobIds,
         LeaseExpires(j) \/ BecomesDue(j) \/ Prune(j) \/ Forget(j)
  PROVE  TypeInv'
<1> TypeOK BY DEF TypeInv
<1>0. ASSUME NEW new \in Row, Kept(job[j], new), job' = [job EXCEPT ![j] = new],
             UNCHANGED <<older, worker, caller, admin, tries>>
      PROVE  TypeInv'
  <2>1. \A i \in JobIds : Kept(job[i], job'[i]) \/ job'[i] = job[i]
    BY <1>0 DEF TypeOK
  <2>2. TypeOK' BY <1>0 DEF TypeOK
  <2>3. QED BY <1>0, <2>1, <2>2, KeptStep DEF Executing
<1>1. CASE LeaseExpires(j)
  <2>1. Kept(job[j], [job[j] EXCEPT !.lease = "past"]) BY DEF TypeOK, Kept, Row
  <2>2. QED BY <1>0, <1>1, <2>1 DEF LeaseExpires, Kept
<1>3. CASE BecomesDue(j)
  <2>1. Kept(job[j], [job[j] EXCEPT !.due = TRUE]) BY DEF TypeOK, Kept, Row
  <2>2. QED BY <1>0, <1>3, <2>1 DEF BecomesDue, Kept
<1>2. CASE Drop(j)
  <2>1. TypeOK' BY <1>2, NoRowType DEF Drop, TypeOK
  <2>2. \A i \in JobIds : job'[i].status # "absent" => job'[i].scope \in Scopes
    BY <1>2 DEF Drop, TypeInv, RowsExist, TypeOK, NoRow
  <2>3. ASSUME NEW w \in Workers, Executing(w)'
        PROVE  worker'[w].job \in JobIds /\ job'[worker'[w].job].status # "absent"
    BY <1>2, <2>3 DEF Drop, Executing, TypeInv, RowsExist, TypeOK
  <2>4. QED BY <2>1, <2>2, <2>3 DEF TypeInv, RowsExist
<1>4. QED BY <1>1, <1>2, <1>3 DEF Prune, Forget

\* Callers and operators change no worker.
LEMMA ClientStepType ==
  ASSUME TypeInv,
         \/ \E c \in Callers : Revive(c) \/ \E k \in Keys : InsertKeyed(c, k)
         \/ \E due \in BOOLEAN, s \in Scopes : EnqueuePlain(s, due) \/ EnqueueFromWeb(s, due)
         \/ \E a \in Admins : AdminRequeue(a) \/ \E j \in JobIds : AdminSelect(a, j)
  PROVE  TypeInv'
<1> TypeOK BY DEF TypeInv
<1>1. ASSUME NEW c \in Callers, Revive(c) PROVE TypeInv'
  <2>1. caller[c] \in Keys BY <1>1 DEF Revive, TypeOK
  <2>2. \A j \in JobIds : Kept(job[j], job'[j]) \/ job'[j] = job[j]
    BY <1>1, <2>1, RequeueKeeps DEF Revive, Revivable, TypeOK
  <2>3. job' \in [JobIds -> Row]
    BY <1>1, RequeueKeeps DEF Revive, Revivable, TypeOK, Kept
  <2>4. TypeOK' BY <1>1, <2>3 DEF Revive, TypeOK
  <2>5. QED BY <1>1, <2>2, <2>4, KeptStep DEF Revive, Executing
<1>2. ASSUME NEW s \in Scopes, NEW due \in BOOLEAN, EnqueueLive(s, NoJob, due) \/ Insert(s, due),
             UNCHANGED <<worker, caller, admin>> \/ UNCHANGED <<worker, admin, caller>>
      PROVE  TypeInv'
  <2>1. CASE EnqueueLive(s, NoJob, due)
    <3>1. TypeOK' BY <1>2, <2>1, EnqueueLiveType DEF TypeOK
    <3>2. \A j \in JobIds : job'[j].status # "absent" => job'[j].scope \in Scopes
      BY <2>1, EnqueueLiveType
    <3>3. \A j \in JobIds : job[j].status # "absent" => job'[j].status # "absent"
      BY <2>1, EnqueueLiveType DEF Inserted
    <3>4. QED BY <1>2, <3>1, <3>2, <3>3, RowsStep DEF Executing
  <2>2. CASE Insert(s, due)
    <3>1. TypeOK' BY <1>2, <2>2, InsertType DEF TypeOK
    <3>2. \A j \in JobIds : job'[j].status # "absent" => job'[j].scope \in Scopes
      BY <2>2, InsertType
    <3>3. \A j \in JobIds : job[j].status # "absent" => job'[j].status # "absent"
      BY <2>2, InsertType DEF Inserted
    <3>4. QED BY <1>2, <3>1, <3>2, <3>3, RowsStep DEF Executing
  <2>3. QED BY <1>2, <2>1, <2>2
<1>3. ASSUME NEW c \in Callers, NEW k \in Keys, InsertKeyed(c, k) PROVE TypeInv'
  <2>1. k \in Scopes BY DEF Scopes
  <2>2. CASE Insert(k, TRUE) /\ UNCHANGED caller
    BY <1>2, <1>3, <2>1, <2>2 DEF InsertKeyed
  <2>3. CASE caller' = [caller EXCEPT ![c] = k] /\ UNCHANGED <<job, older, tries>>
    <3>1. TypeOK' BY <1>3, <2>3 DEF InsertKeyed, TypeOK
    <3>2. QED BY <1>3, <2>3, <3>1, KeptStep DEF InsertKeyed, Executing
  <2>4. QED BY <1>3, <2>2, <2>3 DEF InsertKeyed
<1>4. ASSUME NEW s \in Scopes, NEW due \in BOOLEAN, EnqueuePlain(s, due) \/ EnqueueFromWeb(s, due)
      PROVE  TypeInv'
  BY <1>2, <1>4 DEF EnqueuePlain, EnqueueFromWeb
<1>5. ASSUME NEW a \in Admins, AdminRequeue(a) PROVE TypeInv'
  <2>1. admin[a] \in JobIds BY <1>5 DEF AdminRequeue, TypeOK
  <2>2. CASE Requeueable(admin[a])
    <3>1. Kept(job[admin[a]], Requeued(job[admin[a]], TRUE))
      BY <2>1, <2>2, RequeueKeeps DEF Requeueable, TypeOK
    <3>a. job' \in [JobIds -> Row]
      BY <1>5, <2>1, <2>2, <3>1 DEF AdminRequeue, TypeOK, Kept
    <3>c. tries' \in [JobIds -> Nat]
      <4>1. tries' = [tries EXCEPT ![admin[a]] = 0] BY <1>5, <2>2 DEF AdminRequeue
      <4>2. QED BY <4>1 DEF TypeOK
    <3>b. admin' \in [Admins -> JobIds \cup {NoJob}]
      BY <1>5 DEF AdminRequeue, TypeOK
    <3>2. TypeOK' BY <1>5, <3>a, <3>b, <3>c DEF AdminRequeue, TypeOK
    <3>3. QED BY <1>5, <2>1, <2>2, <3>1, <3>2, KeptStep DEF AdminRequeue, Executing, TypeOK
  <2>3. CASE ~Requeueable(admin[a])
    <3>1. TypeOK' BY <1>5, <2>3 DEF AdminRequeue, TypeOK
    <3>2. QED BY <1>5, <2>3, <3>1, KeptStep DEF AdminRequeue, Executing
  <2>4. QED BY <2>2, <2>3
<1>6. ASSUME NEW a \in Admins, NEW j \in JobIds, AdminSelect(a, j) PROVE TypeInv'
  <2>1. TypeOK' BY <1>6 DEF AdminSelect, TypeOK
  <2>2. QED BY <1>6, <2>1, KeptStep DEF AdminSelect, Executing
<1>7. QED BY <1>1, <1>3, <1>4, <1>5, <1>6

LEMMA TypeStep == TypeInv /\ [Next]_vars => TypeInv'
<1> SUFFICES ASSUME TypeInv, [Next]_vars PROVE TypeInv'
  OBVIOUS
<1>1. CASE UNCHANGED vars
  BY <1>1 DEF vars, TypeInv, TypeOK, RowsExist, Executing
<1>2. CASE Next
  BY <1>2, WorkerStepType, FaultStepType, RowStepType, ClientStepType DEF Next
<1>3. QED BY <1>1, <1>2

\* Every reachable state is well typed and every row being executed exists.
THEOREM TypeCorrect == Spec => [](TypeOK /\ RowsExist)
<1>1. Init => TypeInv
  BY NoRowType DEF Init, TypeInv, TypeOK, RowsExist, NoRow, Down, Executing, Worker, PC
<1>2. QED BY <1>1, TypeStep, PTL DEF Spec, TypeInv


-----------------------------------------------------------------------------
(* Ownership, when every living process keeps its lease.                   *)

\* The processes that poll and beat, and are never frozen for a whole TTL.
Leased == "stall" \notin Faults /\ Drainers = {}

\* A process that is executing a row holds it: the claim columns name it, the
\* lease is live and the row still has the attempt_count the process claimed
\* with.  Only a completion that was applied but reported as an error leaves a
\* process with a row that is not running.
HoldsRow(w) ==
  /\ job[worker[w].job].owner = w
  /\ job[worker[w].job].lease = "live"
  /\ job[worker[w].job].attempts = worker[w].attempt
  /\ \/ job[worker[w].job].status = "running"
     \/ /\ job[worker[w].job].status = "completed"
        /\ worker[w].pc = "fail" /\ "dberror" \in Faults

Held == \A w \in Workers : Executing(w) => HoldsRow(w)

\* Without lost commits an attempt is charged exactly when a row is started.
Charged ==
  "dberror" \notin Faults => \A j \in JobIds : tries[j] = job[j].attempts

IInv == TypeInv /\ PoisonBounded /\ Held /\ Charged /\ ("dberror" \notin Faults => DeadLetterEarned)


\* What any step does to the attempts of one row.
SameCharge(j) ==
  /\ job'[j].attempts = job[j].attempts /\ tries'[j] = tries[j]
  /\ job'[j].status = "dead_letter" =>
       job[j].status = "dead_letter" \/ job[j].attempts >= MaxAttempts
NewCharge(j) ==
  /\ job[j].attempts < MaxAttempts /\ job'[j].attempts = job[j].attempts + 1
  /\ job'[j].status = "running"
  /\ \/ tries'[j] = tries[j] + 1
     \/ "dberror" \in Faults /\ tries'[j] = tries[j]
NoCharge(j) == job'[j].attempts = 0 /\ tries'[j] = 0 /\ job'[j].status # "dead_letter"

LEMMA SafeStep ==
  ASSUME IInv, TypeInv',
         \A j \in JobIds : SameCharge(j) \/ NewCharge(j) \/ NoCharge(j),
         \A w \in Workers : Executing(w)' => HoldsRow(w)'
  PROVE  IInv'
<1> USE DEF SameCharge, NewCharge, NoCharge
<1>1. \A j \in JobIds : /\ job[j].attempts \in Nat /\ tries[j] \in Nat
                        /\ job'[j].attempts \in Nat /\ tries'[j] \in Nat
  BY DEF IInv, TypeInv, TypeOK, Row
<1>2. MaxAttempts \in Nat BY ConstantsOK
<1>3. PoisonBounded' BY <1>1, <1>2 DEF IInv, PoisonBounded
<1>4. Charged' BY <1>1, <1>2 DEF IInv, Charged
<1>5. ASSUME "dberror" \notin Faults PROVE DeadLetterEarned'
  <2>1. \A j \in JobIds : tries[j] = job[j].attempts /\ job[j].attempts <= MaxAttempts
    BY <1>5 DEF IInv, Charged, PoisonBounded
  <2>2. QED BY <1>1, <1>2, <1>5, <2>1 DEF IInv, DeadLetterEarned
<1>6. QED BY <1>3, <1>4, <1>5 DEF IInv, Held

\* A row has one holder, and a row that is not running is executed by nobody
\* unless its completion was reported as an error.
LEMMA OneHolder ==
  ASSUME Held, NEW w \in Workers, NEW v \in Workers, Executing(w), Executing(v),
         worker[w].job = worker[v].job
  PROVE  w = v
BY DEF Held, HoldsRow

LEMMA SafeInit == Init => IInv
<1> SUFFICES ASSUME Init PROVE IInv
  OBVIOUS
<1>1. TypeInv
  BY NoRowType DEF Init, TypeInv, TypeOK, RowsExist, NoRow, Down, Executing, Worker, PC
<1>2. \A w \in Workers : ~Executing(w) BY DEF Init, Executing, Down
<1>3. QED BY <1>1, <1>2, ConstantsOK
          DEF Init, IInv, PoisonBounded, Held, Charged, DeadLetterEarned, NoRow

\* Steps that leave the table alone and put nobody to work on another row.
LEMMA QuietStep ==
  ASSUME IInv, TypeInv', UNCHANGED <<job, tries>>,
         \A w \in Workers : Executing(w)' =>
           Executing(w) /\ worker'[w].job = worker[w].job
             /\ worker'[w].attempt = worker[w].attempt
             /\ (worker[w].pc = "fail" => worker'[w].pc = "fail")
  PROVE  IInv'
<1>1. \A j \in JobIds : SameCharge(j) BY DEF SameCharge
<1>2. \A w \in Workers : Executing(w)' => HoldsRow(w)' BY DEF IInv, Held, HoldsRow
<1>3. QED BY <1>1, <1>2, SafeStep

\* Steps that add a row at most, and touch no row that exists.
LEMMA AddStep ==
  ASSUME IInv, TypeInv',
         \A j \in JobIds : Inserted(j),
         \A w \in Workers : Executing(w)' =>
           Executing(w) /\ worker'[w].job = worker[w].job
             /\ worker'[w].attempt = worker[w].attempt
             /\ (worker[w].pc = "fail" => worker'[w].pc = "fail")
  PROVE  IInv'
<1>1. \A j \in JobIds : SameCharge(j) \/ NoCharge(j) BY DEF SameCharge, NoCharge, Inserted
<1>2. \A w \in Workers : Executing(w)' => HoldsRow(w)'
  BY DEF IInv, TypeInv, RowsExist, Held, HoldsRow, Inserted
<1>3. QED BY <1>1, <1>2, SafeStep

\* A process that goes idle, and rows that change only where it was working.
LEMMA ReleaseStep ==
  ASSUME IInv, TypeInv', NEW w \in Workers, Executing(w),
         ~Executing(w)' \/ HoldsRow(w)',
         \A v \in Workers \ {w} : worker'[v] = worker[v],
         \A j \in JobIds \ {worker[w].job} : job'[j] = job[j],
         UNCHANGED tries, SameCharge(worker[w].job)
  PROVE  IInv'
<1>1. \A j \in JobIds : SameCharge(j) BY DEF SameCharge
<1>2. ASSUME NEW v \in Workers, Executing(v)' PROVE HoldsRow(v)'
  <2>1. CASE v = w BY <1>2, <2>1
  <2>2. CASE v # w
    <3>1. Executing(v) /\ worker'[v] = worker[v] BY <1>2, <2>2 DEF Executing
    <3>2. worker[v].job # worker[w].job BY <2>2, <3>1, OneHolder DEF IInv
    <3>3. job'[worker[v].job] = job[worker[v].job]
      BY <3>1, <3>2 DEF IInv, TypeInv, RowsExist
    <3>4. QED BY <3>1, <3>3 DEF IInv, Held, HoldsRow
  <2>3. QED BY <2>1, <2>2
<1>3. QED BY <1>1, <1>2, SafeStep

\* Rows that nobody executes may change, as long as no attempt is lost.
LEMMA UnheldStep ==
  ASSUME IInv, TypeInv', UNCHANGED worker,
         \A j \in JobIds : SameCharge(j) \/ NoCharge(j),
         \A j \in JobIds : job'[j] = job[j]
            \/ \A w \in Workers : ~(Executing(w) /\ worker[w].job = j)
  PROVE  IInv'
<1>1. \A w \in Workers : Executing(w)' => HoldsRow(w)'
  BY DEF IInv, TypeInv, RowsExist, Held, HoldsRow, Executing
<1>2. QED BY <1>1, SafeStep

LEMMA WorkerStepSafe ==
  ASSUME Leased, IInv, TypeInv', NEW w \in Workers, WorkerStep(w)
  PROVE  IInv'
<1> TypeInv /\ TypeOK BY DEF IInv, TypeInv
<1>1. CASE Start(w) \/ Seeded(w) \/ NothingToClaim(w)
  <2>1. ~Executing(w)' /\ \A v \in Workers \ {w} : worker'[v] = worker[v]
    <3>1. CASE Start(w) BY <3>1 DEF Start, Executing, TypeOK, Down
    <3>2. CASE Seeded(w) BY <3>2 DEF Seeded, Goto, Executing, TypeOK, Worker
    <3>3. CASE NothingToClaim(w)
      BY <3>3, WorkerTypes DEF NothingToClaim, Settle, Executing, TypeOK
    <3>4. QED BY <1>1, <3>1, <3>2, <3>3
  <2>2. UNCHANGED <<job, tries>> BY <1>1 DEF Start, Seeded, NothingToClaim
  <2>3. QED BY <2>1, <2>2, QuietStep DEF Executing
<1>2. CASE Reset(w) \/ Bury(w)
  <2>1. \A v \in Workers : Executing(v)' => Executing(v) /\ worker'[v] = worker[v]
    <3>1. ~Executing(w)' /\ \A v \in Workers \ {w} : worker'[v] = worker[v]
      <4>1. CASE Reset(w) BY <4>1 DEF Reset, Goto, Executing, TypeOK, Worker
      <4>2. CASE Bury(w) BY <4>2 DEF Bury, Goto, Executing, TypeOK, Worker
      <4>3. QED BY <1>2, <4>1, <4>2
    <3>2. QED BY <3>1 DEF Executing
  <2>2. ASSUME NEW j \in JobIds PROVE SameCharge(j)
    <3>1. job[j] \in Row BY DEF TypeOK
    <3>2. job'[j] = ResetStale(job[j]) \/ job'[j] = BuryExhausted(job[j])
      BY <1>2 DEF Reset, Bury
    <3>3. QED BY <1>2, <3>1, <3>2 DEF Reset, Bury, SameCharge, ResetStale, BuryExhausted, Row
  <2>3. ASSUME NEW v \in Workers, Executing(v)' PROVE HoldsRow(v)'
    <3> DEFINE j == worker[v].job
    <3>1. j \in JobIds /\ HoldsRow(v) BY <2>1, <2>3 DEF IInv, TypeInv, RowsExist, Held
    <3>2. ResetStale(job[j]) = job[j] /\ BuryExhausted(job[j]) = job[j]
      BY <3>1 DEF HoldsRow, ResetStale, BuryExhausted
    <3>3. job'[j] = job[j] BY <1>2, <3>1, <3>2 DEF Reset, Bury
    <3>4. QED BY <2>1, <2>3, <3>1, <3>3 DEF HoldsRow
  <2>4. QED BY <2>2, <2>3, SafeStep
<1>3. CASE Claim(w)
  <2>1. PICK j \in JobIds :
          /\ Claimable(j)
          /\ job' = [job EXCEPT ![j] = Claimed(job[j], w)]
          /\ worker' = [worker EXCEPT ![w].pc = "run", ![w].job = j,
                                      ![w].attempt = job[j].attempts + 1]
          /\ tries' = [tries EXCEPT ![j] = @ + 1]
    BY <1>3 DEF Claim
  <2>2. job[j] \in Row /\ job'[j] = Claimed(job[j], w) BY <2>1 DEF TypeOK
  <2>3. job'[j].status = "running" /\ job'[j].lease = "live" /\ job'[j].owner = w
        /\ job'[j].attempts = job[j].attempts + 1
    BY <2>2 DEF Claimed, Row
  <2>4. NewCharge(j) BY <2>1, <2>3 DEF NewCharge, Claimable, TypeOK
  <2>5. \A i \in JobIds \ {j} : SameCharge(i) BY <2>1 DEF SameCharge, TypeOK
  <2>6. worker'[w].pc = "run" /\ worker'[w].job = j /\ worker'[w].attempt = job[j].attempts + 1
    BY <2>1 DEF TypeOK, Worker
  <2>7. HoldsRow(w)' BY <2>3, <2>6 DEF HoldsRow
  <2>8. ASSUME NEW v \in Workers \ {w}, Executing(v)' PROVE HoldsRow(v)'
    <3>1. worker'[v] = worker[v] /\ Executing(v) BY <2>1, <2>8 DEF Executing, TypeOK
    <3>2. worker[v].job \in JobIds /\ HoldsRow(v) BY <3>1 DEF IInv, TypeInv, RowsExist, Held
    <3>3. worker[v].job # j BY <2>1, <3>2 DEF HoldsRow, Claimable
    <3>4. job'[worker[v].job] = job[worker[v].job] BY <2>1, <3>2, <3>3 DEF TypeOK
    <3>5. QED BY <3>1, <3>2, <3>4 DEF HoldsRow
  <2>9. QED BY <2>4, <2>5, <2>7, <2>8, SafeStep
<1>4. CASE Resched(w)
  <2>1. worker[w].job \in JobIds /\ job[worker[w].job].scope \in Scopes
    BY <1>4 DEF Resched, TypeInv, RowsExist, Executing
  <2>2. \A j \in JobIds : Inserted(j)
    BY <1>4, <2>1, EnqueueLiveType DEF Resched, Inserted
  <2>3. QED BY <1>4, <2>2, AddStep DEF Resched, Goto, Executing, TypeOK, Worker
<1>5. CASE Complete(w)
  <2>1. Executing(w) /\ worker[w].job \in JobIds
    BY <1>5 DEF Complete, TypeInv, RowsExist, Executing
  <2>2. SameCharge(worker[w].job)
    BY <1>5, <2>1 DEF Complete, Completed, SameCharge, TypeOK, Row
  <2>3. ~Executing(w)' BY <1>5, WorkerTypes DEF Complete, Settle, Executing, TypeOK
  <2>4. QED BY <1>5, <2>1, <2>2, <2>3, ReleaseStep DEF Complete, Settle, TypeOK
<1>6. CASE Fail(w)
  <2>1. Executing(w) /\ worker[w].job \in JobIds /\ HoldsRow(w)
    BY <1>6 DEF Fail, TypeInv, RowsExist, Executing, IInv, Held
  <2>2. SameCharge(worker[w].job)
    <3>1. job[worker[w].job] \in Row BY <2>1 DEF TypeOK
    <3>2. worker[w].attempt = job[worker[w].job].attempts BY <2>1 DEF HoldsRow
    <3>3. CASE job' = [job EXCEPT ![worker[w].job] = Failed(@, worker[w].attempt)]
      <4>1. job'[worker[w].job] = Failed(job[worker[w].job], job[worker[w].job].attempts)
        BY <2>1, <3>2, <3>3 DEF TypeOK
      <4>2. job[worker[w].job].attempts \in Nat /\ MaxAttempts \in Nat
        BY <3>1, ConstantsOK DEF Row
      <4>3. QED BY <1>6, <3>1, <4>1, <4>2 DEF Fail, Failed, SameCharge, Row
    <3>4. CASE UNCHANGED job BY <1>6, <3>4 DEF Fail, SameCharge
    <3>5. QED BY <1>6, <3>3, <3>4 DEF Fail
  <2>3. ~Executing(w)' BY <1>6, WorkerTypes DEF Fail, Settle, Executing, TypeOK
  <2>4. QED BY <1>6, <2>1, <2>2, <2>3, ReleaseStep DEF Fail, Settle, TypeOK
<1>7. ASSUME NEW s \in Chains, Seed(w, s) PROVE IInv'
  <2>1. \A j \in JobIds : Inserted(j)
    BY <1>7, EnqueueLiveType DEF Seed, Inserted, Scopes
  <2>2. QED BY <1>7, <2>1, AddStep DEF Seed, Executing, TypeOK
<1>8. ASSUME NEW threw \in BOOLEAN, Run(w, threw) PROVE IInv'
  BY <1>8, QuietStep DEF Run, Outcome, Executing, TypeOK, Worker
<1>9. QED BY <1>1, <1>2, <1>3, <1>4, <1>5, <1>6, <1>7, <1>8 DEF WorkerStep

LEMMA FaultStepSafe ==
  ASSUME Leased, IInv, TypeInv', NEW w \in Workers,
         PollError(w) \/ CompleteError(w) \/ Heartbeat(w) \/ Crash(w)
  PROVE  IInv'
<1> TypeInv /\ TypeOK BY DEF IInv, TypeInv
<1>1. CASE PollError(w)
  <2>1. ~Executing(w)' /\ \A v \in Workers \ {w} : worker'[v] = worker[v]
    BY <1>1, WorkerTypes DEF PollError, Settle, Executing, TypeOK
  <2>2. CASE UNCHANGED job
    BY <1>1, <2>1, <2>2, QuietStep DEF PollError, Executing
  <2>3. ASSUME NEW j \in JobIds, Claimable(j), job' = [job EXCEPT ![j] = Claimed(job[j], w)]
        PROVE  IInv'
    <3>1. job[j] \in Row /\ job'[j] = Claimed(job[j], w) BY <2>3 DEF TypeOK
    <3>a. job'[j].status = "running" /\ job'[j].attempts = job[j].attempts + 1
      BY <3>1 DEF Claimed, Row
    <3>2. NewCharge(j)
      BY <1>1, <2>3, <3>a DEF PollError, NewCharge, Claimable
    <3>3. \A i \in JobIds \ {j} : SameCharge(i) BY <1>1, <2>3 DEF PollError, SameCharge, TypeOK
    <3>4. ASSUME NEW v \in Workers, Executing(v)' PROVE HoldsRow(v)'
      <4>1. worker'[v] = worker[v] /\ Executing(v) BY <2>1, <3>4 DEF Executing
      <4>2. worker[v].job \in JobIds /\ HoldsRow(v) BY <4>1 DEF IInv, TypeInv, RowsExist, Held
      <4>3. worker[v].job # j BY <2>3, <4>2 DEF HoldsRow, Claimable
      <4>4. job'[worker[v].job] = job[worker[v].job] BY <2>3, <4>2, <4>3 DEF TypeOK
      <4>5. QED BY <4>1, <4>2, <4>4 DEF HoldsRow
    <3>5. QED BY <3>2, <3>3, <3>4, SafeStep
  <2>4. QED BY <1>1, <2>2, <2>3 DEF PollError
<1>2. CASE CompleteError(w)
  <2>1. Executing(w) /\ worker[w].job \in JobIds /\ HoldsRow(w)
    BY <1>2 DEF CompleteError, TypeInv, RowsExist, Executing, IInv, Held
  <2>2. worker'[w].pc = "fail" /\ worker'[w].job = worker[w].job
        /\ worker'[w].attempt = worker[w].attempt
    BY <1>2 DEF CompleteError, Goto, TypeOK, Worker
  <2>3. job'[worker[w].job] = job[worker[w].job]
        \/ job'[worker[w].job] = Completed(job[worker[w].job])
    BY <1>2, <2>1 DEF CompleteError, TypeOK
  <2>4. job[worker[w].job] \in Row BY <2>1 DEF TypeOK
  <2>5. SameCharge(worker[w].job)
    BY <1>2, <2>3, <2>4 DEF CompleteError, Completed, SameCharge, Row
  <2>6. HoldsRow(w)'
    BY <1>2, <2>1, <2>2, <2>3, <2>4 DEF CompleteError, HoldsRow, Completed, Row
  <2>7. QED BY <1>2, <2>1, <2>5, <2>6, ReleaseStep DEF CompleteError, Goto, TypeOK
<1>3. CASE Heartbeat(w)
  BY <1>3 DEF Heartbeat, IInv, Held, HoldsRow
<1>4. CASE Crash(w)
  BY <1>4, WorkerTypes, QuietStep DEF Crash, Executing, TypeOK
<1>5. QED BY <1>1, <1>2, <1>3, <1>4

LEMMA RowStepSafe ==
  ASSUME Leased, IInv, TypeInv', NEW j \in JobIds,
         LeaseExpires(j) \/ BecomesDue(j) \/ Prune(j) \/ Forget(j)
  PROVE  IInv'
<1> TypeInv /\ TypeOK BY DEF IInv, TypeInv
<1>1. CASE LeaseExpires(j)
  <2>1. \A w \in Workers : ~(Executing(w) /\ worker[w].job = j)
    BY <1>1 DEF LeaseExpires, Heartbeating, Leased
  <2>2. \A i \in JobIds : SameCharge(i) BY <1>1 DEF LeaseExpires, SameCharge, TypeOK, Row
  <2>3. QED BY <1>1, <2>1, <2>2, UnheldStep DEF LeaseExpires, TypeOK
<1>2. CASE BecomesDue(j)
  <2>1. \A w \in Workers : ~(Executing(w) /\ worker[w].job = j)
    BY <1>2 DEF BecomesDue, IInv, Held, HoldsRow
  <2>2. \A i \in JobIds : SameCharge(i) BY <1>2 DEF BecomesDue, SameCharge, TypeOK, Row
  <2>3. QED BY <1>2, <2>1, <2>2, UnheldStep DEF BecomesDue, TypeOK
<1>3. CASE Drop(j)
  <2>1. NoCharge(j) BY <1>3 DEF Drop, NoCharge, NoRow, TypeOK
  <2>2. \A i \in JobIds \ {j} : SameCharge(i) BY <1>3 DEF Drop, SameCharge, TypeOK
  <2>3. QED BY <1>3, <2>1, <2>2, UnheldStep DEF Drop, TypeOK
<1>4. QED BY <1>1, <1>2, <1>3 DEF Prune, Forget

LEMMA ClientStepSafe ==
  ASSUME Leased, IInv, TypeInv',
         \/ \E c \in Callers : Revive(c) \/ \E k \in Keys : InsertKeyed(c, k)
         \/ \E due \in BOOLEAN, s \in Scopes : EnqueuePlain(s, due) \/ EnqueueFromWeb(s, due)
         \/ \E a \in Admins : AdminRequeue(a) \/ \E j \in JobIds : AdminSelect(a, j)
  PROVE  IInv'
<1> TypeInv /\ TypeOK BY DEF IInv, TypeInv
<1>1. ASSUME NEW c \in Callers, Revive(c) PROVE IInv'
  <2>1. ASSUME NEW j \in JobIds
        PROVE  \/ SameCharge(j) /\ job'[j] = job[j]
               \/ NoCharge(j) /\ job[j].status = "dead_letter"
    BY <1>1 DEF Revive, Revivable, Requeued, SameCharge, NoCharge, TypeOK, Row
  <2>2. \A j \in JobIds : job[j].status = "dead_letter" =>
          \A w \in Workers : ~(Executing(w) /\ worker[w].job = j)
    BY DEF IInv, Held, HoldsRow
  <2>3. QED BY <1>1, <2>1, <2>2, UnheldStep DEF Revive
<1>2. ASSUME NEW c \in Callers, NEW k \in Keys, InsertKeyed(c, k) PROVE IInv'
  <2>1. CASE Insert(k, TRUE)
    <3>1. \A j \in JobIds : Inserted(j) BY <2>1, InsertType DEF Scopes
    <3>2. QED BY <1>2, <3>1, AddStep DEF InsertKeyed, Executing
  <2>2. CASE UNCHANGED <<job, older, tries>>
    BY <1>2, <2>2, QuietStep DEF InsertKeyed, Executing
  <2>3. QED BY <1>2, <2>1, <2>2 DEF InsertKeyed
<1>3. ASSUME NEW s \in Scopes, NEW due \in BOOLEAN, EnqueuePlain(s, due) \/ EnqueueFromWeb(s, due)
      PROVE  IInv'
  <2>1. \A j \in JobIds : Inserted(j)
    BY <1>3, InsertType, EnqueueLiveType DEF EnqueuePlain, EnqueueFromWeb
  <2>2. QED BY <1>3, <2>1, AddStep DEF EnqueuePlain, EnqueueFromWeb, Executing
<1>4. ASSUME NEW a \in Admins, AdminRequeue(a) PROVE IInv'
  <2>1. admin[a] \in JobIds BY <1>4 DEF AdminRequeue, TypeOK
  <2>2. CASE Requeueable(admin[a])
    <3>a. job[admin[a]] \in Row /\ job'[admin[a]] = Requeued(job[admin[a]], TRUE)
      BY <1>4, <2>1, <2>2 DEF AdminRequeue, TypeOK
    <3>b. tries'[admin[a]] = 0 BY <1>4, <2>1, <2>2 DEF AdminRequeue, TypeOK
    <3>1. NoCharge(admin[a]) BY <3>a, <3>b DEF NoCharge, Requeued, Row
    <3>2. \A j \in JobIds \ {admin[a]} : SameCharge(j) /\ job'[j] = job[j]
      BY <1>4, <2>1, <2>2 DEF AdminRequeue, SameCharge, TypeOK
    <3>3. \A w \in Workers : ~(Executing(w) /\ worker[w].job = admin[a])
      BY <2>2 DEF Requeueable, IInv, Held, HoldsRow
    <3>4. QED BY <1>4, <3>1, <3>2, <3>3, UnheldStep DEF AdminRequeue
  <2>3. CASE ~Requeueable(admin[a])
    BY <1>4, <2>3, QuietStep DEF AdminRequeue, Executing
  <2>4. QED BY <2>2, <2>3
<1>5. ASSUME NEW a \in Admins, NEW j \in JobIds, AdminSelect(a, j) PROVE IInv'
  BY <1>5, QuietStep DEF AdminSelect, Executing
<1>6. QED BY <1>1, <1>2, <1>3, <1>4, <1>5

LEMMA Safety == Leased => (Spec => []IInv)
<1> SUFFICES ASSUME Leased PROVE Spec => []IInv
  OBVIOUS
<1>1. Init => IInv BY SafeInit
<1>2. IInv /\ [Next]_vars => IInv'
  <2> SUFFICES ASSUME IInv, [Next]_vars PROVE IInv'
    OBVIOUS
  <2>1. TypeInv' BY TypeStep DEF IInv
  <2>2. CASE UNCHANGED vars
    BY <2>1, <2>2, QuietStep DEF vars, Executing
  <2>3. CASE Next
    BY <2>1, <2>3, WorkerStepSafe, FaultStepSafe, RowStepSafe, ClientStepSafe DEF Next
  <2>4. QED BY <2>2, <2>3
<1>3. QED BY <1>1, <1>2, PTL DEF Spec

\* However many workers poll, no row is ever executed by two of them at once,
\* if no process is frozen past its lease and none runs without a heartbeat.
THEOREM NoTwoRunners == Leased => (Spec => []SoleRunner)
<1>1. IInv => SoleRunner BY OneHolder DEF IInv, SoleRunner
<1>2. QED BY <1>1, Safety, PTL

\* A dead letter has had all of its attempts, if no commit is lost as well.
THEOREM NothingGivenUpEarly ==
  Leased /\ "dberror" \notin Faults => (Spec => []DeadLetterEarned)
<1>1. IInv /\ "dberror" \notin Faults => DeadLetterEarned BY DEF IInv
<1>2. ASSUME Leased, "dberror" \notin Faults PROVE Spec => []DeadLetterEarned
  <2>1. IInv => DeadLetterEarned BY <1>1, <1>2
  <2>2. QED BY <1>2, <2>1, Safety, PTL
<1>3. QED BY <1>2


-----------------------------------------------------------------------------
(* The bound on attempts needs no assumption about faults.                 *)

Bounded(j) == tries[j] <= job[j].attempts /\ job[j].attempts <= MaxAttempts

\* One row under one step, whoever takes it.
RowCharge(j) ==
  \/ job'[j].attempts = job[j].attempts /\ tries'[j] = tries[j]
  \/ /\ job[j].attempts < MaxAttempts /\ job'[j].attempts = job[j].attempts + 1
     /\ tries'[j] \in {tries[j], tries[j] + 1}
  \/ ~Live(j) /\ job'[j].attempts = 0 /\ tries'[j] = 0

\* Only a claim and a requeue write attempt_count.
LEMMA AttemptsColumn ==
  ASSUME NEW row \in Row, NEW w, NEW n, NEW due
  PROVE  /\ ResetStale(row).attempts = row.attempts
         /\ BuryExhausted(row).attempts = row.attempts
         /\ Claimed(row, w).attempts = row.attempts + 1
         /\ Completed(row).attempts = row.attempts
         /\ Failed(row, n).attempts = row.attempts
         /\ Requeued(row, due).attempts = 0
BY DEF Row, ResetStale, BuryExhausted, Claimed, Completed, Failed, Requeued

LEMMA ChargeStep ==
  ASSUME TypeInv, Next, NEW j \in JobIds
  PROVE  RowCharge(j)
<1> TypeOK BY DEF TypeInv
<1> job[j] \in Row BY DEF TypeOK
<1>1. ASSUME NEW w \in Workers, WorkerStep(w) PROVE RowCharge(j)
  <2>1. CASE Claim(w)
    BY <2>1, AttemptsColumn DEF Claim, Claimable, RowCharge, TypeOK
  <2>2. CASE Reset(w) \/ Bury(w)
    BY <2>2, AttemptsColumn DEF Reset, Bury, RowCharge
  <2>3. CASE Complete(w) \/ Fail(w)
    BY <2>3, AttemptsColumn DEF Complete, Fail, RowCharge, TypeOK
  <2>4. CASE Resched(w)
    <3>1. job[worker[w].job].scope \in Scopes
      BY <2>4 DEF Resched, TypeInv, RowsExist, Executing
    <3>2. Inserted(j) BY <2>4, <3>1, EnqueueLiveType DEF Resched, Inserted
    <3>3. QED BY <3>2 DEF Inserted, RowCharge, Live
  <2>5. ASSUME NEW s \in Chains, Seed(w, s) PROVE RowCharge(j)
    <3>1. Inserted(j) BY <2>5, EnqueueLiveType DEF Seed, Inserted, Scopes
    <3>2. QED BY <3>1 DEF Inserted, RowCharge, Live
  <2>6. CASE UNCHANGED <<job, tries>> BY <2>6 DEF RowCharge
  <2>7. QED
    BY <1>1, <2>1, <2>2, <2>3, <2>4, <2>5, <2>6
    DEF WorkerStep, Start, Seeded, NothingToClaim, Run
<1>2. ASSUME NEW w \in Workers, PollError(w) \/ CompleteError(w) \/ Heartbeat(w) \/ Crash(w)
      PROVE  RowCharge(j)
  <2>1. CASE PollError(w)
    BY <2>1, AttemptsColumn DEF PollError, Claimable, RowCharge, TypeOK
  <2>2. CASE CompleteError(w) \/ Heartbeat(w)
    BY <2>2 DEF CompleteError, Heartbeat, Completed, RowCharge, TypeOK, Row
  <2>3. CASE Crash(w) BY <2>3 DEF Crash, RowCharge
  <2>4. QED BY <1>2, <2>1, <2>2, <2>3
<1>3. ASSUME NEW i \in JobIds, LeaseExpires(i) \/ BecomesDue(i) \/ Prune(i) \/ Forget(i)
      PROVE  RowCharge(j)
  BY <1>3 DEF LeaseExpires, BecomesDue, Prune, Prunable, Forget, Drop, NoRow, RowCharge, Live, TypeOK, Row
<1>4. ASSUME NEW c \in Callers, Revive(c) PROVE RowCharge(j)
  BY <1>4 DEF Revive, Revivable, Requeued, RowCharge, Live, TypeOK, Row
<1>5. ASSUME NEW c \in Callers, NEW k \in Keys, InsertKeyed(c, k) PROVE RowCharge(j)
  <2>1. CASE Insert(k, TRUE)
    <3>1. Inserted(j) BY <2>1, InsertType DEF Scopes
    <3>2. QED BY <3>1 DEF Inserted, RowCharge, Live
  <2>2. QED BY <1>5, <2>1 DEF InsertKeyed, RowCharge
<1>6. ASSUME NEW s \in Scopes, NEW due \in BOOLEAN, EnqueuePlain(s, due) \/ EnqueueFromWeb(s, due)
      PROVE  RowCharge(j)
  <2>1. Inserted(j) BY <1>6, InsertType, EnqueueLiveType DEF EnqueuePlain, EnqueueFromWeb
  <2>2. QED BY <2>1 DEF Inserted, RowCharge, Live
<1>7. ASSUME NEW a \in Admins, AdminRequeue(a) PROVE RowCharge(j)
  <2>1. admin[a] \in JobIds BY <1>7 DEF AdminRequeue, TypeOK
  <2>2. CASE UNCHANGED <<job, tries>> BY <2>2 DEF RowCharge
  <2>3. CASE /\ Requeueable(admin[a])
             /\ job' = [job EXCEPT ![admin[a]] = Requeued(@, TRUE)]
             /\ tries' = [tries EXCEPT ![admin[a]] = 0]
    <3>1. CASE j = admin[a] BY <2>3, <3>1, AttemptsColumn DEF Requeueable, RowCharge, Live, TypeOK
    <3>2. CASE j # admin[a] BY <2>3, <3>2 DEF RowCharge, TypeOK
    <3>3. QED BY <3>1, <3>2
  <2>4. QED BY <1>7, <2>2, <2>3 DEF AdminRequeue
<1>8. ASSUME NEW a \in Admins, NEW i \in JobIds, AdminSelect(a, i) PROVE RowCharge(j)
  BY <1>8 DEF AdminSelect, RowCharge
<1>9. QED BY <1>1, <1>2, <1>3, <1>4, <1>5, <1>6, <1>7, <1>8 DEF Next

\* A job that kills or freezes every process that touches it is still started
\* at most max_attempts times per enqueue, whatever the database does.
THEOREM CrashLoopBounded == Spec => []PoisonBounded
<1> DEFINE Inv == TypeInv /\ PoisonBounded
<1>1. Init => Inv
  BY SafeInit DEF IInv
<1>2. Inv /\ [Next]_vars => Inv'
  <2> SUFFICES ASSUME Inv, [Next]_vars PROVE Inv'
    OBVIOUS
  <2>1. TypeInv' BY TypeStep
  <2>2. CASE UNCHANGED vars BY <2>1, <2>2 DEF vars, PoisonBounded
  <2>3. CASE Next
    <3>1. ASSUME NEW j \in JobIds PROVE Bounded(j)'
      <4>1. RowCharge(j) BY <2>3, ChargeStep
      <4>2. job[j].attempts \in Nat /\ tries[j] \in Nat /\ MaxAttempts \in Nat
        BY ConstantsOK DEF TypeInv, TypeOK, Row
      <4>3. Bounded(j) BY DEF PoisonBounded, Bounded
      <4>4. QED BY <4>1, <4>2, <4>3 DEF RowCharge, Bounded
    <3>2. QED BY <2>1, <3>1 DEF PoisonBounded, Bounded
  <2>4. QED BY <2>2, <2>3
<1>3. QED BY <1>1, <1>2, PTL DEF Spec

\* The step that hands attempts back to a row finds it dead, whoever takes it
\* and whatever fails: a second requeue, or a late one, refunds nothing.
THEOREM NoRefund == Spec => AttemptsNeverRefunded
<1>1. TypeInv /\ [Next]_vars => [\A j \in JobIds : Live(j) => job'[j].attempts >= job[j].attempts]_vars
  <2> SUFFICES ASSUME TypeInv, Next, NEW j \in JobIds, Live(j)
               PROVE  job'[j].attempts >= job[j].attempts
    OBVIOUS
  <2>1. RowCharge(j) BY ChargeStep
  <2>2. job[j].attempts \in Nat BY DEF TypeInv, TypeOK, Row
  <2>3. QED BY <2>1, <2>2 DEF RowCharge
<1>2. Spec => []TypeInv BY TypeCorrect DEF TypeInv
<1>3. QED BY <1>1, <1>2, PTL DEF Spec, AttemptsNeverRefunded

-----------------------------------------------------------------------------
(* What has completed stays completed.                                     *)

Final(j) == job'[j].status \in {"completed", "absent"}

\* Only whoever executes a row could take it back, and without a lost commit
\* nobody executes a completed one.
LEMMA FinalStep ==
  ASSUME IInv, "dberror" \notin Faults, Next, NEW j \in JobIds, job[j].status = "completed"
  PROVE  Final(j)
<1> TypeInv /\ TypeOK BY DEF IInv, TypeInv
<1> job[j] \in Row BY DEF TypeOK
<1>0. \A w \in Workers : Executing(w) => worker[w].job \in JobIds \ {j}
  BY DEF IInv, TypeInv, RowsExist, Held, HoldsRow
<1>a. Inserted(j) => Final(j) BY DEF Inserted, Final
<1>b. UNCHANGED job => Final(j) BY DEF Final
<1>1. ASSUME NEW w \in Workers, WorkerStep(w) PROVE Final(j)
  <2>1. CASE Claim(w) BY <2>1 DEF Claim, Claimable, Final, TypeOK
  <2>2. CASE Reset(w) \/ Bury(w)
    BY <2>2 DEF Reset, Bury, ResetStale, BuryExhausted, Final
  <2>3. CASE Complete(w) \/ Fail(w)
    BY <1>0, <2>3 DEF Complete, Fail, Executing, Final, TypeOK
  <2>4. CASE Resched(w)
    <3>1. job[worker[w].job].scope \in Scopes
      BY <2>4 DEF Resched, TypeInv, RowsExist, Executing
    <3>2. QED BY <1>a, <2>4, <3>1, EnqueueLiveType DEF Resched, Inserted
  <2>5. ASSUME NEW s \in Chains, Seed(w, s) PROVE Final(j)
    BY <1>a, <2>5, EnqueueLiveType DEF Seed, Inserted, Scopes
  <2>6. QED
    BY <1>b, <1>1, <2>1, <2>2, <2>3, <2>4, <2>5
    DEF WorkerStep, Start, Seeded, NothingToClaim, Run
<1>2. ASSUME NEW w \in Workers, PollError(w) \/ CompleteError(w) \/ Heartbeat(w) \/ Crash(w)
      PROVE  Final(j)
  <2>1. CASE Heartbeat(w) BY <2>1 DEF Heartbeat, Final, TypeOK, Row
  <2>2. QED BY <1>b, <1>2, <2>1 DEF PollError, CompleteError, Crash
<1>3. ASSUME NEW i \in JobIds, LeaseExpires(i) \/ BecomesDue(i) \/ Prune(i) \/ Forget(i)
      PROVE  Final(j)
  BY <1>3 DEF LeaseExpires, BecomesDue, Prune, Forget, Drop, NoRow, Final, TypeOK, Row
<1>4. ASSUME NEW c \in Callers, Revive(c) PROVE Final(j)
  BY <1>4 DEF Revive, Revivable, Final, TypeOK
<1>5. ASSUME NEW c \in Callers, NEW k \in Keys, InsertKeyed(c, k) PROVE Final(j)
  BY <1>a, <1>b, <1>5, InsertType DEF InsertKeyed, Scopes
<1>6. ASSUME NEW s \in Scopes, NEW due \in BOOLEAN, EnqueuePlain(s, due) \/ EnqueueFromWeb(s, due)
      PROVE  Final(j)
  BY <1>a, <1>6, InsertType, EnqueueLiveType DEF EnqueuePlain, EnqueueFromWeb
<1>7. ASSUME NEW a \in Admins, AdminRequeue(a) PROVE Final(j)
  <2>1. CASE Requeueable(admin[a])
    BY <1>7, <2>1 DEF AdminRequeue, Requeueable, Final, TypeOK
  <2>2. QED BY <1>b, <1>7, <2>1 DEF AdminRequeue
<1>8. ASSUME NEW a \in Admins, NEW i \in JobIds, AdminSelect(a, i) PROVE Final(j)
  BY <1>b, <1>8 DEF AdminSelect
<1>9. QED BY <1>1, <1>2, <1>3, <1>4, <1>5, <1>6, <1>7, <1>8 DEF Next

\* With its lease kept and no commit lost, a process holds the row it ends: no
\* reset, late failure, redelivery or requeue undoes what another completed.
THEOREM NothingRunsTwice ==
  Leased /\ "dberror" \notin Faults => (Spec => CompletedIsFinal)
<1> SUFFICES ASSUME Leased, "dberror" \notin Faults PROVE Spec => CompletedIsFinal
  OBVIOUS
<1>1. IInv /\ [Next]_vars =>
        [\A j \in JobIds : job[j].status = "completed" => job'[j].status \in {"completed", "absent"}]_vars
  BY FinalStep DEF Final
<1>2. QED BY <1>1, Safety, PTL DEF Spec, CompletedIsFinal

-----------------------------------------------------------------------------
(* Live dedupe.                                                            *)

\* The row counts as live for the scope.
LiveIn(j, s) == Live(j) /\ job[j].scope = s

\* No row becomes live for s, or one does, and a dedupe check for s has just
\* found no live row other than x; only a coordinator leaves itself out.
NoGrowth(s) == \A j \in JobIds : LiveIn(j, s)' => LiveIn(j, s)
Growth(s) ==
  \E x, n :
    /\ x = NoJob \/ s \in Chains
    /\ LiveRows(s, x) = {}
    /\ \A j \in JobIds \ {n} : LiveIn(j, s)' => LiveIn(j, s)

\* A row that is about to schedule its successor is a coordinator.
Coordinates == \A w \in Workers : worker[w].pc = "resched" => job[worker[w].job].scope \in Chains

\* One live row at most, and two at most.
Lone(s) == \A i, j \in JobIds : LiveIn(i, s) /\ LiveIn(j, s) => i = j
Paired(s) == \E a, b : \A j \in JobIds : LiveIn(j, s) => j \in {a, b}

DedupeInv ==
  /\ \A s \in Lives : Lone(s)
  /\ \A s \in Chains : Paired(s)
  /\ Coordinates

LEMMA InsertGrows ==
  ASSUME TypeInv, NEW t \in Scopes, NEW due \in BOOLEAN, Insert(t, due)
  PROVE  \E n \in JobIds :
           /\ job[n].status = "absent" /\ job'[n].scope = t
           /\ \A j \in JobIds \ {n} : job'[j] = job[j]
<1>1. PICK n \in JobIds :
        /\ job[n].status = "absent"
        /\ job' = [job EXCEPT ![n] = [NoRow EXCEPT !.status = "queued", !.scope = t, !.due = due]]
  BY DEF Insert
<1>2. job'[n].scope = t BY <1>1 DEF TypeInv, TypeOK, NoRow
<1>3. QED BY <1>1, <1>2 DEF TypeInv, TypeOK

\* An INSERT without a dedupe check is for another scope.
LEMMA InsertElsewhere ==
  ASSUME TypeInv, NEW t \in Scopes, NEW due \in BOOLEAN, Insert(t, due), NEW s, s # t
  PROVE  NoGrowth(s)
<1>1. PICK n \in JobIds : /\ job[n].status = "absent" /\ job'[n].scope = t
                          /\ \A j \in JobIds \ {n} : job'[j] = job[j]
  BY InsertGrows
<1>2. ASSUME NEW j \in JobIds, LiveIn(j, s)' PROVE LiveIn(j, s)
  BY <1>1, <1>2 DEF LiveIn, Live
<1>3. QED BY <1>2 DEF NoGrowth

LEMMA EnqueueGrows ==
  ASSUME TypeInv, NEW t \in Scopes, NEW due \in BOOLEAN, NEW x, EnqueueLive(t, x, due),
         x = NoJob \/ t \in Chains, NEW s
  PROVE  NoGrowth(s) \/ Growth(s)
<1>1. CASE LiveRows(t, x) # {}
  BY <1>1 DEF EnqueueLive, NoGrowth, LiveIn, Live
<1>2. CASE LiveRows(t, x) = {} /\ s # t
  BY <1>2, InsertElsewhere DEF EnqueueLive
<1>3. CASE LiveRows(t, x) = {} /\ s = t
  <2>1. PICK n \in JobIds : \A j \in JobIds \ {n} : job'[j] = job[j]
    BY <1>3, InsertGrows DEF EnqueueLive
  <2>2. \A j \in JobIds \ {n} : LiveIn(j, s)' => LiveIn(j, s) BY <2>1 DEF LiveIn, Live
  <2>3. QED BY <1>3, <2>2 DEF Growth
<1>4. QED BY <1>1, <1>2, <1>3

\* A step that keeps every scope and revives nothing.
LEMMA NoneRevived ==
  ASSUME NEW s,
         \A j \in JobIds : \/ job'[j] = job[j]
                           \/ Live(j)' => Live(j) /\ job'[j].scope = job[j].scope
  PROVE  NoGrowth(s)
<1>1. ASSUME NEW j \in JobIds, LiveIn(j, s)' PROVE LiveIn(j, s)
  BY <1>1 DEF LiveIn, Live
<1>2. QED BY <1>1 DEF NoGrowth

\* Without operators and lost commits, only an INSERT behind the dedupe check of
\* its scope makes a row live: whoever fails a job holds its running row.
LEMMA WorkerGrows ==
  ASSUME IInv, Coordinates, "dberror" \notin Faults, NEW w \in Workers, WorkerStep(w), NEW s
  PROVE  NoGrowth(s) \/ Growth(s)
<1> TypeInv /\ TypeOK BY DEF IInv, TypeInv
<1>1. CASE UNCHANGED job BY <1>1, NoneRevived DEF Live
<1>2. CASE Reset(w) \/ Bury(w)
  <2>1. ASSUME NEW j \in JobIds PROVE Live(j)' => Live(j) /\ job'[j].scope = job[j].scope
    <3>1. job[j] \in Row BY DEF TypeOK
    <3>2. job'[j] = ResetStale(job[j]) \/ job'[j] = BuryExhausted(job[j])
      BY <1>2 DEF Reset, Bury
    <3>3. /\ ResetStale(job[j]).scope = job[j].scope
          /\ BuryExhausted(job[j]).scope = job[j].scope
          /\ ResetStale(job[j]).status # job[j].status => job[j].status = "running"
          /\ BuryExhausted(job[j]).status # job[j].status => job[j].status = "queued"
      BY <3>1 DEF ResetStale, BuryExhausted, Row
    <3>4. QED BY <3>2, <3>3 DEF Live
  <2>2. QED BY <2>1, NoneRevived DEF Live
<1>3. CASE Claim(w)
  BY <1>3, NoneRevived DEF Claim, Claimable, Claimed, Live, TypeOK, Row
<1>4. CASE Complete(w) \/ Fail(w)
  <2>1. /\ worker[w].job \in JobIds
        /\ job[worker[w].job] \in Row /\ job[worker[w].job].status = "running"
    BY <1>4 DEF Complete, Fail, IInv, TypeInv, TypeOK, RowsExist, Executing, Held, HoldsRow
  <2>2. \A j \in JobIds \ {worker[w].job} : job'[j] = job[j]
    BY <1>4, <2>1 DEF Complete, Fail, TypeOK
  <2>3. job'[worker[w].job].scope = job[worker[w].job].scope
    <3>1. worker[w].attempt \in Nat BY DEF TypeOK, Worker
    <3>2. QED
      BY <1>4, <2>1, <3>1, CompleteKeeps, FailKeeps DEF Complete, Fail, TypeOK, Kept
  <2>4. QED BY <2>1, <2>2, <2>3, NoneRevived DEF Live
<1>5. CASE Resched(w) /\ EnqueueLive(job[worker[w].job].scope, worker[w].job, FALSE)
  <2>1. job[worker[w].job].scope \in Chains BY <1>5 DEF Resched, Coordinates
  <2>2. QED BY <1>5, <2>1, EnqueueGrows DEF Scopes
<1>6. ASSUME NEW t \in Chains, EnqueueLive(t, NoJob, TRUE) PROVE NoGrowth(s) \/ Growth(s)
  BY <1>6, EnqueueGrows DEF Scopes
<1>7. QED
  BY <1>1, <1>2, <1>3, <1>4, <1>5, <1>6
  DEF WorkerStep, Start, Seeded, NothingToClaim, Run, Resched, Seed

LEMMA StepGrows ==
  ASSUME IInv, Coordinates, "dberror" \notin Faults, Admins = {}, Next,
         NEW s \in Lives \cup Chains
  PROVE  NoGrowth(s) \/ Growth(s)
<1> TypeInv /\ TypeOK BY DEF IInv, TypeInv
<1> s \notin Keys /\ s \notin Plains BY ConstantsOK
<1>1. ASSUME NEW w \in Workers, PollError(w) \/ CompleteError(w) \/ Heartbeat(w) \/ Crash(w)
      PROVE  NoGrowth(s)
  <2>1. CASE UNCHANGED job BY <2>1, NoneRevived DEF Live
  <2>2. CASE Heartbeat(w)
    <3>1. \A j \in JobIds : job'[j].status = job[j].status /\ job'[j].scope = job[j].scope
      BY <2>2 DEF Heartbeat, TypeOK, Row
    <3>2. QED BY <3>1, NoneRevived DEF Live
  <2>3. QED BY <1>1, <2>1, <2>2 DEF PollError, CompleteError, Crash
<1>2. ASSUME NEW j \in JobIds, LeaseExpires(j) \/ BecomesDue(j) \/ Prune(j) \/ Forget(j)
      PROVE  NoGrowth(s)
  <2>1. \A i \in JobIds \ {j} : job'[i] = job[i]
    BY <1>2 DEF LeaseExpires, BecomesDue, Prune, Forget, Drop, TypeOK
  <2>2. Live(j)' => Live(j) /\ job'[j].scope = job[j].scope
    BY <1>2 DEF LeaseExpires, BecomesDue, Prune, Forget, Drop, Live, NoRow, TypeOK, Row
  <2>3. QED BY <2>1, <2>2, NoneRevived DEF Live
<1>3. ASSUME NEW c \in Callers, Revive(c) PROVE NoGrowth(s)
  <2>1. caller[c] # s BY <1>3 DEF Revive, TypeOK
  <2>2. ASSUME NEW j \in JobIds, LiveIn(j, s)' PROVE LiveIn(j, s)
    <3>1. CASE Revivable(j, caller[c])
      <4>1. job'[j].scope = caller[c]
        BY <1>3, <3>1 DEF Revive, Revivable, Requeued, TypeOK, Row
      <4>2. QED BY <2>1, <2>2, <4>1 DEF LiveIn
    <3>2. CASE ~Revivable(j, caller[c])
      BY <1>3, <2>2, <3>2 DEF Revive, LiveIn, Live
    <3>3. QED BY <3>1, <3>2
  <2>3. QED BY <2>2 DEF NoGrowth
<1>4. ASSUME NEW c \in Callers, NEW k \in Keys, InsertKeyed(c, k) PROVE NoGrowth(s)
  <2>1. CASE Insert(k, TRUE) BY <2>1, InsertElsewhere DEF Scopes
  <2>2. QED BY <1>4, <2>1, NoneRevived DEF InsertKeyed
<1>5. ASSUME NEW t \in Scopes, NEW due \in BOOLEAN, EnqueuePlain(t, due) \/ EnqueueFromWeb(t, due)
      PROVE  NoGrowth(s) \/ Growth(s)
  BY <1>5, InsertElsewhere, EnqueueGrows DEF EnqueuePlain, EnqueueFromWeb
<1>6. QED BY <1>1, <1>2, <1>3, <1>4, <1>5, WorkerGrows DEF Next

\* A row keeps its scope for as long as it exists.
LEMMA ScopesStay ==
  ASSUME TypeInv, Next, NEW j \in JobIds, job[j].status # "absent", job'[j].status # "absent"
  PROVE  job'[j].scope = job[j].scope
<1> TypeOK BY DEF TypeInv
<1> job[j] \in Row BY DEF TypeOK
<1>1. CASE Inserted(j) BY <1>1 DEF Inserted
<1>2. CASE UNCHANGED job BY <1>2
<1>3. ASSUME NEW w \in Workers, WorkerStep(w) PROVE job'[j].scope = job[j].scope
  <2>1. CASE Reset(w) \/ Bury(w)
    BY <2>1, ResetKeeps, BuryKeeps DEF Reset, Bury, Kept
  <2>2. CASE Claim(w)
    BY <2>2, ClaimKeeps DEF Claim, Claimable, Kept, TypeOK
  <2>3. CASE Complete(w) \/ Fail(w)
    <3>1. /\ worker[w].job \in JobIds /\ job[worker[w].job].status # "absent"
          /\ job[worker[w].job] \in Row /\ worker[w].attempt \in Nat
      BY <2>3 DEF Complete, Fail, TypeInv, TypeOK, RowsExist, Executing, Worker
    <3>2. QED
      BY <2>3, <3>1, CompleteKeeps, FailKeeps DEF Complete, Fail, TypeOK, Kept
  <2>4. CASE Resched(w) /\ EnqueueLive(job[worker[w].job].scope, worker[w].job, FALSE)
    <3>1. job[worker[w].job].scope \in Scopes
      BY <2>4 DEF Resched, TypeInv, RowsExist, Executing
    <3>2. QED BY <1>1, <2>4, <3>1, EnqueueLiveType DEF Inserted
  <2>5. ASSUME NEW t \in Chains, EnqueueLive(t, NoJob, TRUE) PROVE job'[j].scope = job[j].scope
    BY <1>1, <2>5, EnqueueLiveType DEF Scopes, Inserted
  <2>6. QED
    BY <1>2, <1>3, <2>1, <2>2, <2>3, <2>4, <2>5
    DEF WorkerStep, Start, Seeded, NothingToClaim, Run, Resched, Seed
<1>4. ASSUME NEW w \in Workers, PollError(w) \/ CompleteError(w) \/ Heartbeat(w) \/ Crash(w)
      PROVE  job'[j].scope = job[j].scope
  <2>1. CASE PollError(w)
    BY <2>1, ClaimKeeps DEF PollError, Claimable, Kept, TypeOK
  <2>2. CASE CompleteError(w) \/ Heartbeat(w)
    BY <2>2 DEF CompleteError, Heartbeat, Completed, TypeOK, Row
  <2>3. QED BY <1>2, <1>4, <2>1, <2>2 DEF Crash
<1>5. ASSUME NEW i \in JobIds, LeaseExpires(i) \/ BecomesDue(i) \/ Prune(i) \/ Forget(i)
      PROVE  job'[j].scope = job[j].scope
  BY <1>5 DEF LeaseExpires, BecomesDue, Prune, Forget, Drop, NoRow, TypeOK, Row
<1>6. ASSUME NEW c \in Callers, Revive(c) PROVE job'[j].scope = job[j].scope
  BY <1>6 DEF Revive, Revivable, Requeued, TypeOK, Row
<1>7. ASSUME NEW c \in Callers, NEW k \in Keys, InsertKeyed(c, k)
      PROVE  job'[j].scope = job[j].scope
  BY <1>1, <1>2, <1>7, InsertType DEF InsertKeyed, Scopes, Inserted
<1>8. ASSUME NEW s \in Scopes, NEW due \in BOOLEAN, EnqueuePlain(s, due) \/ EnqueueFromWeb(s, due)
      PROVE  job'[j].scope = job[j].scope
  BY <1>1, <1>8, InsertType, EnqueueLiveType DEF EnqueuePlain, EnqueueFromWeb, Inserted
<1>9. ASSUME NEW a \in Admins, AdminRequeue(a) PROVE job'[j].scope = job[j].scope
  <2>1. CASE Requeueable(admin[a])
    <3>1. admin[a] \in JobIds BY <1>9 DEF AdminRequeue, TypeOK
    <3>2. job' = [job EXCEPT ![admin[a]] = Requeued(job[admin[a]], TRUE)]
      BY <1>9, <2>1 DEF AdminRequeue
    <3>3. Requeued(job[admin[a]], TRUE).scope = job[admin[a]].scope
      BY <2>1, <3>1, RequeueKeeps DEF Requeueable, Kept, TypeOK
    <3>4. QED BY <3>1, <3>2, <3>3 DEF TypeOK
  <2>2. QED BY <1>2, <1>9, <2>1 DEF AdminRequeue
<1>10. ASSUME NEW a \in Admins, NEW i \in JobIds, AdminSelect(a, i)
       PROVE  job'[j].scope = job[j].scope
  BY <1>10 DEF AdminSelect
<1>11. QED BY <1>3, <1>4, <1>5, <1>6, <1>7, <1>8, <1>9, <1>10 DEF Next

\* A process starts to schedule a successor when its handler is done.
LEMMA WorkersMove ==
  ASSUME TypeOK, Next, NEW w \in Workers, worker'[w] # worker[w], worker'[w].pc = "resched"
  PROVE  \E threw \in BOOLEAN : Run(w, threw)
<1> USE WorkerTypes
<1>1. ASSUME NEW v \in Workers, WorkerStep(v) PROVE \E threw \in BOOLEAN : Run(w, threw)
  <2>1. ASSUME NEW threw \in BOOLEAN, Run(v, threw) PROVE \E t \in BOOLEAN : Run(w, t)
    BY <2>1 DEF Run, TypeOK
  <2>2. CASE Start(v) BY <2>2 DEF Start, TypeOK, Down
  <2>3. CASE Seeded(v) \/ Reset(v) \/ Bury(v)
    <3>1. worker' = [worker EXCEPT ![v].pc = worker'[v].pc]
          /\ worker'[v].pc \in {"boot", "bootBury", "bury", "poll", "claim"}
      BY <2>3 DEF Seeded, Reset, Bury, Goto, TypeOK, Worker
    <3>2. QED BY <3>1 DEF TypeOK, Worker
  <2>a. CASE Claim(v)
    BY <2>a DEF Claim, TypeOK, Worker
  <2>4. CASE NothingToClaim(v) \/ Complete(v) \/ Fail(v)
    BY <2>4 DEF NothingToClaim, Complete, Fail, Settle, TypeOK
  <2>5. CASE Resched(v) BY <2>5 DEF Resched, Goto, Outcome, TypeOK, Worker
  <2>6. ASSUME NEW s \in Chains, Seed(v, s) PROVE FALSE
    <3>1. worker' = [worker EXCEPT ![v].todo = @ \ {s}] /\ worker[v].pc = "seed"
      BY <2>6 DEF Seed
    <3>2. QED BY <3>1 DEF TypeOK, Worker
  <2>7. QED BY <1>1, <2>1, <2>2, <2>3, <2>a, <2>4, <2>5, <2>6 DEF WorkerStep
<1>2. ASSUME NEW v \in Workers, PollError(v) \/ CompleteError(v) \/ Heartbeat(v) \/ Crash(v)
      PROVE  FALSE
  BY <1>2 DEF PollError, CompleteError, Heartbeat, Crash, Settle, Goto, TypeOK, Worker
<1>3. CASE UNCHANGED worker BY <1>3
<1>4. QED
  BY <1>1, <1>2, <1>3
  DEF Next, LeaseExpires, BecomesDue, Prune, Forget, Drop, Revive, InsertKeyed, EnqueuePlain,
      EnqueueFromWeb, AdminRequeue, AdminSelect

\* Two live rows become one when a step adds none, and one when it adds a row
\* after a check that found none, or that found the coordinator.
LEMMA LoneStep ==
  ASSUME NEW s, s \notin Chains, NoJob \notin JobIds, Lone(s), NoGrowth(s) \/ Growth(s)
  PROVE  Lone(s)'
<1>1. CASE NoGrowth(s) BY <1>1 DEF NoGrowth, Lone, LiveIn
<1>2. CASE Growth(s)
  <2>1. PICK n :
          /\ LiveRows(s, NoJob) = {}
          /\ \A j \in JobIds \ {n} : LiveIn(j, s)' => LiveIn(j, s)
    BY <1>2 DEF Growth
  <2>2. \A j \in JobIds : ~LiveIn(j, s) BY <2>1 DEF LiveRows, LiveIn
  <2>3. QED BY <2>1, <2>2 DEF Lone, LiveIn
<1>3. QED BY <1>1, <1>2

LEMMA PairedStep ==
  ASSUME NEW s, Paired(s), NoGrowth(s) \/ Growth(s)
  PROVE  Paired(s)'
<1>1. CASE NoGrowth(s) BY <1>1 DEF NoGrowth, Paired, LiveIn
<1>2. CASE Growth(s)
  <2>1. PICK x, n :
          /\ LiveRows(s, x) = {}
          /\ \A j \in JobIds \ {n} : LiveIn(j, s)' => LiveIn(j, s)
    BY <1>2 DEF Growth
  <2>2. \A j \in JobIds : LiveIn(j, s) => j = x BY <2>1 DEF LiveRows, LiveIn
  <2>3. \A j \in JobIds : LiveIn(j, s)' => j \in {x, n} BY <2>1, <2>2
  <2>4. QED BY <2>3 DEF Paired, LiveIn
<1>3. QED BY <1>1, <1>2

LEMMA CoordinatesStep ==
  ASSUME TypeInv, TypeInv', Coordinates, Next
  PROVE  Coordinates'
<1> TypeOK BY DEF TypeInv
<1> SUFFICES ASSUME NEW w \in Workers, worker'[w].pc = "resched"
             PROVE  job'[worker'[w].job].scope \in Chains
  BY DEF Coordinates
<1>1. ASSUME worker'[w] = worker[w]
      PROVE  job'[worker'[w].job].scope \in Chains
  <2>1. /\ worker[w].job \in JobIds /\ job[worker[w].job].status # "absent"
        /\ job'[worker[w].job].status # "absent" /\ job[worker[w].job].scope \in Chains
    BY <1>1 DEF Coordinates, TypeInv, RowsExist, Executing
  <2>2. QED BY <1>1, <2>1, ScopesStay
<1>2. ASSUME worker'[w] # worker[w]
      PROVE  job'[worker'[w].job].scope \in Chains
  <2>1. PICK threw \in BOOLEAN : Run(w, threw)
    BY <1>2, WorkersMove
  <2>2. QED BY <2>1 DEF Run, Outcome, TypeOK, Worker
<1>3. QED BY <1>1, <1>2

\* What the parts of DedupeInv say of the numbers of live rows.
LEMMA LiveCounts ==
  ASSUME NEW s
  PROVE  /\ Lone(s) => Cardinality(LiveRows(s, NoJob)) <= 1
         /\ Paired(s) => Cardinality(LiveRows(s, NoJob)) <= 2
<1> DEFINE L == LiveRows(s, NoJob)
<1>1. ASSUME NEW a, NEW b, L \subseteq {a, b} PROVE Cardinality(L) <= 2
  <2>1. IsFiniteSet({a}) /\ Cardinality({a}) = 1 BY FS_Singleton
  <2>2. {a, b} = {a} \cup {b} OBVIOUS
  <2>3. IsFiniteSet({a, b}) /\ Cardinality({a, b}) <= 2 BY <2>1, <2>2, FS_AddElement
  <2>4. Cardinality(L) \in Nat /\ Cardinality({a, b}) \in Nat
    BY <1>1, <2>3, FS_Subset, FS_CardinalityType
  <2>5. Cardinality(L) <= Cardinality({a, b}) BY <1>1, <2>3, FS_Subset
  <2>6. QED BY <2>3, <2>4, <2>5
<1>2. ASSUME Lone(s) PROVE Cardinality(L) <= 1
  <2>1. CASE L = {} BY <2>1, FS_EmptySet
  <2>2. ASSUME NEW a \in L PROVE Cardinality(L) <= 1
    <3>1. L = {a} BY <1>2, <2>2 DEF Lone, LiveRows, LiveIn
    <3>2. QED BY <3>1, FS_Singleton
  <2>3. QED BY <2>1, <2>2
<1>3. ASSUME Paired(s) PROVE Cardinality(L) <= 2
  <2>1. PICK a, b : \A j \in JobIds : LiveIn(j, s) => j \in {a, b} BY <1>3 DEF Paired
  <2>2. L \subseteq {a, b} BY <2>1 DEF LiveRows, LiveIn
  <2>3. QED BY <1>1, <2>2
<1>4. QED BY <1>2, <1>3

\* However many processes boot, poll and die, a live-deduped type has one live
\* row and a self-scheduling one a coordinator and its successor, if leases are
\* kept, no commit is lost and no operator puts a dead letter back beside its
\* successor.
THEOREM DedupeHolds ==
  Leased /\ "dberror" \notin Faults /\ Admins = {} => (Spec => []NoLiveDuplicates)
<1> SUFFICES ASSUME Leased, "dberror" \notin Faults, Admins = {}
             PROVE  Spec => []NoLiveDuplicates
  OBVIOUS
<1>1. Init => DedupeInv
  <2> SUFFICES ASSUME Init PROVE DedupeInv
    OBVIOUS
  <2>1. \A j \in JobIds : ~Live(j) BY DEF Init, Live, NoRow
  <2>2. \A w \in Workers : worker[w].pc = "down" BY DEF Init, Down
  <2>3. QED BY <2>1, <2>2 DEF DedupeInv, Lone, Paired, LiveIn, Coordinates
<1>2. IInv /\ IInv' /\ DedupeInv /\ [Next]_vars => DedupeInv'
  <2> SUFFICES ASSUME IInv, IInv', DedupeInv, [Next]_vars PROVE DedupeInv'
    OBVIOUS
  <2>1. CASE UNCHANGED vars
    BY <2>1 DEF vars, DedupeInv, Lone, Paired, LiveIn, Live, Coordinates
  <2>2. CASE Next
    <3>1. Coordinates' BY <2>2, CoordinatesStep DEF IInv, DedupeInv
    <3>2. \A s \in Lives \cup Chains : NoGrowth(s) \/ Growth(s)
      BY <2>2, StepGrows DEF DedupeInv
    <3>3. ASSUME NEW s \in Lives PROVE Lone(s)'
      BY <3>2, ConstantsOK, LoneStep DEF DedupeInv
    <3>4. ASSUME NEW s \in Chains PROVE Paired(s)'
      BY <3>2, PairedStep DEF DedupeInv
    <3>5. QED BY <3>1, <3>3, <3>4 DEF DedupeInv
  <2>3. QED BY <2>1, <2>2
<1>3. DedupeInv => NoLiveDuplicates BY LiveCounts DEF DedupeInv, NoLiveDuplicates
<1>4. QED BY <1>1, <1>2, <1>3, Safety, PTL DEF Spec

-----------------------------------------------------------------------------
(* Self-scheduling chains, with one worker process.                        *)

\* One process, whose self-scheduling handlers do not take it down, which is
\* stopped at no other point, and whose statements do not fail.  It may be
\* frozen past its lease, and operators may requeue what they like.
OneWorker ==
  /\ \A w, v \in Workers : w = v
  /\ Killers \cap Chains = {}
  /\ {"redeploy", "dberror"} \cap Faults = {}

\* A row other than x is live for the scope.
HasLive(s, x) == \E j \in JobIds \ {x} : LiveIn(j, s)

\* The process executes a running row, with the attempt that it claimed.
Runs == \A w \in Workers : Executing(w) =>
  /\ job[worker[w].job].status = "running"
  /\ job[worker[w].job].attempts = worker[w].attempt

\* A coordinator has attempts left while it waits, and is executed while it runs.
OnTrack(j) ==
  /\ job[j].status = "queued" => job[j].attempts < MaxAttempts
  /\ job[j].status = "running" => \E w \in Workers : Executing(w) /\ worker[w].job = j

\* The process has seeded the chain.
Grown(w, s) ==
  \/ worker[w].pc \notin {"down", "seed"}
  \/ worker[w].pc = "seed" /\ s \notin worker[w].todo

\* The process is about to end a coordinator.
Ends(w) == worker[w].pc \in {"complete", "fail"} /\ job[worker[w].job].scope \in Chains

\* The row it ends has a successor.
HasNext(w) == HasLive(job[worker[w].job].scope, worker[w].job)

ChainInv ==
  /\ Runs
  /\ \A j \in JobIds : job[j].scope \in Chains => OnTrack(j)
  /\ \A w \in Workers, s \in Chains : Grown(w, s) => HasLive(s, NoJob)
  /\ \A w \in Workers : Ends(w) => HasNext(w)

\* What a step that neither claims nor ends a row does to one.
Untouched(j) ==
  /\ job'[j].status = job[j].status
  /\ job'[j].scope = job[j].scope
  /\ job'[j].attempts = job[j].attempts
Offered(j) == ~Live(j) /\ job'[j].status = "queued" /\ job'[j].attempts = 0
Dropped(j) == ~Live(j) /\ ~Live(j)'

\* The process goes on executing its row, or it is not executing a coordinator.
GoesOn(w) ==
  \/ /\ Executing(w) /\ Executing(w)' /\ Untouched(worker[w].job)
     /\ worker'[w].job = worker[w].job /\ worker'[w].attempt = worker[w].attempt
  \/ ~Executing(w)' /\ (Executing(w) => job[worker[w].job].scope \notin Chains)

LEMMA LiveLasts ==
  ASSUME NEW s \in Chains, NEW x, HasLive(s, x),
         \A j \in JobIds : job[j].scope \in Chains => Untouched(j) \/ ~Live(j)
  PROVE  HasLive(s, x)'
BY DEF HasLive, LiveIn, Live, Untouched

LEMMA PassiveStep ==
  ASSUME TypeInv, ChainInv, MaxAttempts \in Nat \ {0},
         \A j \in JobIds : job[j].scope \in Chains \/ job'[j].scope \in Chains =>
           Untouched(j) \/ Offered(j) \/ Dropped(j),
         \A w \in Workers : GoesOn(w),
         \A w \in Workers, s \in Chains : Grown(w, s)' => Grown(w, s) \/ HasLive(s, NoJob)',
         \A w \in Workers : Ends(w)' => Ends(w) \/ HasNext(w)'
  PROVE  ChainInv'
<1>0. \A w \in Workers : Executing(w) => worker[w].job \in JobIds
  BY DEF TypeInv, RowsExist
<1>1. \A j \in JobIds : job[j].scope \in Chains => Untouched(j) \/ ~Live(j)
  BY DEF Offered, Dropped
<1>2. Runs' BY DEF ChainInv, Runs, GoesOn, Untouched
<1>3. ASSUME NEW j \in JobIds, job'[j].scope \in Chains PROVE OnTrack(j)'
  <2>1. CASE Untouched(j)
    <3>1. OnTrack(j) /\ job[j].scope \in Chains BY <1>3, <2>1 DEF ChainInv, Untouched
    <3>2. ASSUME job'[j].status = "running"
          PROVE  \E w \in Workers : Executing(w)' /\ worker'[w].job = j
      <4>1. PICK w \in Workers : Executing(w) /\ worker[w].job = j
        BY <2>1, <3>1, <3>2 DEF OnTrack, Untouched
      <4>2. QED BY <3>1, <4>1 DEF GoesOn
    <3>3. QED BY <2>1, <3>1, <3>2 DEF OnTrack, Untouched, Executing
  <2>2. CASE Offered(j) BY <2>2 DEF Offered, OnTrack
  <2>3. CASE Dropped(j) BY <2>3 DEF Dropped, OnTrack, Live
  <2>4. QED BY <1>3, <2>1, <2>2, <2>3
<1>4. ASSUME NEW w \in Workers, NEW s \in Chains, Grown(w, s)' PROVE HasLive(s, NoJob)'
  <2>1. CASE Grown(w, s) BY <1>1, <2>1, LiveLasts DEF ChainInv
  <2>2. QED BY <1>4, <2>1
<1>5. ASSUME NEW w \in Workers, Ends(w)' PROVE HasNext(w)'
  <2>1. Executing(w)' BY <1>5 DEF Ends, Executing
  <2>2. job'[worker'[w].job].scope = job[worker[w].job].scope /\ worker'[w].job = worker[w].job
    BY <2>1 DEF GoesOn, Untouched
  <2>3. job[worker[w].job].scope \in Chains BY <1>5, <2>2 DEF Ends
  <2>4. CASE Ends(w)
    <3>1. PICK j \in JobIds \ {worker[w].job} : LiveIn(j, job[worker[w].job].scope)
      BY <2>4 DEF ChainInv, HasNext, HasLive
    <3>2. Untouched(j) BY <1>1, <2>3, <3>1 DEF LiveIn
    <3>3. QED BY <2>2, <3>1, <3>2 DEF HasNext, HasLive, LiveIn, Live, Untouched
  <2>5. QED BY <1>5, <2>4
<1>6. QED BY <1>2, <1>3, <1>4, <1>5 DEF ChainInv

\* The steps of the process that claim nothing and end nothing.
LEMMA QuietWorkerChain ==
  ASSUME OneWorker, TypeInv, ChainInv, NEW w \in Workers,
         \/ Start(w) \/ Seeded(w) \/ Reset(w) \/ Bury(w) \/ NothingToClaim(w)
         \/ \E threw \in BOOLEAN : Run(w, threw)
  PROVE  ChainInv'
<1> TypeOK BY DEF TypeInv
<1> USE WorkerTypes
<1>0. \A v \in Workers : v = w BY DEF OneWorker
<1>1. ~Executing(w) \/ \E threw \in BOOLEAN : Run(w, threw)
  BY DEF Start, Seeded, Reset, Bury, NothingToClaim, Executing
<1>2. ASSUME NEW j \in JobIds, job[j].scope \in Chains \/ job'[j].scope \in Chains
      PROVE  Untouched(j)
  <2>1. CASE Reset(w)
    <3>1. job'[j] = ResetStale(job[j]) BY <2>1 DEF Reset
    <3>2. job[j].scope \in Chains
      BY <1>2, <3>1, ResetKeeps DEF Kept, TypeOK
    <3>3. job[j].status # "running"
      BY <1>0, <2>1, <3>2 DEF Reset, ChainInv, OnTrack, Executing
    <3>4. QED BY <3>1, <3>3 DEF ResetStale, Untouched
  <2>2. CASE Bury(w)
    <3>1. job'[j] = BuryExhausted(job[j]) BY <2>2 DEF Bury
    <3>2. job[j].scope \in Chains
      BY <1>2, <3>1, BuryKeeps DEF Kept, TypeOK
    <3>3. job[j].status = "queued" => job[j].attempts < MaxAttempts
      BY <3>2 DEF ChainInv, OnTrack
    <3>4. job[j].attempts \in Nat /\ MaxAttempts \in Nat BY ConstantsOK DEF TypeOK, Row
    <3>5. QED BY <3>1, <3>3, <3>4 DEF BuryExhausted, Untouched
  <2>3. CASE UNCHANGED job BY <2>3 DEF Untouched
  <2>4. QED BY <2>1, <2>2, <2>3 DEF Start, Seeded, NothingToClaim, Run
<1>3. GoesOn(w)
  <2>1. CASE Start(w) BY <1>1, <2>1 DEF Start, Executing, GoesOn, TypeOK, Down
  <2>2. CASE Seeded(w) \/ Reset(w) \/ Bury(w)
    BY <2>2 DEF Seeded, Reset, Bury, Goto, Executing, GoesOn, TypeOK, Worker
  <2>3. CASE NothingToClaim(w)
    BY <2>3 DEF NothingToClaim, Settle, Executing, GoesOn, TypeOK
  <2>4. ASSUME NEW threw \in BOOLEAN, Run(w, threw) PROVE GoesOn(w)
    BY <2>4 DEF Run, Outcome, Executing, GoesOn, Untouched, TypeOK, Worker
  <2>5. QED BY <2>1, <2>2, <2>3, <2>4
<1>4. ASSUME NEW s \in Chains, Grown(w, s)' PROVE Grown(w, s)
  <2>1. CASE Start(w) BY <1>4, <2>1 DEF Start, Grown, TypeOK, Down
  <2>2. CASE Seeded(w) BY <2>2 DEF Seeded, Grown
  <2>3. QED BY <2>1, <2>2 DEF Reset, Bury, NothingToClaim, Run, Grown
<1>5. Ends(w)' => Ends(w) \/ HasNext(w)'
  <2>1. ASSUME NEW threw \in BOOLEAN, Run(w, threw) PROVE ~Ends(w)'
    BY <2>1 DEF Run, Outcome, Ends, TypeOK, Worker
  <2>2. ASSUME ~Executing(w)' PROVE ~Ends(w)' BY <2>2 DEF Executing, Ends
  <2>3. QED BY <1>1, <1>3, <2>1, <2>2 DEF GoesOn
<1>6. QED BY <1>0, <1>2, <1>3, <1>4, <1>5, ConstantsOK, PassiveStep

\* After a dedupe check and the INSERT it may lead to, the scope has a live row
\* other than the one left out.
LEMMA EnqueueLeavesLive ==
  ASSUME TypeInv, NEW s \in Scopes, NEW due \in BOOLEAN, NEW x, EnqueueLive(s, x, due),
         x \in JobIds => job[x].status # "absent"
  PROVE  HasLive(s, x)'
<1>1. CASE LiveRows(s, x) # {}
  BY <1>1 DEF EnqueueLive, LiveRows, HasLive, LiveIn, Live
<1>2. CASE LiveRows(s, x) = {}
  <2>1. PICK n \in JobIds :
          /\ job[n].status = "absent"
          /\ job' = [job EXCEPT ![n] = [NoRow EXCEPT !.status = "queued", !.scope = s, !.due = due]]
    BY <1>2 DEF EnqueueLive, Insert
  <2>2. job'[n].status = "queued" /\ job'[n].scope = s
    BY <2>1 DEF TypeInv, TypeOK, NoRow
  <2>3. QED BY <2>1, <2>2 DEF HasLive, LiveIn, Live
<1>3. QED BY <1>1, <1>2

LEMMA InsertedPassive ==
  ASSUME TypeInv, NEW j \in JobIds, Inserted(j)
  PROVE  Untouched(j) \/ Offered(j)
BY DEF Inserted, Untouched, Offered, Live

\* Seeding a chain, and scheduling the successor of a coordinator.
LEMMA SeedChain ==
  ASSUME OneWorker, TypeInv, ChainInv, NEW w \in Workers, NEW s \in Chains, Seed(w, s)
  PROVE  ChainInv'
<1> TypeOK BY DEF TypeInv
<1>0. \A v \in Workers : v = w BY DEF OneWorker
<1>1. EnqueueLive(s, NoJob, TRUE) /\ s \in Scopes BY DEF OneWorker, Seed, Scopes
<1>2. \A j \in JobIds : Untouched(j) \/ Offered(j) BY <1>1, EnqueueLiveType, InsertedPassive
<1>3. worker' = [worker EXCEPT ![w].todo = @ \ {s}] /\ worker[w].pc = "seed" BY DEF Seed
<1>4. worker'[w].pc = "seed" /\ worker'[w].todo = worker[w].todo \ {s}
  BY <1>3 DEF TypeOK, Worker
<1>5. GoesOn(w) /\ ~Ends(w)' BY <1>3, <1>4 DEF GoesOn, Executing, Ends
<1>6. HasLive(s, NoJob)' BY <1>1, ConstantsOK, EnqueueLeavesLive
<1>7. ASSUME NEW t \in Chains, Grown(w, t)' PROVE Grown(w, t) \/ HasLive(t, NoJob)'
  <2>1. CASE t = s BY <1>6, <2>1
  <2>2. CASE t # s BY <1>3, <1>4, <1>7, <2>2 DEF Grown
  <2>3. QED BY <2>1, <2>2
<1>8. QED BY <1>0, <1>2, <1>5, <1>7, ConstantsOK, PassiveStep

LEMMA ReschedChain ==
  ASSUME OneWorker, TypeInv, ChainInv, NEW w \in Workers, Resched(w)
  PROVE  ChainInv'
<1> TypeOK BY DEF TypeInv
<1> DEFINE j == worker[w].job
<1>0. \A v \in Workers : v = w BY DEF OneWorker
<1>1. Executing(w) /\ j \in JobIds /\ job[j].status # "absent" /\ job[j].scope \in Scopes
  BY DEF Resched, Executing, TypeInv, RowsExist
<1>2. EnqueueLive(job[j].scope, j, FALSE) BY DEF OneWorker, Resched
<1>3. \A i \in JobIds : Untouched(i) \/ Offered(i)
  BY <1>1, <1>2, EnqueueLiveType, InsertedPassive
<1>4. Untouched(j)
  <2>1. Inserted(j) BY <1>1, <1>2, EnqueueLiveType
  <2>2. QED BY <1>1, <2>1 DEF Inserted, Untouched
<1>5. /\ worker'[w].pc \in {"complete", "fail"} /\ worker'[w].job = j
      /\ worker'[w].attempt = worker[w].attempt
  BY DEF Resched, Goto, Outcome, TypeOK, Worker
<1>6. GoesOn(w) BY <1>1, <1>4, <1>5 DEF GoesOn, Executing
<1>7. HasNext(w)'
  <2>1. PICK s : s = job[j].scope OBVIOUS
  <2>2. PICK x : x = j OBVIOUS
  <2>3. HasLive(s, x)' BY <1>1, <1>2, <2>1, <2>2, EnqueueLeavesLive
  <2>4. job'[worker'[w].job].scope = s /\ worker'[w].job = x
    BY <1>4, <1>5, <2>1, <2>2 DEF Untouched
  <2>5. QED BY <2>3, <2>4 DEF HasNext, HasLive
<1>8. \A s \in Chains : Grown(w, s) BY DEF Resched, Grown
<1>9. QED BY <1>0, <1>3, <1>6, <1>7, <1>8, ConstantsOK, PassiveStep

\* A claim: the row is executed from now on.
LEMMA ClaimChain ==
  ASSUME OneWorker, TypeInv, ChainInv, NEW w \in Workers, Claim(w)
  PROVE  ChainInv'
<1> TypeOK BY DEF TypeInv
<1>0. \A v \in Workers : v = w BY DEF OneWorker
<1>1. PICK j \in JobIds :
        /\ Claimable(j)
        /\ job' = [job EXCEPT ![j] = Claimed(job[j], w)]
        /\ worker' = [worker EXCEPT ![w].pc = "run", ![w].job = j,
                                    ![w].attempt = job[j].attempts + 1]
  BY DEF Claim
<1>2. worker'[w].pc = "run" /\ worker'[w].job = j /\ worker'[w].attempt = job[j].attempts + 1
  BY <1>1 DEF TypeOK, Worker
<1>3. /\ job'[j].status = "running" /\ job'[j].scope = job[j].scope
      /\ job'[j].attempts = job[j].attempts + 1
  BY <1>1 DEF Claimed, TypeOK, Row
<1>4. \A i \in JobIds \ {j} : job'[i] = job[i] BY <1>1 DEF TypeOK
<1>5. Executing(w)' /\ ~Executing(w) /\ ~Ends(w)'
  BY <1>2 DEF Claim, Executing, Ends
<1>6. Runs' BY <1>0, <1>2, <1>3 DEF Runs
<1>7. ASSUME NEW i \in JobIds, job'[i].scope \in Chains PROVE OnTrack(i)'
  <2>1. CASE i = j BY <1>2, <1>3, <1>5, <2>1 DEF OnTrack
  <2>2. CASE i # j
    <3>1. OnTrack(i) BY <1>4, <1>7, <2>2 DEF ChainInv
    <3>2. QED BY <1>0, <1>4, <1>5, <2>2, <3>1 DEF OnTrack
  <2>3. QED BY <2>1, <2>2
<1>8. ASSUME NEW s \in Chains PROVE HasLive(s, NoJob)'
  <2>1. HasLive(s, NoJob) BY <1>0 DEF ChainInv, Grown, Claim
  <2>2. QED BY <1>1, <1>3, <1>4, <2>1 DEF HasLive, LiveIn, Live
<1>9. QED BY <1>0, <1>5, <1>6, <1>7, <1>8 DEF ChainInv

\* The end of a job, which is a coordinator's only once it has a successor.
LEMMA EndChain ==
  ASSUME OneWorker, TypeInv, ChainInv, NEW w \in Workers, Complete(w) \/ Fail(w)
  PROVE  ChainInv'
<1> TypeOK BY DEF TypeInv
<1> USE WorkerTypes
<1> DEFINE j == worker[w].job
<1>0. \A v \in Workers : v = w BY DEF OneWorker
<1>1. /\ Executing(w) /\ j \in JobIds /\ job[j] \in Row
      /\ job[j].status = "running" /\ job[j].attempts = worker[w].attempt
  BY DEF Complete, Fail, Executing, TypeInv, RowsExist, TypeOK, ChainInv, Runs
<1>2. job' = [job EXCEPT ![j] = Completed(job[j])]
      \/ job' = [job EXCEPT ![j] = Failed(job[j], worker[w].attempt)]
  BY DEF OneWorker, Complete, Fail
<1>3. \A i \in JobIds \ {j} : job'[i] = job[i] BY <1>2 DEF TypeOK
<1>4. job'[j] = Completed(job[j]) \/ job'[j] = Failed(job[j], worker[w].attempt)
  BY <1>1, <1>2 DEF TypeOK
<1>5. /\ job'[j].status # "running" /\ job'[j].scope = job[j].scope
      /\ job'[j].status = "queued" => job'[j].attempts < MaxAttempts
  BY <1>1, <1>4 DEF Completed, Failed, Row
<1>6. ~Executing(w)' /\ ~Ends(w)'
  BY DEF Complete, Fail, Settle, Executing, Ends, TypeOK
<1>7. Runs' BY <1>0, <1>6 DEF Runs
<1>8. ASSUME NEW i \in JobIds, job'[i].scope \in Chains PROVE OnTrack(i)'
  <2>1. CASE i = j BY <1>5, <2>1 DEF OnTrack
  <2>2. CASE i # j
    <3>1. OnTrack(i) BY <1>3, <1>8, <2>2 DEF ChainInv
    <3>2. job[i].status # "running" BY <1>0, <2>2, <3>1 DEF OnTrack
    <3>3. QED BY <1>3, <2>2, <3>1, <3>2 DEF OnTrack
  <2>3. QED BY <2>1, <2>2
<1>9. ASSUME NEW s \in Chains PROVE HasLive(s, NoJob)'
  <2>1. PICK i \in JobIds \ {NoJob} : LiveIn(i, s)
    BY <1>0 DEF ChainInv, Grown, HasLive, Complete, Fail
  <2>2. CASE i # j BY <1>3, <2>1, <2>2 DEF HasLive, LiveIn, Live
  <2>3. CASE i = j
    <3>1. Ends(w) BY <2>1, <2>3 DEF Ends, LiveIn, Complete, Fail
    <3>2. PICK k \in JobIds \ {j} : LiveIn(k, s)
      BY <2>1, <2>3, <3>1 DEF ChainInv, HasNext, HasLive, LiveIn
    <3>3. k # NoJob BY ConstantsOK
    <3>4. QED BY <1>3, <3>2, <3>3 DEF HasLive, LiveIn, Live
  <2>4. QED BY <2>2, <2>3
<1>10. QED BY <1>0, <1>6, <1>7, <1>8, <1>9 DEF ChainInv

\* What is not a step of the worker's program touches no live row.
LEMMA OutsideChain ==
  ASSUME OneWorker, TypeInv, ChainInv, Next, \A w \in Workers : ~WorkerStep(w)
  PROVE  ChainInv'
<1> TypeOK BY DEF TypeInv
<1>1. \A w \in Workers : ~PollError(w) /\ ~CompleteError(w)
  BY DEF OneWorker, PollError, CompleteError
<1>2. ASSUME NEW w \in Workers, Crash(w) PROVE ChainInv'
  <2>1. \A v \in Workers : v = w BY DEF OneWorker
  <2>2. worker[w].pc = "run" /\ job[worker[w].job].scope \notin Chains
    BY <1>2 DEF OneWorker, Crash
  <2>3. worker'[w].pc = "down" BY <1>2 DEF Crash, Down, TypeOK
  <2>4. GoesOn(w) /\ ~Ends(w)' /\ \A s \in Chains : ~Grown(w, s)'
    BY <2>2, <2>3 DEF GoesOn, Executing, Ends, Grown
  <2>5. \A j \in JobIds : Untouched(j) BY <1>2 DEF Crash, Untouched
  <2>6. QED BY <2>1, <2>4, <2>5, ConstantsOK, PassiveStep
<1>3. ASSUME UNCHANGED worker,
             \A j \in JobIds : Untouched(j) \/ Offered(j) \/ Dropped(j),
             \A w \in Workers : Executing(w) => Untouched(worker[w].job)
      PROVE  ChainInv'
  <2>1. \A w \in Workers : GoesOn(w) BY <1>3 DEF GoesOn, Executing
  <2>2. \A w \in Workers, s \in Chains : Grown(w, s)' => Grown(w, s) BY <1>3 DEF Grown
  <2>3. ASSUME NEW w \in Workers, Ends(w)' PROVE Ends(w)
    BY <1>3, <2>3 DEF Ends, Executing, Untouched
  <2>4. QED BY <1>3, <2>1, <2>2, <2>3, ConstantsOK, PassiveStep
<1>4. \A w \in Workers : Executing(w) =>
        worker[w].job \in JobIds /\ job[worker[w].job].status = "running"
  BY DEF ChainInv, Runs, TypeInv, RowsExist
<1>5. ASSUME NEW w \in Workers, Heartbeat(w) PROVE ChainInv'
  <2>1. \A j \in JobIds : Untouched(j) BY <1>5 DEF Heartbeat, Untouched, TypeOK, Row
  <2>2. QED BY <1>3, <1>4, <1>5, <2>1 DEF Heartbeat
<1>6. ASSUME NEW j \in JobIds, LeaseExpires(j) \/ BecomesDue(j) PROVE ChainInv'
  <2>1. \A i \in JobIds : Untouched(i)
    BY <1>6 DEF LeaseExpires, BecomesDue, Untouched, TypeOK, Row
  <2>2. QED BY <1>3, <1>4, <1>6, <2>1 DEF LeaseExpires, BecomesDue
<1>7. ASSUME NEW j \in JobIds, Prune(j) \/ Forget(j) PROVE ChainInv'
  <2>1. Dropped(j) /\ ~Live(j) /\ UNCHANGED worker
    BY <1>7 DEF Prune, Prunable, Forget, Drop, Dropped, Live, NoRow, TypeOK
  <2>2. \A i \in JobIds \ {j} : Untouched(i)
    BY <1>7 DEF Prune, Forget, Drop, Untouched, TypeOK
  <2>3. QED BY <1>3, <1>4, <2>1, <2>2 DEF Live
<1>8. ASSUME NEW c \in Callers, Revive(c) PROVE ChainInv'
  <2>1. ASSUME NEW j \in JobIds PROVE Untouched(j) \/ (Offered(j) /\ job[j].status = "dead_letter")
    BY <1>8 DEF Revive, Revivable, Requeued, Untouched, Offered, Live, TypeOK, Row
  <2>2. QED BY <1>3, <1>4, <1>8, <2>1 DEF Revive
<1>9. ASSUME UNCHANGED worker, \A j \in JobIds : Inserted(j) PROVE ChainInv'
  <2>1. \A j \in JobIds : Untouched(j) \/ Offered(j) BY <1>9, InsertedPassive
  <2>2. \A w \in Workers : Executing(w) => Untouched(worker[w].job)
    BY <1>4, <1>9 DEF Inserted, Untouched
  <2>3. QED BY <1>3, <1>9, <2>1, <2>2
<1>10. ASSUME UNCHANGED <<job, worker>> PROVE ChainInv'
  BY <1>3, <1>10 DEF Untouched
<1>11. ASSUME NEW c \in Callers, NEW k \in Keys, InsertKeyed(c, k) PROVE ChainInv'
  <2>1. k \in Scopes BY DEF Scopes
  <2>2. QED BY <1>9, <1>10, <1>11, <2>1, InsertType DEF InsertKeyed
<1>12. ASSUME NEW s \in Scopes, NEW due \in BOOLEAN, EnqueuePlain(s, due) \/ EnqueueFromWeb(s, due)
       PROVE  ChainInv'
  BY <1>9, <1>12, InsertType, EnqueueLiveType DEF EnqueuePlain, EnqueueFromWeb
<1>13. ASSUME NEW a \in Admins, AdminRequeue(a) PROVE ChainInv'
  <2>1. CASE Requeueable(admin[a])
    <3>1. admin[a] \in JobIds BY <1>13 DEF AdminRequeue, TypeOK
    <3>2. job' = [job EXCEPT ![admin[a]] = Requeued(job[admin[a]], TRUE)] /\ UNCHANGED worker
      BY <1>13, <2>1 DEF AdminRequeue
    <3>3. \A j \in JobIds \ {admin[a]} : Untouched(j) BY <3>2 DEF Untouched, TypeOK
    <3>4. job'[admin[a]] = Requeued(job[admin[a]], TRUE) /\ job[admin[a]] \in Row
      BY <3>1, <3>2 DEF TypeOK
    <3>5. Offered(admin[a]) BY <2>1, <3>4 DEF Requeueable, Requeued, Offered, Live, Row
    <3>6. QED BY <1>3, <1>4, <2>1, <3>2, <3>3, <3>5 DEF Requeueable
  <2>2. QED BY <1>10, <1>13, <2>1 DEF AdminRequeue
<1>14. ASSUME NEW a \in Admins, NEW j \in JobIds, AdminSelect(a, j) PROVE ChainInv'
  BY <1>10, <1>14 DEF AdminSelect
<1>15. QED
  BY <1>1, <1>2, <1>5, <1>6, <1>7, <1>8, <1>11, <1>12, <1>13, <1>14 DEF Next

\* A self-scheduling type has a queued or a running row from the first boot on,
\* whatever it runs beside: with one process that is not stopped inside a
\* coordinator's turn, only the end of a row takes it from the live ones, and a
\* coordinator that ends has left a successor.
THEOREM ChainsLast == OneWorker => (Spec => []ChainAlive)
<1> SUFFICES ASSUME OneWorker PROVE Spec => []ChainAlive
  OBVIOUS
<1>1. Init => ChainInv
  <2> SUFFICES ASSUME Init PROVE ChainInv
    OBVIOUS
  <2>1. \A j \in JobIds : job[j].status = "absent" BY DEF Init, NoRow
  <2>2. \A w \in Workers : worker[w].pc = "down" BY DEF Init, Down
  <2>3. QED BY <2>1, <2>2 DEF ChainInv, Runs, OnTrack, Executing, Grown, Ends
<1>2. TypeInv /\ ChainInv /\ [Next]_vars => ChainInv'
  <2> SUFFICES ASSUME TypeInv, ChainInv, [Next]_vars PROVE ChainInv'
    OBVIOUS
  <2>1. CASE UNCHANGED vars
    BY <2>1 DEF vars, ChainInv, Runs, OnTrack, Executing, Grown, Ends, HasNext, HasLive, LiveIn, Live
  <2>2. ASSUME NEW w \in Workers, WorkerStep(w) PROVE ChainInv'
    BY <2>2, QuietWorkerChain, SeedChain, ReschedChain, ClaimChain, EndChain DEF WorkerStep
  <2>3. CASE Next BY <2>2, <2>3, OutsideChain
  <2>4. QED BY <2>1, <2>3
<1>3. ChainInv => ChainAlive
  BY DEF ChainInv, ChainAlive, Grown, HasLive, LiveRows, LiveIn
<1>4. Spec => []TypeInv BY TypeCorrect DEF TypeInv
<1>5. QED BY <1>1, <1>2, <1>3, <1>4, PTL DEF Spec

-----------------------------------------------------------------------------
(* The table implements WorkQueue.                                         *)

\* The processes that work on a row.
Hands(j) == {w \in Workers : Executing(w) /\ worker[w].job = j}

\* Steps of the two levels, column by column.
Changes(S, s) == \A j \in JobIds : job'[j].status = IF j \in S THEN s ELSE job[j].status
Restarts(S) == \A j \in JobIds : tries'[j] = IF j \in S THEN 0 ELSE tries[j]
SameHands ==
  \A w \in Workers : /\ Executing(w)' <=> Executing(w)
                     /\ Executing(w) => worker'[w].job = worker[w].job

LEMMA ColumnsMap ==
  ASSUME TypeOK, TypeOK'
  PROVE  /\ \A S, s : Changes(S, s) => Q!Becomes(S, s)
         /\ \A S : Restarts(S) => Q!StartsAnew(S)
         /\ SameHands => \A j \in JobIds : Hands(j)' = Hands(j)
<1>1. ASSUME NEW S, NEW s, Changes(S, s) PROVE Q!Becomes(S, s)
  BY <1>1 DEF Changes, Q!Becomes
<1>2. ASSUME NEW S, Restarts(S) PROVE Q!StartsAnew(S)
  BY <1>2 DEF TypeOK, Restarts, Q!StartsAnew
<1>3. ASSUME SameHands, NEW j \in JobIds PROVE Hands(j)' = Hands(j)
  BY <1>3 DEF SameHands, Hands
<1>4. QED BY <1>1, <1>2, <1>3

\* A step that leaves status, tries and hands alone is a stutter.
LEMMA StutterMaps ==
  ASSUME TypeOK, TypeOK', \A j \in JobIds : job'[j].status = job[j].status,
         tries' = tries, SameHands
  PROVE  UNCHANGED Q!vars
<1>1. \A j \in JobIds : Hands(j)' = Hands(j) BY ColumnsMap
<1>2. QED BY <1>1 DEF Hands, Q!vars

LEMMA OwnHands ==
  ASSUME IInv, NEW w \in Workers, NEW j, Executing(w), worker[w].job = j
  PROVE  Hands(j) = {w}
BY OneHolder DEF IInv, Hands

\* A process that stops working on its row leaves nobody at it.
LEMMA HandsLeave ==
  ASSUME IInv, NEW w \in Workers, NEW j, Executing(w), worker[w].job = j, ~Executing(w)',
         \A v \in Workers \ {w} : worker'[v] = worker[v]
  PROVE  \A i \in JobIds : Hands(i)' = IF i = j THEN {} ELSE Hands(i)
<1>1. Hands(j)' = {}
  <2>1. \A v \in Workers : Executing(v) /\ worker[v].job = j => v = w
    BY OneHolder DEF IInv
  <2>2. QED BY <2>1 DEF Hands, Executing
<1>2. ASSUME NEW i \in JobIds, i # j PROVE Hands(i)' = Hands(i)
  BY <1>2 DEF Hands, Executing
<1>3. QED BY <1>1, <1>2

\* The ways a process comes to a row and leaves it.
LEMMA TakeMaps ==
  ASSUME IInv, TypeOK', NEW w \in Workers, Claim(w)
  PROVE  \E j \in JobIds : Q!Take(j, w)
<1> TypeInv /\ TypeOK BY DEF IInv, TypeInv
<1>1. PICK j \in JobIds :
        /\ Claimable(j)
        /\ job' = [job EXCEPT ![j] = Claimed(job[j], w)]
        /\ worker' = [worker EXCEPT ![w].pc = "run", ![w].job = j,
                                    ![w].attempt = job[j].attempts + 1]
        /\ tries' = [tries EXCEPT ![j] = @ + 1]
  BY DEF Claim
<1>2. worker'[w].pc = "run" /\ worker'[w].job = j /\ \A v \in Workers \ {w} : worker'[v] = worker[v]
  BY <1>1 DEF TypeOK, Worker
<1>3. ~Executing(w) /\ Executing(w)' BY <1>2 DEF Claim, Executing
<1>4. Hands(j) = {} BY <1>1 DEF IInv, Held, HoldsRow, Hands, Claimable
<1>5. Hands(j)' = {w} BY <1>2, <1>3, <1>4 DEF Hands, Executing
<1>6. \A i \in JobIds \ {j} : Hands(i)' = Hands(i) BY <1>2, <1>3 DEF Hands, Executing
<1>7. Changes({j}, "running") BY <1>1 DEF Changes, Claimed, TypeOK, Row
<1>8. tries[j] < MaxAttempts
  <2>1. tries[j] <= job[j].attempts BY DEF IInv, PoisonBounded
  <2>2. QED BY <1>1, <2>1, ConstantsOK DEF Claimable, TypeOK, Row
<1>9. \A i \in JobIds : w \notin Hands(i) BY <1>3 DEF Hands
<1>10. Q!Becomes({j}, "running") BY <1>7, ColumnsMap
<1>11. job[j].status = "queued" BY <1>1 DEF Claimable
<1>12. [i \in JobIds |-> Hands(i)'] = [[i \in JobIds |-> Hands(i)] EXCEPT ![j] = {w}]
  BY <1>5, <1>6
<1>13. QED BY <1>1, <1>4, <1>8, <1>9, <1>10, <1>11, <1>12 DEF Hands, Q!Take

LEMMA LeaveMaps ==
  ASSUME IInv, "dberror" \notin Faults, TypeOK', NEW w \in Workers, Complete(w) \/ Fail(w)
  PROVE  \E j \in JobIds : Q!Finish(j, w) \/ Q!Fail(j, w)
<1> TypeInv /\ TypeOK BY DEF IInv, TypeInv
<1> USE WorkerTypes
<1>1. PICK j \in JobIds : j = worker[w].job
  BY DEF Complete, Fail, Executing, TypeInv, RowsExist
<1>2. Executing(w) /\ ~Executing(w)' /\ \A v \in Workers \ {w} : worker'[v] = worker[v]
  BY DEF Complete, Fail, Settle, Executing, TypeOK
<1>3. /\ job[j] \in Row /\ job[j].status = "running"
      /\ job[j].attempts = worker[w].attempt /\ tries[j] = job[j].attempts
  BY <1>1, <1>2 DEF Complete, Fail, IInv, Held, HoldsRow, Charged, TypeOK
<1>4. Hands(j) = {w} BY <1>1, <1>2, OwnHands
<1>5. [i \in JobIds |-> Hands(i)'] = [[i \in JobIds |-> Hands(i)] EXCEPT ![j] = {}]
  BY <1>1, <1>2, HandsLeave
<1>6. tries' = tries BY DEF Complete, Fail
<1>7. CASE Complete(w)
  <2>1. Changes({j}, "completed")
    BY <1>1, <1>3, <1>7 DEF Complete, Completed, Changes, TypeOK, Row
  <2>2. Q!Becomes({j}, "completed") BY <2>1, ColumnsMap
  <2>3. Q!Finish(j, w) BY <1>3, <1>4, <1>5, <1>6, <2>2 DEF Hands, Q!Finish
  <2>4. QED BY <2>3
<1>8. CASE Fail(w)
  <2>0. PICK s : s = IF tries[j] < MaxAttempts THEN "queued" ELSE "dead_letter"
    OBVIOUS
  <2>1. job' = [job EXCEPT ![j] = Failed(job[j], tries[j])] BY <1>1, <1>3, <1>8 DEF Fail
  <2>2. job'[j].status = s BY <1>3, <2>0, <2>1 DEF Failed, TypeOK, Row
  <2>3. Changes({j}, s) BY <2>1, <2>2 DEF Changes, TypeOK
  <2>4. Q!Becomes({j}, s) BY <2>3, ColumnsMap
  <2>5. Q!Fail(j, w) BY <1>3, <1>4, <1>5, <1>6, <2>0, <2>4 DEF Hands, Q!Fail, Q!Becomes
  <2>6. QED BY <2>5
<1>9. QED BY <1>7, <1>8

LEMMA LoseMaps ==
  ASSUME IInv, TypeOK', NEW w \in Workers, Crash(w)
  PROVE  (\E j \in JobIds : Q!Lose(j, w)) \/ UNCHANGED Q!vars
<1> TypeInv /\ TypeOK BY DEF IInv, TypeInv
<1>1. ~Executing(w)' /\ \A v \in Workers \ {w} : worker'[v] = worker[v]
  BY DEF Crash, Executing, Down, TypeOK
<1>2. UNCHANGED <<job, tries>> BY DEF Crash
<1>3. CASE Executing(w)
  <2>1. PICK j \in JobIds : j = worker[w].job BY <1>3 DEF TypeInv, RowsExist
  <2>2. Hands(j) = {w} BY <1>3, <2>1, OwnHands
  <2>3. [i \in JobIds |-> Hands(i)'] = [[i \in JobIds |-> Hands(i)] EXCEPT ![j] = {}]
    BY <1>1, <1>3, <2>1, HandsLeave
  <2>4. Q!Lose(j, w) BY <1>2, <2>2, <2>3 DEF Hands, Q!Lose
  <2>5. QED BY <2>4
<1>4. CASE ~Executing(w)
  <2>1. SameHands BY <1>1, <1>4 DEF SameHands, Executing
  <2>2. QED BY <1>2, <2>1, StutterMaps
<1>5. QED BY <1>3, <1>4

\* The two sweeps: rows whose lease has run out are in nobody's hands.
LEMMA SweepMaps ==
  ASSUME IInv, "dberror" \notin Faults, TypeOK', NEW w \in Workers, Reset(w) \/ Bury(w)
  PROVE  \E S \in SUBSET JobIds : Q!Recover(S) \/ Q!GiveUp(S)
<1> TypeInv /\ TypeOK BY DEF IInv, TypeInv
<1>1. ~Executing(w) /\ ~Executing(w)' /\ \A v \in Workers \ {w} : worker'[v] = worker[v]
  BY DEF Reset, Bury, Goto, Executing, TypeOK, Worker
<1>2. \A j \in JobIds : Hands(j)' = Hands(j) BY <1>1 DEF Hands, Executing
<1>3. tries' = tries BY DEF Reset, Bury
<1>4. CASE Reset(w)
  <2>1. PICK S \in SUBSET JobIds :
          S = {j \in JobIds : job[j].status = "running" /\ job[j].lease = "past"}
    OBVIOUS
  <2>2. \A j \in S : job[j].status = "running" /\ Hands(j) = {}
    BY <2>1 DEF IInv, Held, HoldsRow, Hands
  <2>3. ASSUME NEW j \in JobIds PROVE job'[j].status = IF j \in S THEN "queued" ELSE job[j].status
    <3>1. job'[j] = ResetStale(job[j]) /\ job[j] \in Row BY <1>4 DEF Reset, TypeOK
    <3>2. QED BY <2>1, <3>1 DEF ResetStale, Row
  <2>4. Q!Becomes(S, "queued") BY <2>3, ColumnsMap DEF Changes
  <2>5. Q!Recover(S) BY <1>2, <1>3, <2>2, <2>4 DEF Hands, Q!Recover
  <2>6. QED BY <2>5
<1>5. CASE Bury(w)
  <2>1. PICK S \in SUBSET JobIds :
          S = {j \in JobIds : job[j].status = "queued" /\ job[j].attempts >= MaxAttempts}
    OBVIOUS
  <2>2. ASSUME NEW j \in S PROVE job[j].status = "queued" /\ tries[j] = MaxAttempts
    <3>1. tries[j] = job[j].attempts /\ job[j].attempts <= MaxAttempts
      BY DEF IInv, Charged, PoisonBounded
    <3>2. job[j].attempts \in Nat /\ job[j].attempts >= MaxAttempts
      BY <2>1 DEF TypeOK, Row
    <3>3. QED BY <2>1, <3>1, <3>2, ConstantsOK
  <2>3. ASSUME NEW j \in JobIds
        PROVE  job'[j].status = IF j \in S THEN "dead_letter" ELSE job[j].status
    <3>1. job'[j] = BuryExhausted(job[j]) /\ job[j] \in Row BY <1>5 DEF Bury, TypeOK
    <3>2. QED BY <2>1, <3>1 DEF BuryExhausted, Row
  <2>4. Q!Becomes(S, "dead_letter") BY <2>3, ColumnsMap DEF Changes
  <2>5. Q!GiveUp(S) BY <1>2, <1>3, <2>2, <2>4 DEF Hands, Q!GiveUp
  <2>6. QED BY <2>5
<1>6. QED BY <1>4, <1>5

\* An INSERT, behind a dedupe check or not.
LEMMA SubmitMaps ==
  ASSUME TypeOK, TypeOK', SameHands, NEW s \in Scopes, NEW due \in BOOLEAN, Insert(s, due)
  PROVE  \E j \in JobIds : Q!Submit(j)
<1>1. PICK j \in JobIds :
        /\ job[j].status = "absent"
        /\ job' = [job EXCEPT ![j] = [NoRow EXCEPT !.status = "queued", !.scope = s, !.due = due]]
        /\ tries' = [tries EXCEPT ![j] = 0]
  BY DEF Insert
<1>2. Changes({j}, "queued") BY <1>1 DEF Changes, NoRow, TypeOK
<1>3. Restarts({j}) BY <1>1 DEF Restarts, TypeOK
<1>4. Q!Becomes({j}, "queued") /\ Q!StartsAnew({j}) BY <1>2, <1>3, ColumnsMap
<1>5. \A i \in JobIds : Hands(i)' = Hands(i) BY ColumnsMap
<1>6. QED BY <1>1, <1>4, <1>5 DEF Hands, Q!Submit

LEMMA EnqueueMaps ==
  ASSUME TypeOK, TypeOK', SameHands, NEW s \in Scopes, NEW due \in BOOLEAN, NEW x,
         EnqueueLive(s, x, due)
  PROVE  (\E j \in JobIds : Q!Submit(j)) \/ UNCHANGED Q!vars
BY SubmitMaps, StutterMaps DEF EnqueueLive

\* A redelivery that revives the dead letters of its key, and an operator.
LEMMA ReviveMaps ==
  ASSUME TypeOK, TypeOK', UNCHANGED worker,
         NEW S \in SUBSET JobIds, \A j \in S : job[j].status = "dead_letter",
         \A j \in JobIds : job'[j] = IF j \in S THEN Requeued(job[j], TRUE) ELSE job[j],
         Restarts(S)
  PROVE  Q!Revive(S)
<1>1. ASSUME NEW j \in JobIds PROVE Requeued(job[j], TRUE).status = "queued"
  <2>1. job[j] \in Row BY DEF TypeOK
  <2>2. QED BY <2>1 DEF Requeued, Row
<1>2. Changes(S, "queued") BY <1>1 DEF Changes
<1>3. Q!Becomes(S, "queued") /\ Q!StartsAnew(S) BY <1>2, ColumnsMap
<1>4. UNCHANGED [j \in JobIds |-> Hands(j)] BY DEF Hands, Executing
<1>5. QED BY <1>3, <1>4 DEF Hands, Q!Revive

LEMMA PurgeMaps ==
  ASSUME TypeOK, TypeOK', NEW j \in JobIds, Prune(j) \/ Forget(j)
  PROVE  Q!Purge(j)
<1>1. Drop(j) /\ job[j].status \in {"completed", "dead_letter"} BY DEF Prune, Prunable, Forget
<1>2. Hands(j) = {} BY <1>1 DEF Drop, Hands
<1>3. Changes({j}, "absent") BY <1>1 DEF Drop, Changes, NoRow, TypeOK
<1>4. Restarts({j}) BY <1>1 DEF Drop, Restarts, TypeOK
<1>5. Q!Becomes({j}, "absent") /\ Q!StartsAnew({j}) BY <1>3, <1>4, ColumnsMap
<1>6. UNCHANGED [i \in JobIds |-> Hands(i)] BY <1>1 DEF Drop, Hands, Executing
<1>7. QED BY <1>1, <1>2, <1>5, <1>6 DEF Hands, Q!Purge

LEMMA WorkerMaps ==
  ASSUME IInv, "dberror" \notin Faults, TypeOK', NEW w \in Workers,
         WorkerStep(w) \/ PollError(w) \/ CompleteError(w) \/ Heartbeat(w) \/ Crash(w)
  PROVE  Q!Next \/ UNCHANGED Q!vars
<1> TypeInv /\ TypeOK BY DEF IInv, TypeInv
<1> USE WorkerTypes
<1>1. CASE Claim(w) BY <1>1, TakeMaps DEF Q!Next
<1>2. CASE Complete(w) \/ Fail(w) BY <1>2, LeaveMaps DEF Q!Next
<1>3. CASE Crash(w) BY <1>3, LoseMaps DEF Q!Next
<1>4. CASE Reset(w) \/ Bury(w) BY <1>4, SweepMaps DEF Q!Next
<1>5. ASSUME NEW s \in Chains, Seed(w, s) PROVE Q!Next \/ UNCHANGED Q!vars
  <2>1. worker' = [worker EXCEPT ![w].todo = @ \ {s}] BY <1>5 DEF Seed
  <2>2. SameHands BY <2>1 DEF SameHands, Executing, TypeOK, Worker
  <2>3. EnqueueLive(s, NoJob, TRUE) BY <1>5 DEF Seed
  <2>4. QED BY <2>2, <2>3, EnqueueMaps DEF Scopes, Q!Next
<1>6. CASE Resched(w)
  <2>1. PICK s, x : s = job[worker[w].job].scope /\ x = worker[w].job /\ s \in Scopes
    BY <1>6 DEF Resched, Executing, TypeInv, RowsExist
  <2>2. SameHands BY <1>6 DEF Resched, Goto, Outcome, SameHands, Executing, TypeOK, Worker
  <2>3. EnqueueLive(s, x, FALSE) BY <1>6, <2>1 DEF Resched
  <2>4. QED BY <2>1, <2>2, <2>3, EnqueueMaps DEF Q!Next
<1>7. CASE Start(w) \/ Seeded(w) \/ NothingToClaim(w)
  <2>1. ~Executing(w) /\ ~Executing(w)' /\ \A v \in Workers \ {w} : worker'[v] = worker[v]
    <3>1. CASE Start(w) BY <3>1 DEF Start, Executing, TypeOK, Down
    <3>2. CASE Seeded(w) BY <3>2 DEF Seeded, Goto, Executing, TypeOK, Worker
    <3>3. CASE NothingToClaim(w) BY <3>3 DEF NothingToClaim, Settle, Executing, TypeOK
    <3>4. QED BY <1>7, <3>1, <3>2, <3>3
  <2>2. SameHands BY <2>1 DEF SameHands, Executing
  <2>3. UNCHANGED <<job, tries>> BY <1>7 DEF Start, Seeded, NothingToClaim
  <2>4. QED BY <2>2, <2>3, StutterMaps
<1>8. ASSUME NEW threw \in BOOLEAN, Run(w, threw) PROVE UNCHANGED Q!vars
  <2>1. SameHands BY <1>8 DEF Run, Outcome, SameHands, Executing, TypeOK, Worker
  <2>2. QED BY <1>8, <2>1, StutterMaps DEF Run
<1>9. CASE Heartbeat(w)
  <2>1. SameHands BY <1>9 DEF Heartbeat, SameHands, Executing
  <2>2. \A j \in JobIds : job'[j].status = job[j].status BY <1>9 DEF Heartbeat, TypeOK, Row
  <2>3. QED BY <1>9, <2>1, <2>2, StutterMaps DEF Heartbeat
<1>10. ~PollError(w) /\ ~CompleteError(w) BY DEF PollError, CompleteError
<1>11. QED
  BY <1>1, <1>2, <1>3, <1>4, <1>5, <1>6, <1>7, <1>8, <1>9, <1>10 DEF WorkerStep

LEMMA OutsideMaps ==
  ASSUME TypeOK, TypeOK', Next,
         \A w \in Workers : ~(\/ WorkerStep(w) \/ PollError(w) \/ CompleteError(w)
                              \/ Heartbeat(w) \/ Crash(w))
  PROVE  Q!Next \/ UNCHANGED Q!vars
<1>0. UNCHANGED worker => SameHands BY DEF SameHands, Executing
<1>1. ASSUME NEW j \in JobIds, Prune(j) \/ Forget(j) PROVE Q!Next
  BY <1>1, PurgeMaps DEF Q!Next
<1>2. ASSUME NEW j \in JobIds, LeaseExpires(j) \/ BecomesDue(j) PROVE UNCHANGED Q!vars
  <2>1. \A i \in JobIds : job'[i].status = job[i].status
    BY <1>2 DEF LeaseExpires, BecomesDue, TypeOK, Row
  <2>2. QED BY <1>0, <1>2, <2>1, StutterMaps DEF LeaseExpires, BecomesDue
<1>3. ASSUME NEW c \in Callers, Revive(c) PROVE Q!Next
  <2>1. PICK S \in SUBSET JobIds : S = {j \in JobIds : Revivable(j, caller[c])}
    OBVIOUS
  <2>2. \A j \in S : job[j].status = "dead_letter" BY <2>1 DEF Revivable
  <2>3. Restarts(S) BY <1>3, <2>1 DEF Revive, Restarts
  <2>4. \A j \in JobIds : job'[j] = IF j \in S THEN Requeued(job[j], TRUE) ELSE job[j]
    BY <1>3, <2>1 DEF Revive
  <2>5. UNCHANGED worker BY <1>3 DEF Revive
  <2>6. Q!Revive(S) BY <2>2, <2>3, <2>4, <2>5, ReviveMaps
  <2>7. QED BY <2>6 DEF Q!Next
<1>4. ASSUME NEW c \in Callers, NEW k \in Keys, InsertKeyed(c, k)
      PROVE  Q!Next \/ UNCHANGED Q!vars
  <2>1. SameHands BY <1>0, <1>4 DEF InsertKeyed
  <2>2. CASE Insert(k, TRUE) BY <2>1, <2>2, SubmitMaps DEF Scopes, Q!Next
  <2>3. QED BY <1>4, <2>1, <2>2, StutterMaps DEF InsertKeyed
<1>5. ASSUME NEW s \in Scopes, NEW due \in BOOLEAN, EnqueuePlain(s, due) \/ EnqueueFromWeb(s, due)
      PROVE  Q!Next \/ UNCHANGED Q!vars
  <2>1. SameHands BY <1>0, <1>5 DEF EnqueuePlain, EnqueueFromWeb
  <2>2. QED BY <1>5, <2>1, SubmitMaps, EnqueueMaps DEF EnqueuePlain, EnqueueFromWeb, Q!Next
<1>6. ASSUME NEW a \in Admins, AdminRequeue(a) PROVE Q!Next \/ UNCHANGED Q!vars
  <2>1. CASE Requeueable(admin[a])
    <3>1. PICK j \in JobIds : j = admin[a] BY <1>6 DEF AdminRequeue, TypeOK
    <3>2. /\ job' = [job EXCEPT ![j] = Requeued(job[j], TRUE)]
          /\ tries' = [tries EXCEPT ![j] = 0] /\ UNCHANGED worker
      BY <1>6, <2>1, <3>1 DEF AdminRequeue
    <3>3. Restarts({j}) BY <3>2 DEF Restarts, TypeOK
    <3>4. \A i \in JobIds : job'[i] = IF i \in {j} THEN Requeued(job[i], TRUE) ELSE job[i]
      BY <3>2 DEF TypeOK
    <3>5. Q!Revive({j}) BY <2>1, <3>1, <3>2, <3>3, <3>4, ReviveMaps DEF Requeueable
    <3>6. QED BY <3>5 DEF Q!Next
  <2>2. CASE ~Requeueable(admin[a])
    BY <1>0, <1>6, <2>2, StutterMaps DEF AdminRequeue
  <2>3. QED BY <2>1, <2>2
<1>7. ASSUME NEW a \in Admins, NEW j \in JobIds, AdminSelect(a, j) PROVE UNCHANGED Q!vars
  BY <1>0, <1>7, StutterMaps DEF AdminSelect
<1>8. QED BY <1>1, <1>2, <1>3, <1>4, <1>5, <1>6, <1>7 DEF Next

\* Leases, heartbeats, sweeps, bounded claims and guarded requeues together
\* implement the queue of WorkQueue, for any number of processes that poll, die
\* and restart, if none is frozen past its lease and no commit is lost.
THEOREM ImplementsWorkQueue ==
  Leased /\ "dberror" \notin Faults => (Spec => RefinesWorkQueue)
<1> SUFFICES ASSUME Leased, "dberror" \notin Faults PROVE Spec => RefinesWorkQueue
  OBVIOUS
<1>1. Init => Q!Init
  <2> SUFFICES ASSUME Init PROVE Q!Init
    OBVIOUS
  <2>1. \A w \in Workers : ~Executing(w) BY DEF Init, Executing, Down
  <2>2. QED BY <2>1 DEF Init, Q!Init, NoRow
<1>2. IInv /\ IInv' /\ [Next]_vars => [Q!Next]_(Q!vars)
  <2> SUFFICES ASSUME IInv, IInv', [Next]_vars PROVE Q!Next \/ UNCHANGED Q!vars
    OBVIOUS
  <2>1. TypeOK /\ TypeOK' BY DEF IInv, TypeInv
  <2>2. CASE UNCHANGED vars
    <3>1. SameHands BY <2>2 DEF vars, SameHands, Executing
    <3>2. QED BY <2>1, <2>2, <3>1, StutterMaps DEF vars
  <2>3. CASE Next BY <2>1, <2>3, WorkerMaps, OutsideMaps
  <2>4. QED BY <2>2, <2>3
<1>3. QED BY <1>1, <1>2, Safety, PTL DEF Spec, RefinesWorkQueue, Q!Spec

=============================================================================
