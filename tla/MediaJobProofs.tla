--------------------------- MODULE MediaJobProofs ---------------------------
(***************************************************************************)
(* Theorems about MediaJob: for any number of workers, continuations,      *)
(* retries and faults, with and without cancellation.                      *)
(***************************************************************************)
EXTENDS MediaJob, FiniteSetTheorems, TLAPS

-----------------------------------------------------------------------------
(* The inductive invariant of the provider's side *)

\* The tasks that the job can follow: those not hidden behind an error answer.
Followed == tasks - hidden

\* A worker that has the submission in hand and knows of no task.
Submitting(w) ==
    \/ worker[w].pc \in {"execute", "submit"}
    \/ worker[w].pc \in {"settle", "record"} /\ worker[w].outcome = "rejected"

\* The submission is in one worker's hands, it is gone from the queue, and nobody
\* has it any more once there is a task to follow.
OneSubmission ==
    /\ Followed \in {0, 1}
    /\ Followed = 0 => task = "none"
    /\ record.status = "queued" => Followed = 0 /\ \A w \in Workers : ~Submitting(w)
    /\ \A w \in Workers : Submitting(w) => Followed = 0
    /\ \A v, w \in Workers : Submitting(v) /\ Submitting(w) => v = w

\* Nobody can start a task any more.
NoMoreTasks == record.status # "queued" /\ \A w \in Workers : ~Submitting(w)

\* Whoever has a reference has it from a task; an exception forgets the one that
\* the record keeps, and records nothing but 'unknown'.
RefsOK ==
    /\ record.ref \/ receipt = "accepted" => Followed = 1
    /\ \A w \in Workers :
          /\ worker[w].pc # "idle" /\ worker[w].ref => Followed = 1
          /\ worker[w].pc = "poll" => worker[w].ref
          /\ worker[w].pc = "settle" /\ worker[w].outcome = "accepted" => worker[w].ref
          /\ record.lease = w /\ record.ref /\ Working(w) =>
                /\ worker[w].pc \notin {"execute", "submit", "receipt"}
                /\ worker[w].ref \/ (worker[w].pc = "record" /\ worker[w].outcome = "unknown")
          /\ worker[w].pc \in {"settle", "record"} /\ worker[w].outcome = "refused" =>
                ~worker[w].ref

\* A record that was never tried has no worker and no task.
UntriedOK == ~record.tried => Followed = 0 /\ \A w \in Workers : ~Working(w)

\* An execution that holds the lease of a job in cancellation.
Cancelling(w) ==
    \/ worker[w].pc = "cancel"
    \/ /\ worker[w].pc \in {"settle", "record"}
       /\ worker[w].outcome \in {"pending", "unknown", "cancelled"}

\* While a worker is about to cancel, nothing but a cancellation is recorded; one
\* that found nothing to cancel, or has cancelled, has left no task behind.
CancelOK ==
    /\ \A w \in Workers :
          /\ worker[w].pc = "cancel" =>
                /\ record.status \in {"cancel_requested", "cancelled"}
                /\ ~worker[w].tried => Followed = 0 /\ NoMoreTasks
                /\ \A v \in Workers : record.lease = v /\ Working(v) => Cancelling(v)
          /\ worker[w].pc \in {"settle", "record"} /\ worker[w].outcome = "cancelled" =>
                task # "working" /\ NoMoreTasks
    /\ record.status = "cancelled" => task # "working" /\ NoMoreTasks

\* What a worker is about to record, and what is recorded, is what the task did.
ResultsOK ==
    /\ \A w \in Workers :
          /\ /\ worker[w].pc \in {"settle", "record"} /\ worker[w].outcome = "completed"
             /\ record.lease = w
             => task = "done"
          /\ worker[w].pc \in {"settle", "record"} /\ worker[w].outcome = "failed" =>
                Followed = 1 /\ task # "working"
    /\ record.status = "completed" => task = "done"
    /\ record.status = "failed" /\ record.ref => Followed = 1 /\ task # "working"

\* A receipt is stored of a submission that was accepted or lost.
ReceiptOK ==
    \A w \in Workers : worker[w].pc = "receipt" => worker[w].outcome \in {"pending", "unknown"}

\* What TaskInv says besides the types.
TaskParts == OneSubmission /\ RefsOK /\ UntriedOK /\ CancelOK /\ ResultsOK /\ ReceiptOK

TaskInv == TypeOK /\ TaskParts

-----------------------------------------------------------------------------
(* The inductive invariant of the generation ledger *)

\* No other worker can touch the ledger.
Alone(w) == \A v \in Workers \ {w} : ~Working(v)

\* What is recorded was settled first; only a job that nobody has tried is
\* cancelled without a settlement, and then there is nothing in the ledger and
\* nobody to write it.
LedgerOK ==
    /\ \A w \in Workers :
          /\ worker[w].pc = "record" /\ worker[w].outcome = "completed" => ledger = "completed"
          /\ worker[w].pc = "record" /\ worker[w].outcome \in {"failed", "refused"} =>
                ledger = "failed"
          /\ record.lease = w /\ worker[w].pc = "cancel" /\ ~worker[w].tried =>
                ledger = "none" /\ Alone(w)
          /\ record.lease = w /\ worker[w].pc = "record" /\ worker[w].outcome = "cancelled" =>
                ledger = "failed" \/ (ledger = "none" /\ Alone(w))
    /\ record.status = "completed" => ledger = "completed"
    /\ record.status = "failed" => ledger = "failed"
    /\ record.status = "cancelled" =>
          ledger = "failed" \/ (ledger = "none" /\ \A w \in Workers : ~Working(w))
    /\ ~record.tried => ledger = "none"

LedgerInv == TaskInv /\ LedgerOK

-----------------------------------------------------------------------------
(* The inductive invariant of the transports *)

\* A worker that will let its transport fail: by an exception, a rejection, or a lease
\* that is no longer its own.
Holds(w) == record.lease = w /\ record.live
Owes(w) ==
    \/ worker[w].pc \in {"threw", "retry"}
    \/ worker[w].pc \in {"settle", "record"} /\ worker[w].outcome = "rejected"
    \/ Working(w) /\ ~Holds(w)

Owing(n) == {w \in Workers : worker[w].seq = n /\ Owes(w)}

\* Nobody handles an active transport.
Orphaned(n) ==
    /\ transport[n].state = "active"
    /\ \A w \in Workers : worker[w].pc # "idle" => worker[w].seq # n

Debt(n) == transport[n].retries + Cardinality(Owing(n)) + (IF Orphaned(n) THEN 1 ELSE 0)

\* Every retry, used or still owed, had a fault of its own.
RetriesPaid == \A n \in Seqs : Debt(n) <= faults

\* A worker is at a transport that was written; it notifies of a terminal record only,
\* and lets go of its transport after that or after the continuation was written.
HandedOver(w) ==
    /\ worker[w].pc # "idle" => transport[worker[w].seq].state # "none"
    /\ worker[w].pc = "notify" => record.status \in Terminal
    /\ worker[w].pc \in {"defer", "receipt"} => worker[w].seq < MaxSeq
    /\ worker[w].pc \in {"settle", "record"} =>
          /\ worker[w].outcome # "none"
          /\ worker[w].outcome \in {"pending", "unknown"} => worker[w].seq < MaxSeq
    /\ worker[w].pc = "record" => worker[w].outcome # "accepted"
    /\ worker[w].pc = "finish" =>
          \/ record.status \in Terminal
          \/ worker[w].seq < MaxSeq /\ transport[worker[w].seq + 1].state # "none"

HandoverOK == \A w \in Workers : HandedOver(w)

\* Whoever closes the record gives up the lease, and nobody takes it again.
ClosedIsFree == record.status \in Terminal => record.lease = None

\* The latest transport carries an open record.
HeadCarries ==
    record.status \notin Terminal =>
        \E n \in Seqs : /\ transport[n].state \in {"ready", "active"}
                        /\ \A m \in Seqs : m > n => transport[m].state = "none"

\* What CarrierInv says of the transports.
CarrierParts == RetriesPaid /\ HandoverOK /\ ClosedIsFree /\ HeadCarries

CarrierInv == TaskInv /\ CarrierParts

-----------------------------------------------------------------------------
(* Types *)

Steps == {"idle", "reserve", "execute", "submit", "receipt", "reconcile", "poll", "cancel",
          "settle", "record", "defer", "notify", "retry", "threw", "finish"}

Others(w) == \A v \in Workers \ {w} : worker'[v] = worker[v]

\* The fields of record and workers, from the types of their rows.
LEMMA RowTypes ==
  ASSUME TypeOK
  PROVE  /\ record.ref \in BOOLEAN /\ record.live \in BOOLEAN /\ record.tried \in BOOLEAN
         /\ record.lease \in Workers \cup {None}
         /\ record.status \in {"queued", "running", "unknown", "cancel_requested"} \cup Terminal
         /\ \A w \in Workers :
               /\ worker[w] \in WorkerRows
               /\ worker[w].pc \in Steps /\ worker[w].seq \in Seqs
               /\ worker[w].tried \in BOOLEAN /\ worker[w].ref \in BOOLEAN
               /\ worker[w].closed \in BOOLEAN /\ worker[w].outcome \in Outcomes
         /\ \A n \in Seqs :
               /\ transport[n] \in TransportRows
               /\ transport[n].state \in {"none", "ready", "active", "done", "dead"}
               /\ transport[n].retries \in 0 .. RetryLimit
BY DEF TypeOK, RecordRows, WorkerRows, TransportRows, Steps

\* The idle row of a worker, field by field.
LEMMA IdleRow ==
  /\ Idle \in WorkerRows /\ 0 \in Seqs
  /\ Idle.pc = "idle" /\ Idle.ref = FALSE /\ Idle.tried = FALSE /\ Idle.outcome = "none"
<1>1. 0 \in Seqs
  BY JobAssumption DEF Seqs
<1> QED
  BY <1>1 DEF Idle, WorkerRows, Outcomes

\* A worker that only moves on.
LEMMA Went ==
  ASSUME TypeOK, NEW w \in Workers, NEW step \in Steps, Go(w, step)
  PROVE  /\ worker' \in [Workers -> WorkerRows] /\ Others(w)
         /\ worker'[w].pc = step /\ worker'[w].seq = worker[w].seq
         /\ worker'[w].ref = worker[w].ref /\ worker'[w].tried = worker[w].tried
         /\ worker'[w].outcome = worker[w].outcome
BY DEF TypeOK, Go, WorkerRows, Steps, Others

\* A worker that has an outcome.
LEMMA HasOutcome ==
  ASSUME TypeOK, NEW w \in Workers, NEW step \in Steps, NEW outcome \in Outcomes,
         Outcome(w, step, outcome)
  PROVE  /\ worker' \in [Workers -> WorkerRows] /\ Others(w)
         /\ worker'[w].pc = step /\ worker'[w].seq = worker[w].seq
         /\ worker'[w].ref = worker[w].ref /\ worker'[w].tried = worker[w].tried
         /\ worker'[w].outcome = outcome
BY DEF TypeOK, Outcome, WorkerRows, Steps, Others

\* A worker that learns about the task, or loses what it learned.
Learned(w, step, ref, outcome) ==
    worker' = [worker EXCEPT ![w].pc = step, ![w].ref = ref, ![w].outcome = outcome]

\* A worker that learns something writes its own row only.
LEMMA HasRef ==
  ASSUME TypeOK, NEW w \in Workers, NEW step \in Steps, NEW ref \in BOOLEAN,
         NEW outcome \in Outcomes, Learned(w, step, ref, outcome)
  PROVE  /\ worker' \in [Workers -> WorkerRows] /\ Others(w)
         /\ worker'[w].pc = step /\ worker'[w].seq = worker[w].seq
         /\ worker'[w].ref = ref /\ worker'[w].tried = worker[w].tried
         /\ worker'[w].outcome = outcome
<1> DEFINE row == [worker[w] EXCEPT !.pc = step, !.ref = ref, !.outcome = outcome]
<1>1. worker' = [worker EXCEPT ![w] = row]
  BY DEF TypeOK, Learned
<1>2. /\ row \in WorkerRows
      /\ row.pc = step /\ row.seq = worker[w].seq
      /\ row.tried = worker[w].tried /\ row.outcome = outcome
  BY RowTypes DEF WorkerRows, Steps
<1>3. row.ref = ref
  BY RowTypes DEF WorkerRows
<1> HIDE DEF row
<1>4. worker'[w] = row /\ worker' \in [Workers -> WorkerRows] /\ Others(w)
  BY <1>1, <1>2 DEF TypeOK, Others
<1> QED
  BY <1>2, <1>3, <1>4, Zenon

\* A worker that becomes idle writes its own row only.
LEMMA WentIdle ==
  ASSUME TypeOK, NEW w \in Workers, worker' = [worker EXCEPT ![w] = Idle]
  PROVE  /\ worker' \in [Workers -> WorkerRows] /\ Others(w)
         /\ worker'[w].pc = "idle" /\ worker'[w].ref = FALSE
BY IdleRow DEF TypeOK, Others

\* A worker that fetches a transport is about to reserve the record.
LEMMA Fetched ==
  ASSUME TypeOK, NEW w \in Workers, NEW n \in Seqs, fetch(w, n)
  PROVE  /\ worker' \in [Workers -> WorkerRows] /\ Others(w)
         /\ worker'[w].pc = "reserve" /\ worker'[w].seq = n /\ worker'[w].ref = FALSE
         /\ worker'[w].outcome = "none"
<1> DEFINE row == [Idle EXCEPT !.pc = "reserve", !.seq = n]
<1>1. /\ row \in WorkerRows
      /\ row.pc = "reserve" /\ row.seq = n /\ row.ref = FALSE /\ row.outcome = "none"
  BY IdleRow DEF WorkerRows, Idle
<1>2. worker' = [worker EXCEPT ![w] = row]
  BY DEF fetch
<1> HIDE DEF row
<1> QED
  BY <1>1, <1>2 DEF TypeOK, Others

\* The three ways on from reserve.
Deferred(w) ==
    /\ record.status \notin Terminal /\ Leased
    /\ MayDefer(w) /\ Go(w, "defer") /\ UNCHANGED record
Noticed(w) ==
    /\ record.status \in Terminal /\ UNCHANGED record
    /\ worker' = [worker EXCEPT ![w].pc = "notify", ![w].outcome = record.status]
Took(w) ==
    /\ record.status \notin Terminal /\ ~Leased
    /\ record' = [record EXCEPT !.status = IF Decision = "execute" THEN "running" ELSE @,
                                !.lease = w, !.live = TRUE, !.tried = TRUE]
    /\ worker' = [worker EXCEPT ![w].pc = Decision, ![w].tried = record.tried, ![w].ref = record.ref]

\* What reserving the record writes to the record and to the worker's row.
LEMMA TookRows ==
  ASSUME TypeOK, NEW w \in Workers, Took(w)
  PROVE  /\ worker' \in [Workers -> WorkerRows] /\ Others(w)
         /\ worker'[w].pc = Decision /\ worker'[w].seq = worker[w].seq
         /\ worker'[w].ref = record.ref /\ worker'[w].tried = record.tried
         /\ worker'[w].outcome = worker[w].outcome
         /\ record' \in RecordRows
         /\ record'.status = IF Decision = "execute" THEN "running" ELSE record.status
         /\ record'.lease = w /\ record'.live = TRUE /\ record'.tried = TRUE
         /\ record'.ref = record.ref
         /\ Decision \in {"execute", "cancel", "reconcile"}
         /\ Decision = "execute" <=> record.status = "queued"
         /\ Decision = "cancel" <=> record.status = "cancel_requested"
<1>1. /\ Decision \in {"execute", "cancel", "reconcile"}
      /\ Decision = "execute" <=> record.status = "queued"
      /\ Decision = "cancel" <=> record.status = "cancel_requested"
  BY DEF Decision
<1>2. /\ record' \in RecordRows
      /\ record'.status = IF Decision = "execute" THEN "running" ELSE record.status
      /\ record'.lease = w /\ record'.live = TRUE /\ record'.tried = TRUE
      /\ record'.ref = record.ref
  BY DEF Took, TypeOK, RecordRows
<1> DEFINE row == [worker[w] EXCEPT !.pc = Decision, !.tried = record.tried, !.ref = record.ref]
<1>3. worker' = [worker EXCEPT ![w] = row]
  BY DEF TypeOK, Took
<1>4. /\ row \in WorkerRows
      /\ row.pc = Decision /\ row.seq = worker[w].seq /\ row.ref = record.ref
      /\ row.tried = record.tried /\ row.outcome = worker[w].outcome
  BY <1>1, RowTypes DEF WorkerRows
<1> HIDE DEF row
<1> QED
  BY <1>1, <1>2, <1>3, <1>4 DEF TypeOK, Others

\* A worker that finds the record closed goes on to the notification.
LEMMA NoticedRows ==
  ASSUME TypeOK, NEW w \in Workers, Noticed(w)
  PROVE  /\ worker' \in [Workers -> WorkerRows] /\ Others(w)
         /\ worker'[w].pc = "notify" /\ worker'[w].seq = worker[w].seq
         /\ worker'[w].ref = worker[w].ref
<1> DEFINE row == [worker[w] EXCEPT !.pc = "notify", !.outcome = record.status]
<1>1. worker' = [worker EXCEPT ![w] = row]
  BY DEF TypeOK, Noticed
<1>2. /\ row \in WorkerRows
      /\ row.pc = "notify" /\ row.seq = worker[w].seq /\ row.ref = worker[w].ref
  BY RowTypes DEF Noticed, WorkerRows, Outcomes, Terminal
<1> HIDE DEF row
<1> QED
  BY <1>1, <1>2 DEF TypeOK, Others

\* What update leaves of a current record.
LEMMA UpdatedRows ==
  ASSUME TypeOK, NEW w \in Workers, update(w), Current(w)
  PROVE  /\ record' \in RecordRows
         /\ record'.status = StatusAfter(record.status, worker[w].outcome)
         /\ record'.ref = (record.ref \/ worker[w].ref)
         /\ record'.lease = None /\ record'.live = FALSE /\ record'.tried = record.tried
<1>1. StatusAfter(record.status, worker[w].outcome)
        \in {"queued", "running", "unknown", "cancel_requested"} \cup Terminal
  BY RowTypes DEF StatusAfter, Terminal
<1>2. record' = [record EXCEPT !.status = StatusAfter(record.status, worker[w].outcome),
                               !.ref = record.ref \/ worker[w].ref,
                               !.lease = None, !.live = FALSE]
  BY DEF update
<1> QED
  BY <1>1, <1>2, RowTypes DEF TypeOK, RecordRows

\* A worker whose submission got no answer.
LEMMA LostRows ==
  ASSUME TypeOK, NEW w \in Workers,
         worker' = [worker EXCEPT ![w].pc = "receipt", ![w].outcome = "unknown"]
  PROVE  /\ worker' \in [Workers -> WorkerRows] /\ Others(w)
         /\ worker'[w].pc = "receipt" /\ worker'[w].seq = worker[w].seq
         /\ worker'[w].ref = worker[w].ref /\ worker'[w].tried = worker[w].tried
         /\ worker'[w].outcome = "unknown"
BY DEF TypeOK, WorkerRows, Outcomes, Others

\* What a worker reads of the ledger, and how it goes on with a task that it knows
\* or that it has removed.
WasClosed == ledger \in Closed
Found(w, closed) == worker' = [worker EXCEPT ![w].pc = "poll", ![w].closed = closed]
Removed(w, closed) ==
    worker' = [worker EXCEPT ![w].pc = "settle", ![w].ref = TRUE, ![w].closed = closed,
                             ![w].outcome = "cancelled"]

\* A worker that knows its task goes on to poll it.
LEMMA FoundRows ==
  ASSUME TypeOK, NEW w \in Workers, NEW closed \in BOOLEAN, Found(w, closed)
  PROVE  /\ worker' \in [Workers -> WorkerRows] /\ Others(w)
         /\ worker'[w].pc = "poll" /\ worker'[w].seq = worker[w].seq
         /\ worker'[w].ref = worker[w].ref
<1> DEFINE row == [worker[w] EXCEPT !.pc = "poll", !.closed = closed]
<1>1. worker' = [worker EXCEPT ![w] = row]
  BY DEF TypeOK, Found
<1>2. /\ row \in WorkerRows
      /\ row.pc = "poll" /\ row.seq = worker[w].seq /\ row.ref = worker[w].ref
  BY RowTypes DEF WorkerRows
<1> HIDE DEF row
<1>3. worker'[w] = row /\ worker' \in [Workers -> WorkerRows] /\ Others(w)
  BY <1>1, <1>2 DEF TypeOK, Others
<1> QED
  BY <1>2, <1>3, Zenon

\* A worker that has removed its task goes on to settle that.
LEMMA RemovedRows ==
  ASSUME TypeOK, NEW w \in Workers, NEW closed \in BOOLEAN, Removed(w, closed)
  PROVE  /\ worker' \in [Workers -> WorkerRows] /\ Others(w)
         /\ worker'[w].pc = "settle" /\ worker'[w].seq = worker[w].seq
         /\ worker'[w].ref = TRUE /\ worker'[w].outcome = "cancelled"
<1> DEFINE row == [worker[w] EXCEPT !.pc = "settle", !.ref = TRUE, !.closed = closed,
                                    !.outcome = "cancelled"]
<1>1. worker' = [worker EXCEPT ![w] = row]
  BY DEF TypeOK, Removed
<1>2. /\ row \in WorkerRows
      /\ row.pc = "settle" /\ row.seq = worker[w].seq /\ row.outcome = "cancelled"
  BY RowTypes DEF WorkerRows, Outcomes
<1>3. row.ref = TRUE
  BY RowTypes DEF WorkerRows
<1> HIDE DEF row
<1>4. worker'[w] = row /\ worker' \in [Workers -> WorkerRows] /\ Others(w)
  BY <1>1, <1>2 DEF TypeOK, Others
<1> QED
  BY <1>2, <1>3, <1>4, Zenon

\* A fault is counted and the count stays within its bound.
LEMMA FaultCounts ==
  ASSUME TypeOK, Fault
  PROVE  faults' \in 0 .. MaxFaults /\ faults' = faults + 1
BY JobAssumption DEF TypeOK, Fault

\* The names that the steps below write.
LEMMA Names ==
  /\ \A x \in {"pending", "accepted", "unknown", "rejected", "refused", "completed",
               "failed", "cancelled"} : x \in Outcomes
  /\ \A x \in {"submit", "receipt", "poll", "settle", "record", "defer", "notify", "retry",
               "threw", "finish"} : x \in Steps
BY DEF Outcomes, Steps

\* The worker's row has its type, its transport is the same, the others stand still.
Stepped(w) ==
    /\ worker' \in [Workers -> WorkerRows] /\ Others(w)
    /\ worker'[w].seq = worker[w].seq

\* A step that may count a fault.
Counted == faults' \in 0 .. MaxFaults /\ faults' \in {faults, faults + 1}

Ledgers == {"none", "open", "unknown"} \cup Closed

\* The ledger has its type and a closed job is not written any more.
LedgerMoves == ledger' \in Ledgers /\ (ledger \in Closed => ledger' = ledger)

\* Without a fault the count stays within its bound, too.
LEMMA CountedIs ==
  ASSUME TypeOK, Fault \/ UNCHANGED faults
  PROVE  Counted
BY FaultCounts, JobAssumption DEF TypeOK, Counted

\* An exception forgets the reference and leaves 'unknown' to be recorded.
LEMMA ThrowsRows ==
  ASSUME TypeOK, NEW w \in Workers, Throws(w)
  PROVE  /\ Stepped(w) /\ worker'[w].pc = "record" /\ worker'[w].ref = FALSE
         /\ worker'[w].outcome = "unknown"
<1>1. Learned(w, "record", FALSE, "unknown")
  BY DEF Throws, Learned
<1> QED
  BY <1>1, Names, HasRef DEF Stepped

\* The result of an attempt is read, or its lack is settled as unknown.
LEMMA PendingMoves ==
  ASSUME TypeOK, recoverPending
  PROVE  LedgerMoves
BY DEF TypeOK, recoverPending, LedgerMoves, Ledgers, Closed

\* The checkpoint comes before the submission.
LEMMA CheckpointRows ==
  ASSUME TypeOK, NEW w \in Workers, checkpointAttempt(w)
  PROVE  /\ Stepped(w) /\ worker'[w].pc = "submit" /\ worker'[w].ref = worker[w].ref
         /\ LedgerMoves
<1>1. ledger' \in Ledgers /\ (ledger \in Closed => ledger' = ledger)
  BY DEF TypeOK, checkpointAttempt, Ledgers, Closed
<1> QED
  BY <1>1, Names, Went DEF checkpointAttempt, Stepped, LedgerMoves

\* A rejection is settled; a task behind it is one that nobody follows.
LEMMA RejectedRows ==
  ASSUME TypeOK, NEW w \in Workers, submitRejected(w)
  PROVE  /\ Stepped(w) /\ worker'[w].pc = "settle" /\ worker'[w].ref = worker[w].ref
         /\ worker'[w].outcome \in {"rejected", "refused"}
         /\ worker'[w].outcome = "rejected" => faults' = faults + 1
         /\ Counted /\ tasks' \in Nat /\ hidden' \in Nat /\ Followed' = Followed
<1>1. \/ Outcome(w, "settle", "rejected") /\ Fault
      \/ Outcome(w, "settle", "refused") /\ UNCHANGED faults
  BY DEF submitRejected
<1>2. /\ Stepped(w) /\ worker'[w].pc = "settle" /\ worker'[w].ref = worker[w].ref
      /\ \/ worker'[w].outcome = "rejected" /\ faults' = faults + 1
         \/ worker'[w].outcome = "refused"
  BY <1>1, Names, HasOutcome, FaultCounts DEF Stepped
<1>3. Counted
  BY <1>1, CountedIs
<1>4. tasks' \in Nat /\ hidden' \in Nat /\ Followed' = Followed
  BY DEF submitRejected, TypeOK, Followed
<1> QED
  BY <1>2, <1>3, <1>4

\* A receipt that is stored keeps the outcome, one that is not makes it unknown.
LEMMA ReceiptRows ==
  ASSUME TypeOK, ReceiptOK, NEW w \in Workers, putReceipt(w)
  PROVE  /\ Stepped(w) /\ worker'[w].pc = "settle"
         /\ worker'[w].outcome \in {"pending", "unknown"}
         /\ worker'[w].ref => worker[w].ref
         /\ receipt' \in {"none", "accepted", "unknown"} /\ Counted
<1>1. worker[w].outcome \in {"pending", "unknown"} /\ worker[w].ref \in BOOLEAN
  BY RowTypes DEF putReceipt, ReceiptOK
<1>2. Go(w, "settle") \/ Learned(w, "settle", FALSE, "unknown")
  BY DEF putReceipt, Learned
<1>3. /\ Stepped(w) /\ worker'[w].pc = "settle"
      /\ worker'[w].outcome \in {"pending", "unknown"}
      /\ worker'[w].ref => worker[w].ref
  <2>1. CASE Go(w, "settle")
    BY <1>1, <2>1, Names, Went DEF Stepped
  <2>2. CASE Learned(w, "settle", FALSE, "unknown")
    BY <2>2, Names, HasRef DEF Stepped
  <2> QED
    BY <1>2, <2>1, <2>2
<1>4. receipt' \in {"none", "accepted", "unknown"}
  BY DEF putReceipt, TypeOK
<1>5. Counted
  BY CountedIs DEF putReceipt
<1> QED
  BY <1>3, <1>4, <1>5

\* The ways on from recover.
LEMMA RecoverRows ==
  ASSUME TypeOK, NEW w \in Workers, recover(w)
  PROVE  /\ Stepped(w) /\ Counted /\ LedgerMoves
         /\ \/ worker'[w].pc = "poll" /\ worker[w].ref /\ worker'[w].ref
            \/ /\ worker'[w].pc = "settle" /\ worker'[w].outcome = "accepted"
               /\ receipt = "accepted" /\ worker'[w].ref
            \/ /\ worker'[w].pc = "settle" /\ ~worker[w].ref /\ ~worker'[w].ref
               /\ \/ worker'[w].outcome = "unknown" /\ worker[w].seq < MaxSeq
                  \/ worker'[w].outcome = "refused"
<1>1. Counted
  BY CountedIs DEF recover
<1>2. LedgerMoves
  BY PendingMoves DEF recover, TypeOK, LedgerMoves, Ledgers
<1>c. WasClosed \in BOOLEAN
  BY DEF WasClosed
<1>3. CASE worker[w].ref /\ Found(w, WasClosed)
  BY <1>1, <1>2, <1>3, <1>c, FoundRows DEF Stepped
<1>4. CASE receipt = "accepted" /\ Learned(w, "settle", TRUE, "accepted")
  BY <1>1, <1>2, <1>4, Names, HasRef DEF Stepped
<1>5. CASE ~worker[w].ref /\ MayDefer(w) /\ Outcome(w, "settle", "unknown")
  BY <1>1, <1>2, <1>5, Names, HasOutcome DEF Stepped, MayDefer
<1>6. CASE ~worker[w].ref /\ Outcome(w, "settle", "refused")
  BY <1>1, <1>2, <1>6, Names, HasOutcome DEF Stepped
<1> QED
  BY <1>3, <1>4, <1>5, <1>6 DEF recover, Learned, Found, WasClosed

\* The ways on from poll.
LEMMA PollRows ==
  ASSUME TypeOK, NEW w \in Workers, poll(w)
  PROVE  /\ Stepped(w) /\ Counted
         /\ \/ /\ worker'[w].pc = "record" /\ worker'[w].outcome \in {"pending", "unknown"}
               /\ worker'[w].ref = worker[w].ref \/ (worker'[w].outcome = "unknown" /\ ~worker'[w].ref)
               /\ worker[w].seq < MaxSeq
            \/ /\ worker'[w].pc = "settle" /\ worker'[w].ref = worker[w].ref
               /\ \/ worker'[w].outcome = "failed" /\ task # "working"
                  \/ worker'[w].outcome = "completed" /\ task = "done"
<1>1. Counted
  BY CountedIs DEF poll
<1>2. CASE MayDefer(w) /\ \E outcome \in {"pending", "unknown"} : Outcome(w, "record", outcome)
  BY <1>1, <1>2, Names, HasOutcome DEF Stepped, MayDefer
<1>3. CASE MayDefer(w) /\ Throws(w)
  BY <1>1, <1>3, ThrowsRows DEF MayDefer
<1>4. CASE task # "working" /\ Outcome(w, "settle", "failed")
  BY <1>1, <1>4, Names, HasOutcome DEF Stepped
<1>5. CASE task = "done" /\ Outcome(w, "settle", "completed")
  BY <1>1, <1>5, Names, HasOutcome DEF Stepped
<1> QED
  BY <1>2, <1>3, <1>4, <1>5 DEF poll, TaskFailed

\* The ways on from cancelTask.
LEMMA CancelRows ==
  ASSUME TypeOK, NEW w \in Workers, cancelTask(w)
  PROVE  /\ Stepped(w) /\ Counted /\ LedgerMoves
         /\ \/ /\ worker'[w].pc = "record" /\ worker'[w].outcome = "cancelled"
               /\ NeverTried(w) /\ worker'[w].ref = worker[w].ref /\ UNCHANGED <<task, ledger>>
            \/ /\ worker'[w].pc = "record" /\ worker'[w].outcome = "unknown"
               /\ ~worker'[w].ref /\ worker[w].seq < MaxSeq /\ UNCHANGED task
            \/ /\ worker'[w].pc = "settle" /\ worker'[w].outcome = "cancelled"
               /\ Findable(w) /\ worker'[w].ref /\ task' = "removed"
            \/ /\ worker'[w].pc = "record" /\ worker'[w].outcome = "pending"
               /\ Findable(w) /\ worker'[w].ref /\ worker[w].seq < MaxSeq /\ UNCHANGED task
<1>1. Counted
  BY CountedIs DEF cancelTask
<1>2. LedgerMoves
  BY PendingMoves DEF cancelTask, TypeOK, LedgerMoves, Ledgers
<1>3. CASE NeverTried(w) /\ Outcome(w, "record", "cancelled") /\ UNCHANGED <<task, ledger>>
  BY <1>1, <1>2, <1>3, Names, HasOutcome DEF Stepped
<1>4. CASE MayDefer(w) /\ Throws(w) /\ UNCHANGED task
  BY <1>1, <1>2, <1>4, ThrowsRows DEF MayDefer
<1>c. WasClosed \in BOOLEAN
  BY DEF WasClosed
<1>5. CASE Findable(w) /\ task' = "removed" /\ Removed(w, WasClosed)
  BY <1>1, <1>2, <1>5, <1>c, RemovedRows DEF Stepped
<1>6. CASE Findable(w) /\ MayDefer(w) /\ Learned(w, "record", TRUE, "pending") /\ UNCHANGED task
  BY <1>1, <1>2, <1>6, Names, HasRef DEF Stepped, MayDefer
<1> QED
  BY <1>3, <1>4, <1>5, <1>6 DEF cancelTask, Learned, Removed, WasClosed

\* The ways on from settle: what is settled goes on, what is refused is an exception.
LEMMA SettleRows ==
  ASSUME TypeOK, NEW w \in Workers, settle(w)
  PROVE  /\ Stepped(w) /\ Counted /\ LedgerMoves
         /\ \/ /\ worker'[w].pc = IF worker[w].outcome = "accepted" THEN "poll" ELSE "record"
               /\ worker'[w].ref = worker[w].ref /\ worker'[w].outcome = worker[w].outcome
               /\ ledger' = LedgerAfter(worker[w].outcome)
            \/ /\ worker'[w].pc = "record" /\ worker'[w].outcome = "unknown"
               /\ ~worker'[w].ref /\ worker[w].seq < MaxSeq
<1> DEFINE outcome == worker[w].outcome
<1>1. Counted
  BY CountedIs DEF settle
<1>2. LedgerAfter(outcome) \in Ledgers
  BY DEF LedgerAfter, Ledgers, Closed
<1>3. Settles(outcome) => ledger \notin Closed
  BY DEF Settles, Closed
<1>4. LedgerMoves
  BY <1>2, <1>3 DEF settle, TypeOK, LedgerMoves, Ledgers
<1>5. CASE Go(w, IF outcome = "accepted" THEN "poll" ELSE "record") /\ ledger' = LedgerAfter(outcome)
  BY <1>1, <1>4, <1>5, Names, Went DEF Stepped
<1>6. CASE MayDefer(w) /\ Throws(w)
  BY <1>1, <1>4, <1>6, ThrowsRows DEF MayDefer
<1> QED
  BY <1>5, <1>6 DEF settle

States == {"none", "ready", "active", "done", "dead"}

OtherTransports(n) == \A m \in Seqs \ {n} : transport'[m] = transport[m]

\* Setting the state of a transport leaves the others alone.
LEMMA StateSet ==
  ASSUME TypeOK, NEW n \in Seqs, NEW state \in States,
         transport' = [transport EXCEPT ![n].state = state]
  PROVE  /\ transport' \in [Seqs -> TransportRows] /\ OtherTransports(n)
         /\ transport'[n].state = state /\ transport'[n].retries = transport[n].retries
BY DEF TypeOK, States, TransportRows, OtherTransports

\* An active transport that fails is retried, or dead after its last retry.
LEMMA FailRows ==
  ASSUME TypeOK, NEW n \in Seqs, FailTransport(n)
  PROVE  /\ transport' \in [Seqs -> TransportRows] /\ OtherTransports(n)
         /\ transport[n].state # "active" => transport'[n] = transport[n]
         /\ transport[n].state = "active" /\ transport[n].retries < RetryLimit =>
               transport'[n].state = "ready" /\ transport'[n].retries = transport[n].retries + 1
         /\ transport[n].state = "active" /\ ~(transport[n].retries < RetryLimit) =>
               transport'[n].state = "dead" /\ transport'[n].retries = transport[n].retries
<1> DEFINE old == transport[n]
           row == IF old.state # "active" THEN old
                  ELSE IF old.retries < RetryLimit
                  THEN [state |-> "ready", retries |-> old.retries + 1]
                  ELSE [old EXCEPT !.state = "dead"]
<1>1. transport' = [transport EXCEPT ![n] = row]
  BY DEF FailTransport
<1>2. old \in TransportRows /\ old.retries \in 0 .. RetryLimit
  BY RowTypes
<1>3. /\ row \in TransportRows
      /\ old.state = "active" /\ old.retries < RetryLimit =>
            row.state = "ready" /\ row.retries = old.retries + 1
      /\ old.state = "active" /\ ~(old.retries < RetryLimit) =>
            row.state = "dead" /\ row.retries = old.retries
      /\ old.state # "active" => row = old
  <2> HIDE DEF old
  <2> QED
    BY <1>2, JobAssumption DEF TransportRows
<1> HIDE DEF row
<1> QED
  BY <1>1, <1>3 DEF TypeOK, OtherTransports

\* Only an active transport is finished.
LEMMA FinishRows ==
  ASSUME TypeOK, NEW n \in Seqs, NEW state \in {"done", "dead"}, FinishTransport(n, state)
  PROVE  /\ transport' \in [Seqs -> TransportRows] /\ OtherTransports(n)
         /\ transport'[n].retries = transport[n].retries
         /\ transport'[n].state = IF transport[n].state = "active" THEN state
                                  ELSE transport[n].state
<1> DEFINE s == IF transport[n].state = "active" THEN state ELSE transport[n].state
<1>1. transport' = [transport EXCEPT ![n].state = s]
  BY DEF FinishTransport
<1>2. s \in States
  BY RowTypes DEF States
<1> HIDE DEF s
<1>3. /\ transport' \in [Seqs -> TransportRows] /\ OtherTransports(n)
      /\ transport'[n].state = s /\ transport'[n].retries = transport[n].retries
  BY <1>1, <1>2, StateSet
<1> QED
  BY <1>3 DEF s

\* The first alternative of enqueueContinuation.
Continued(w) ==
    /\ transport' = [transport EXCEPT ![NextSeq(w)].state = IF @ = "none" THEN "ready" ELSE @]
    /\ Go(w, "finish")
    /\ UNCHANGED faults

\* A continuation enqueues the next transport unless it is there already.
LEMMA ContinuedRows ==
  ASSUME TypeOK, NEW w \in Workers, Continued(w), worker[w].seq < MaxSeq
  PROVE  /\ NextSeq(w) \in Seqs
         /\ transport' \in [Seqs -> TransportRows] /\ OtherTransports(NextSeq(w))
         /\ transport'[NextSeq(w)].retries = transport[NextSeq(w)].retries
         /\ transport'[NextSeq(w)].state =
               IF transport[NextSeq(w)].state = "none" THEN "ready"
               ELSE transport[NextSeq(w)].state
<1>1. NextSeq(w) \in Seqs
  BY RowTypes, JobAssumption DEF NextSeq, Seqs
<1> DEFINE n == NextSeq(w)
           s == IF transport[n].state = "none" THEN "ready" ELSE transport[n].state
<1>2. transport' = [transport EXCEPT ![n].state = s]
  BY DEF Continued
<1> HIDE DEF n
<1>n. n \in Seqs
  BY <1>1 DEF n
<1>3. s \in States
  BY RowTypes, <1>n DEF States
<1> HIDE DEF s
<1>4. /\ transport' \in [Seqs -> TransportRows] /\ OtherTransports(n)
      /\ transport'[n].state = s /\ transport'[n].retries = transport[n].retries
  BY <1>n, <1>2, <1>3, StateSet
<1> QED
  BY <1>1, <1>4 DEF s, n

\* A continuation keeps the type of the transports.
LEMMA EnqueueTypes ==
  ASSUME TypeOK, NEW w \in Workers, Continued(w)
  PROVE  transport' \in [Seqs -> TransportRows]
<1> DEFINE n == NextSeq(w)
           s == IF transport[n].state = "none" THEN "ready" ELSE transport[n].state
<1>1. transport' = [transport EXCEPT ![n].state = s]
  BY DEF Continued
<1> HIDE DEF n, s
<1>2. CASE n \notin Seqs
  BY <1>1, <1>2 DEF TypeOK
<1>3. CASE n \in Seqs
  <2>1. s \in States
    BY <1>3, RowTypes DEF s, States
  <2> QED
    BY <1>1, <1>3, <2>1, StateSet
<1> QED
  BY <1>2, <1>3

\* The steps of a handler keep the types.
LEMMA HandleTypes ==
  ASSUME TypeOK, NEW w \in Workers, Handle(w) \/ submitLost(w)
  PROVE  TypeOK'
<1> USE DEF provider
<1>1. CASE reserve(w)
  <2>1. CASE Noticed(w)
    BY <1>1, <2>1, NoticedRows DEF reserve, TypeOK, Noticed
  <2>2. CASE Deferred(w)
    BY <1>1, <2>2, Names, Went DEF reserve, TypeOK, Deferred
  <2>3. CASE Took(w)
    BY <1>1, <2>3, TookRows DEF reserve, TypeOK
  <2> QED
    BY <1>1, <2>1, <2>2, <2>3 DEF reserve, Noticed, Deferred, Took
<1>2. CASE checkpointAttempt(w)
  <2>1. worker' \in [Workers -> WorkerRows] /\ ledger' \in Ledgers
    BY <1>2, CheckpointRows DEF Stepped, LedgerMoves
  <2> QED
    BY <1>2, <2>1 DEF checkpointAttempt, TypeOK, Ledgers
<1>3. CASE submitAccepted(w)
  <2>1. Learned(w, "receipt", TRUE, "pending")
    BY <1>3 DEF submitAccepted, Learned
  <2>2. worker' \in [Workers -> WorkerRows]
    BY <2>1, Names, HasRef
  <2> QED
    BY <1>3, <2>2 DEF submitAccepted, TypeOK
<1>4. CASE submitRejected(w)
  <2>1. worker' \in [Workers -> WorkerRows] /\ faults' \in 0 .. MaxFaults
        /\ tasks' \in Nat /\ hidden' \in Nat
    BY <1>4, RejectedRows DEF Stepped, Counted
  <2> QED
    BY <1>4, <2>1 DEF submitRejected, TypeOK
<1>5. CASE putReceipt(w)
  <2>1. worker' \in [Workers -> WorkerRows]
    BY <1>5, Names, Went, HasRef DEF putReceipt, Learned
  <2>2. faults' \in 0 .. MaxFaults
    BY <1>5, FaultCounts DEF putReceipt, TypeOK
  <2>3. receipt' \in {"none", "accepted", "unknown"}
    BY <1>5 DEF putReceipt, TypeOK
  <2> QED
    BY <1>5, <2>1, <2>2, <2>3 DEF putReceipt, TypeOK
<1>6. CASE recover(w)
  <2>1. worker' \in [Workers -> WorkerRows] /\ faults' \in 0 .. MaxFaults /\ ledger' \in Ledgers
    BY <1>6, RecoverRows DEF Stepped, Counted, LedgerMoves
  <2> QED
    BY <1>6, <2>1 DEF recover, TypeOK, Ledgers
<1>7. CASE poll(w)
  <2>1. worker' \in [Workers -> WorkerRows] /\ faults' \in 0 .. MaxFaults
    BY <1>7, PollRows DEF Stepped, Counted
  <2> QED
    BY <1>7, <2>1 DEF poll, TypeOK
<1>15. CASE cancelTask(w)
  <2>1. worker' \in [Workers -> WorkerRows] /\ faults' \in 0 .. MaxFaults /\ ledger' \in Ledgers
        /\ task' \in {task, "removed"}
    BY <1>15, CancelRows DEF Stepped, Counted, LedgerMoves
  <2> QED
    BY <1>15, <2>1 DEF cancelTask, TypeOK, Ledgers
<1>16. CASE settle(w)
  <2>1. worker' \in [Workers -> WorkerRows] /\ faults' \in 0 .. MaxFaults /\ ledger' \in Ledgers
    BY <1>16, SettleRows DEF Stepped, Counted, LedgerMoves
  <2> QED
    BY <1>16, <2>1 DEF settle, TypeOK, Ledgers
<1>8. CASE update(w)
  <2>1. AfterRecord(worker[w].outcome) \in Steps
    BY Names DEF AfterRecord
  <2>2. worker' \in [Workers -> WorkerRows]
    BY <1>8, Names, <2>1, Went DEF update
  <2>3. record' \in RecordRows
    BY <1>8, UpdatedRows DEF update, TypeOK
  <2> QED
    BY <1>8, <2>2, <2>3 DEF update, TypeOK
<1>9. CASE enqueueContinuation(w)
  <2>1. worker' \in [Workers -> WorkerRows]
    BY <1>9, Names, Went DEF enqueueContinuation
  <2>2. faults' \in 0 .. MaxFaults
    BY <1>9, FaultCounts DEF enqueueContinuation, TypeOK
  <2>3. transport' \in [Seqs -> TransportRows]
    BY <1>9, EnqueueTypes DEF enqueueContinuation, TypeOK, Continued
  <2> QED
    BY <1>9, <2>1, <2>2, <2>3 DEF enqueueContinuation, TypeOK
<1>10. CASE notifyTerminal(w)
  <2>1. worker' \in [Workers -> WorkerRows]
    BY <1>10, Names, Went DEF notifyTerminal
  <2>2. faults' \in 0 .. MaxFaults
    BY <1>10, FaultCounts DEF notifyTerminal, TypeOK
  <2>3. told' \subseteq {"completed", "failed"}
    BY <1>10 DEF notifyTerminal, Said, TypeOK
  <2> QED
    BY <1>10, <2>1, <2>2, <2>3 DEF notifyTerminal, TypeOK
<1>11. CASE threw(w)
  <2>1. worker' \in [Workers -> WorkerRows]
    BY <1>11, Names, Went DEF threw
  <2>2. told' \subseteq {"completed", "failed"}
    BY <1>11 DEF threw, TypeOK
  <2> QED
    BY <1>11, <2>1, <2>2 DEF threw, TypeOK
<1>12. CASE failTransport(w)
  BY <1>12, WentIdle, FailRows, RowTypes DEF failTransport, TypeOK
<1>13. CASE finishTransport(w)
  BY <1>13, WentIdle, FinishRows, RowTypes DEF finishTransport, TypeOK
<1>14. CASE submitLost(w)
  <2>1. worker' \in [Workers -> WorkerRows]
    BY <1>14, LostRows DEF submitLost
  <2>2. faults' \in 0 .. MaxFaults
    BY <1>14, FaultCounts DEF submitLost, TypeOK
  <2> QED
    BY <1>14, <2>1, <2>2 DEF submitLost, TypeOK
<1> QED
  BY <1>1, <1>2, <1>3, <1>4, <1>5, <1>6, <1>7, <1>8, <1>9, <1>10, <1>11, <1>12, <1>13, <1>14,
     <1>15, <1>16
     DEF Handle

\* The steps around the handlers keep the types.
LEMMA WorldTypes ==
  ASSUME TypeOK,
         \/ \E w \in Workers : crash(w) \/ \E n \in Seqs : fetch(w, n)
         \/ \E n \in Seqs : transportExpires(n)
         \/ requestCancel \/ taskEnds \/ leaseExpires
  PROVE  TypeOK'
<1> USE DEF provider
<1>1. CASE \E w \in Workers : crash(w)
  BY <1>1, WentIdle, FaultCounts DEF crash, TypeOK
<1>2. CASE \E w \in Workers : \E n \in Seqs : fetch(w, n)
  <2>1. PICK w \in Workers, n \in Seqs : fetch(w, n)
    BY <1>2
  <2>2. transport' \in [Seqs -> TransportRows]
    BY <2>1, StateSet DEF fetch, States
  <2> QED
    BY <2>1, <2>2, Fetched DEF fetch, TypeOK
<1>3. CASE \E n \in Seqs : transportExpires(n)
  BY <1>3, FailRows, FaultCounts DEF transportExpires, TypeOK
<1>4. CASE requestCancel
  BY <1>4 DEF requestCancel, TypeOK, RecordRows
<1>5. CASE taskEnds
  BY <1>5 DEF taskEnds, TypeOK
<1>6. CASE leaseExpires
  <2>1. record' \in RecordRows
    BY <1>6 DEF leaseExpires, TypeOK, RecordRows
  <2> QED
    BY <1>6, <2>1, FaultCounts DEF leaseExpires, TypeOK
<1> QED
  BY <1>1, <1>2, <1>3, <1>4, <1>5, <1>6

\* Every step keeps the types.
LEMMA TypeStep == TypeOK /\ [Next]_vars => TypeOK'
<1> SUFFICES ASSUME TypeOK, [Next]_vars PROVE TypeOK'
  OBVIOUS
<1>1. CASE UNCHANGED vars
  BY <1>1 DEF TypeOK, vars
<1>2. CASE Next
  BY <1>2, HandleTypes, WorldTypes DEF Next
<1> QED
  BY <1>1, <1>2

\* The types hold at the start.
LEMMA InitType == Init => TypeOK
<1> SUFFICES ASSUME Init PROVE TypeOK
  OBVIOUS
<1>1. record \in RecordRows
  BY DEF Init, RecordRows
<1>2. transport \in [Seqs -> TransportRows]
  BY JobAssumption DEF Init, TransportRows
<1>3. worker \in [Workers -> WorkerRows]
  BY IdleRow DEF Init
<1> QED
  BY <1>1, <1>2, <1>3, JobAssumption DEF Init, TypeOK

-----------------------------------------------------------------------------
(* The provider's side is kept *)

\* A step of w is no step of the others.
LEMMA Kin ==
  ASSUME NEW w \in Workers, Others(w)
  PROVE  \A v \in Workers \ {w} :
            /\ worker'[v] = worker[v]
            /\ Submitting(v)' <=> Submitting(v)
            /\ Working(v)' <=> Working(v)
            /\ Cancelling(v)' <=> Cancelling(v)
BY DEF Others, Submitting, Working, Cancelling

\* A worker that is done with its execution, or never had one, can do no harm.
LEMMA Leaves ==
  ASSUME TaskInv, NEW w \in Workers, Others(w), UNCHANGED <<record, task, Followed, receipt>>,
         worker'[w].pc \in {"idle", "reserve", "defer", "notify", "retry", "threw", "finish"},
         worker'[w].pc # "idle" /\ worker'[w].ref => worker[w].pc # "idle" /\ worker[w].ref
  PROVE  TaskParts'
<1>1. ~Submitting(w)' /\ ~Working(w)' /\ ~Cancelling(w)'
  BY DEF Submitting, Working, Cancelling
<1>3. OneSubmission'
  BY <1>1, Kin DEF TaskInv, TaskParts, OneSubmission
<1>4. RefsOK'
  BY <1>1, Kin DEF TaskInv, TaskParts, RefsOK
<1>5. UntriedOK'
  BY <1>1, Kin DEF TaskInv, TaskParts, UntriedOK
<1>6. NoMoreTasks => NoMoreTasks'
  BY <1>1, Kin DEF NoMoreTasks
<1>7. CancelOK'
  BY <1>1, Kin, <1>6 DEF TaskInv, TaskParts, CancelOK
<1>8. ResultsOK'
  BY Kin DEF TaskInv, TaskParts, ResultsOK
<1>9. ReceiptOK'
  BY Kin DEF TaskInv, TaskParts, ReceiptOK
<1> QED
  BY <1>3, <1>4, <1>5, <1>7, <1>8, <1>9 DEF TaskParts

\* A worker takes the lease: it submits only what is queued, which nobody else submits,
\* and cancels without a look at the provider only what was never tried.
LEMMA TookKeeps ==
  ASSUME TaskInv, NEW w \in Workers, worker[w].pc = "reserve", Took(w),
         UNCHANGED <<task, Followed, receipt>>
  PROVE  TaskParts'
<1>1. ~Submitting(w) /\ ~Working(w) /\ record.status \notin Terminal
  BY DEF Submitting, Working, Took
<1>2. /\ worker'[w].pc = Decision
      /\ worker'[w].ref = record.ref /\ worker'[w].tried = record.tried
      /\ record'.status = IF Decision = "execute" THEN "running" ELSE record.status
      /\ record'.lease = w /\ record'.tried = TRUE /\ record'.ref = record.ref
      /\ Decision \in {"execute", "cancel", "reconcile"}
      /\ Decision = "execute" <=> record.status = "queued"
      /\ Decision = "cancel" <=> record.status = "cancel_requested"
      /\ Others(w)
  BY TookRows DEF TaskInv
<1>3. /\ Submitting(w)' <=> record.status = "queued"
      /\ Cancelling(w)' <=> record.status = "cancel_requested"
  BY <1>2 DEF Submitting, Cancelling
<1>4. OneSubmission'
  BY <1>1, <1>2, <1>3, Kin DEF TaskInv, TaskParts, OneSubmission
<1>5. record.ref => record.status # "queued"
  BY RowTypes DEF TaskInv, TaskParts, RefsOK, OneSubmission
<1>6. RefsOK'
  BY <1>2, <1>5, Kin DEF TaskInv, TaskParts, RefsOK
<1>7. UntriedOK'
  BY <1>2 DEF UntriedOK
<1>8. NoMoreTasks => NoMoreTasks'
  BY <1>1, <1>2, <1>3, Kin DEF NoMoreTasks
<1>9. record.status # "queued" /\ ~record.tried => Followed = 0 /\ NoMoreTasks
  BY DEF TaskInv, TaskParts, UntriedOK, NoMoreTasks, Working, Submitting
<1>10. CancelOK'
  <2>1. ASSUME NEW v \in Workers, (worker[v].pc = "cancel")'
        PROVE  /\ record'.status \in {"cancel_requested", "cancelled"}
               /\ ~worker'[v].tried => Followed' = 0 /\ NoMoreTasks'
               /\ \A u \in Workers : record'.lease = u /\ Working(u)' => Cancelling(u)'
    <3>1. record.status = "cancel_requested"
      BY <1>1, <1>2, <2>1, Kin DEF TaskInv, TaskParts, CancelOK, Terminal
    <3>2. ~worker'[v].tried => Followed = 0 /\ NoMoreTasks
      BY <1>2, <1>9, <2>1, <3>1, Kin DEF TaskInv, TaskParts, CancelOK
    <3> QED
      BY <1>2, <1>3, <1>8, <3>1, <3>2
  <2>2. ASSUME NEW v \in Workers,
               (worker[v].pc \in {"settle", "record"} /\ worker[v].outcome = "cancelled")'
        PROVE  task' # "working" /\ NoMoreTasks'
    BY <1>2, <1>8, <2>2, Kin DEF TaskInv, TaskParts, CancelOK
  <2>3. record'.status # "cancelled"
    BY <1>1, <1>2 DEF Terminal
  <2> QED
    BY <2>1, <2>2, <2>3 DEF CancelOK
<1>11. ResultsOK'
  BY <1>1, <1>2, Kin DEF TaskInv, TaskParts, ResultsOK, Terminal
<1>12. ReceiptOK'
  BY <1>2, Kin DEF TaskInv, TaskParts, ReceiptOK
<1> QED
  BY <1>4, <1>6, <1>7, <1>10, <1>11, <1>12 DEF TaskParts

\* A submission leaves the worker's hands, with a task or with none.
LEMMA SubmitKeeps ==
  ASSUME TaskInv, NEW w \in Workers, worker[w].pc = "submit", Others(w),
         UNCHANGED <<record, receipt>>,
         worker'[w].pc = "receipt", worker'[w].outcome \in {"pending", "unknown"},
         \/ task' = "working" /\ Followed' = Followed + 1
         \/ UNCHANGED <<task, Followed>> /\ worker'[w].ref = worker[w].ref
  PROVE  TaskParts'
<1>1. Submitting(w) /\ Working(w) /\ ~Cancelling(w)
  BY DEF Submitting, Working, Cancelling
<1>2. ~Submitting(w)' /\ Working(w)'
  BY DEF Submitting, Working
<1>3. /\ Followed = 0 /\ task = "none" /\ record.status # "queued"
      /\ \A v \in Workers \ {w} : ~Submitting(v)
  BY <1>1 DEF TaskInv, TaskParts, OneSubmission
<1>4. ~record.ref /\ ~worker[w].ref /\ record.tried
  BY <1>1, <1>3 DEF TaskInv, TaskParts, RefsOK, UntriedOK
<1>5. Followed' \in {0, 1} /\ (Followed' = 0 => task' = "none")
  BY <1>3
<1>6. OneSubmission'
  BY <1>2, <1>3, <1>5, Kin DEF OneSubmission
<1>7. RefsOK'
  <2>1. Followed' = Followed \/ Followed' = 1
    BY <1>3
  <2>2. (receipt = "accepted" => Followed' = 1) /\ ~record'.ref
    BY <1>3, <1>4, <2>1 DEF TaskInv, TaskParts, RefsOK
  <2>3. \A v \in Workers : worker'[v].pc # "idle" /\ worker'[v].ref => Followed' = 1
    BY <1>3, <1>4, <2>1, Kin DEF TaskInv, TaskParts, RefsOK
  <2>4. \A v \in Workers :
          /\ worker'[v].pc = "poll" => worker'[v].ref
          /\ worker'[v].pc = "settle" /\ worker'[v].outcome = "accepted" => worker'[v].ref
          /\ worker'[v].pc \in {"settle", "record"} /\ worker'[v].outcome = "refused" =>
                ~worker'[v].ref
    BY Kin DEF TaskInv, TaskParts, RefsOK
  <2> QED
    BY <2>2, <2>3, <2>4 DEF RefsOK
<1>8. UntriedOK'
  BY <1>4 DEF UntriedOK
<1>9. ~NoMoreTasks
  BY <1>1 DEF NoMoreTasks
<1>10. CancelOK'
  <2>1. ASSUME NEW v \in Workers, worker[v].pc = "cancel"
        PROVE  worker[v].tried /\ record.lease # w
    BY <1>1, <1>9, <2>1, RowTypes DEF TaskInv, TaskParts, CancelOK
  <2>2. \A v \in Workers :
          ~(worker[v].pc \in {"settle", "record"} /\ worker[v].outcome = "cancelled")
    BY <1>9 DEF TaskInv, TaskParts, CancelOK
  <2>3. record.status # "cancelled"
    BY <1>9 DEF TaskInv, TaskParts, CancelOK
  <2> QED
    BY <2>1, <2>2, <2>3, Kin DEF TaskInv, TaskParts, CancelOK
<1>11. ResultsOK'
  BY <1>3, Kin DEF TaskInv, TaskParts, ResultsOK
<1>12. ReceiptOK'
  BY Kin DEF TaskInv, TaskParts, ReceiptOK
<1> QED
  BY <1>6, <1>7, <1>8, <1>10, <1>11, <1>12 DEF TaskParts

\* A worker that executes or reconciles learns more about the task, or has an outcome.
LEMMA PondersKeeps ==
  ASSUME TaskInv, NEW w \in Workers, Others(w), UNCHANGED <<record, task, Followed>>,
         worker[w].pc \in {"execute", "submit", "receipt", "reconcile", "poll", "settle"},
         worker'[w].pc \in {"submit", "poll", "settle", "record"},
         receipt' = "accepted" => Followed = 1,
         worker'[w].ref => Followed = 1,
         Submitting(w)' => Submitting(w),
         Cancelling(w) => Cancelling(w)',
         worker'[w].pc = "submit" => worker[w].pc = "execute",
         worker'[w].pc = "poll" => worker'[w].ref,
         worker[w].pc \in {"reconcile", "poll", "settle"} /\ worker[w].ref =>
            worker'[w].ref \/ (worker'[w].pc = "record" /\ worker'[w].outcome = "unknown"),
         worker'[w].pc = "settle" /\ worker'[w].outcome = "accepted" => worker'[w].ref,
         worker'[w].pc \in {"settle", "record"} =>
            /\ worker'[w].outcome = "refused" => ~worker'[w].ref
            /\ worker'[w].outcome = "cancelled" =>
                  worker[w].pc = "settle" /\ worker[w].outcome = "cancelled"
            /\ worker'[w].outcome = "completed" =>
                  \/ task = "done"
                  \/ worker[w].pc = "settle" /\ worker[w].outcome = "completed"
            /\ worker'[w].outcome = "failed" => Followed = 1 /\ task # "working"
  PROVE  TaskParts'
<1>1. Working(w) /\ Working(w)'
  BY DEF Working
<1>3. OneSubmission'
  BY Kin DEF TaskInv, TaskParts, OneSubmission
<1>4. record.lease = w /\ record.ref =>
        /\ worker'[w].pc # "submit"
        /\ worker'[w].ref \/ (worker'[w].pc = "record" /\ worker'[w].outcome = "unknown")
  BY <1>1 DEF TaskInv, TaskParts, RefsOK
<1>5. RefsOK'
  BY <1>4, Kin DEF TaskInv, TaskParts, RefsOK
<1>6. UntriedOK'
  BY <1>1, Kin DEF TaskInv, TaskParts, UntriedOK
<1>7. NoMoreTasks => NoMoreTasks'
  BY Kin DEF NoMoreTasks
<1>8. CancelOK'
  BY <1>1, <1>7, Kin DEF TaskInv, TaskParts, CancelOK
<1>9. ResultsOK'
  BY Kin DEF TaskInv, TaskParts, ResultsOK
<1>10. ReceiptOK'
  BY Kin DEF TaskInv, TaskParts, ReceiptOK
<1> QED
  BY <1>3, <1>5, <1>6, <1>8, <1>9, <1>10 DEF TaskParts

\* Whoever cancels does so for a record that only a cancellation can close, and leaves
\* no task at work when it says it has.
LEMMA CancelKeeps ==
  ASSUME TaskInv, NEW w \in Workers, Others(w), UNCHANGED <<record, Followed, receipt>>,
         worker[w].pc = "cancel", worker'[w].pc \in {"settle", "record"},
         task' \in {task, "removed"}, task' # task => Followed = 1,
         worker'[w].ref => Followed = 1,
         worker[w].ref =>
            worker'[w].ref \/ (worker'[w].pc = "record" /\ worker'[w].outcome = "unknown"),
         worker'[w].outcome \in {"pending", "unknown", "cancelled"},
         worker'[w].outcome = "cancelled" => task' # "working" /\ NoMoreTasks
  PROVE  TaskParts'
<1>1. Working(w) /\ Working(w)' /\ Cancelling(w)' /\ ~Submitting(w)'
  BY DEF Working, Cancelling, Submitting
<1>2. /\ record.status \in {"cancel_requested", "cancelled"}
      /\ \A v \in Workers : record.lease = v /\ Working(v) => Cancelling(v)
  BY DEF TaskInv, TaskParts, CancelOK
<1>3. OneSubmission'
  BY <1>1, Kin DEF TaskInv, TaskParts, OneSubmission
<1>4. RefsOK'
  BY <1>1, Kin DEF TaskInv, TaskParts, RefsOK
<1>5. UntriedOK'
  BY <1>1, Kin DEF TaskInv, TaskParts, UntriedOK
<1>6. NoMoreTasks => NoMoreTasks'
  BY <1>1, Kin DEF NoMoreTasks
<1>7. CancelOK'
  BY <1>1, <1>6, Kin DEF TaskInv, TaskParts, CancelOK
<1>8. \A v \in Workers : record.lease = v =>
        ~(worker[v].pc \in {"settle", "record"} /\ worker[v].outcome = "completed")
  BY <1>2 DEF Working, Cancelling
<1>9. ResultsOK'
  BY <1>2, <1>8, Kin DEF TaskInv, TaskParts, ResultsOK
<1>10. ReceiptOK'
  BY Kin DEF TaskInv, TaskParts, ReceiptOK
<1> QED
  BY <1>3, <1>4, <1>5, <1>7, <1>9, <1>10 DEF TaskParts

\* The outcome of the worker that holds the lease is recorded.
LEMMA UpdateKeeps ==
  ASSUME TaskInv, NEW w \in Workers, update(w), Current(w)
  PROVE  TaskParts'
<1> DEFINE outcome == worker[w].outcome
<1>1. /\ record.lease = w /\ record.status \notin Terminal /\ worker[w].pc = "record"
      /\ UNCHANGED <<task, Followed, receipt>>
  BY DEF update, Current, provider, Followed
<1>2. /\ record'.status = StatusAfter(record.status, outcome)
      /\ record'.ref = (record.ref \/ worker[w].ref)
      /\ record'.lease = None /\ record'.tried = record.tried
  BY UpdatedRows DEF TaskInv
<1>3. AfterRecord(outcome) \in {"defer", "retry", "notify"} /\ Go(w, AfterRecord(outcome))
  BY DEF AfterRecord, update
<1>4. /\ Others(w) /\ worker'[w].pc \in {"defer", "retry", "notify"}
      /\ worker'[w].ref = worker[w].ref
  BY <1>3, Went DEF Steps, TaskInv
<1>5. ~Submitting(w)' /\ ~Working(w)' /\ Working(w)
  BY <1>1, <1>4 DEF Submitting, Working
<1>6. /\ record'.status = "queued" => Submitting(w)
      /\ record'.status = "cancelled" => outcome = "cancelled"
      /\ record'.status = "completed" => outcome = "completed"
      /\ record'.status = "failed" => outcome \in {"failed", "refused"}
      /\ record.status = "cancel_requested" /\ Cancelling(w) =>
            record'.status \in {"cancel_requested", "cancelled"}
  BY <1>1, <1>2 DEF StatusAfter, Terminal, Submitting, Cancelling
<1> HIDE DEF outcome
<1>7. None \notin Workers
  BY JobAssumption
<1>8. OneSubmission'
  BY <1>1, <1>5, <1>6, <1>4, Kin DEF TaskInv, TaskParts, OneSubmission
<1>9. record'.ref => Followed = 1
  BY <1>1, <1>2 DEF TaskInv, TaskParts, RefsOK
<1>10. RefsOK'
  BY <1>1, <1>2, <1>4, <1>7, <1>9, Kin DEF TaskInv, TaskParts, RefsOK
<1>11. UntriedOK'
  BY <1>1, <1>2, <1>4, <1>5, Kin DEF TaskInv, TaskParts, UntriedOK
<1>12. NoMoreTasks => NoMoreTasks'
  BY <1>4, <1>5, <1>6, Kin DEF NoMoreTasks
<1>13. CancelOK'
  <2>1. ASSUME NEW v \in Workers, worker'[v].pc = "cancel"
        PROVE  /\ record'.status \in {"cancel_requested", "cancelled"}
               /\ ~worker'[v].tried => Followed' = 0 /\ NoMoreTasks'
    <3>1. v # w /\ worker[v] = worker'[v]
      BY <1>4, <2>1, Kin
    <3>2. record.status = "cancel_requested" /\ Cancelling(w)
      BY <1>1, <1>5, <2>1, <3>1 DEF TaskInv, TaskParts, CancelOK, Terminal
    <3> QED
      BY <1>1, <1>6, <1>12, <2>1, <3>1, <3>2 DEF TaskInv, TaskParts, CancelOK
  <2>2. ASSUME NEW v \in Workers, worker'[v].pc \in {"settle", "record"},
               worker'[v].outcome = "cancelled"
        PROVE  task' # "working" /\ NoMoreTasks'
    BY <1>1, <1>4, <1>12, <2>2, Kin DEF TaskInv, TaskParts, CancelOK
  <2>3. record'.status = "cancelled" => task' # "working" /\ NoMoreTasks'
    BY <1>1, <1>6, <1>12 DEF TaskInv, TaskParts, CancelOK, outcome
  <2> QED
    BY <1>2, <1>7, <2>1, <2>2, <2>3 DEF CancelOK
<1>14. ResultsOK'
  <2>1. record'.status = "completed" => task' = "done"
    BY <1>1, <1>6 DEF TaskInv, TaskParts, ResultsOK, outcome
  <2>2. record'.status = "failed" /\ record'.ref => Followed' = 1 /\ task' # "working"
    <3>1. record.ref => worker[w].ref \/ outcome = "unknown"
      BY <1>1, <1>5 DEF outcome, TaskInv, TaskParts, RefsOK
    <3>2. outcome = "refused" => ~worker[w].ref
      BY <1>1 DEF TaskInv, TaskParts, RefsOK, outcome
    <3>3. outcome = "failed" => Followed = 1 /\ task # "working"
      BY <1>1 DEF TaskInv, TaskParts, ResultsOK, outcome
    <3> QED
      BY <1>1, <1>2, <1>6, <3>1, <3>2, <3>3
  <2> QED
    BY <1>1, <1>2, <1>4, <1>7, <2>1, <2>2, Kin DEF TaskInv, TaskParts, ResultsOK
<1>15. ReceiptOK'
  BY <1>4, Kin DEF TaskInv, TaskParts, ReceiptOK
<1> QED
  BY <1>8, <1>10, <1>11, <1>13, <1>14, <1>15 DEF TaskParts

\* Steps of the world: a cancellation, the end of the task, the end of a lease.
LEMMA WorldKeeps ==
  ASSUME TaskInv, UNCHANGED <<worker, Followed, receipt>>,
         \/ requestCancel
         \/ taskEnds
         \/ leaseExpires
         \/ UNCHANGED <<record, task>>
  PROVE  TaskParts'
<1>1. \A v \in Workers :
        /\ Submitting(v)' <=> Submitting(v)
        /\ Working(v)' <=> Working(v)
        /\ Cancelling(v)' <=> Cancelling(v)
  BY DEF Submitting, Working, Cancelling
<1>2. CASE requestCancel
  <2>1. /\ record'.status = "cancel_requested" /\ record'.ref = record.ref
        /\ record'.lease = record.lease /\ record'.tried = record.tried
        /\ record.status \notin Terminal /\ UNCHANGED task
    BY <1>2, RowTypes DEF requestCancel, provider, TaskInv, TypeOK, RecordRows
  <2>2. NoMoreTasks => NoMoreTasks'
    BY <1>1, <2>1 DEF NoMoreTasks
  <2>3. OneSubmission' /\ RefsOK' /\ UntriedOK'
    BY <1>1, <2>1 DEF TaskInv, TaskParts, OneSubmission, RefsOK, UntriedOK
  <2>4. CancelOK'
    BY <1>1, <2>1, <2>2 DEF TaskInv, TaskParts, CancelOK
  <2> QED
    BY <1>1, <2>1, <2>3, <2>4 DEF TaskInv, TaskParts, ResultsOK, ReceiptOK
<1>3. CASE taskEnds
  <2>1. task = "working" /\ task' \in {"done", "failed"} /\ UNCHANGED record
    BY <1>3 DEF taskEnds
  <2>2. NoMoreTasks => NoMoreTasks'
    BY <1>1, <2>1 DEF NoMoreTasks
  <2>3. OneSubmission' /\ RefsOK' /\ UntriedOK'
    BY <1>1, <2>1 DEF TaskInv, TaskParts, OneSubmission, RefsOK, UntriedOK
  <2>4. CancelOK'
    BY <1>1, <2>1, <2>2 DEF TaskInv, TaskParts, CancelOK
  <2> QED
    BY <1>1, <2>1, <2>3, <2>4 DEF TaskInv, TaskParts, ResultsOK, ReceiptOK
<1>4. CASE leaseExpires \/ UNCHANGED <<record, task>>
  <2>1. /\ record'.status = record.status /\ record'.ref = record.ref
        /\ record'.lease = record.lease /\ record'.tried = record.tried /\ UNCHANGED task
    BY <1>4 DEF leaseExpires, provider, TaskInv, TypeOK, RecordRows
  <2>2. NoMoreTasks => NoMoreTasks'
    BY <1>1, <2>1 DEF NoMoreTasks
  <2>3. OneSubmission' /\ RefsOK' /\ UntriedOK'
    BY <1>1, <2>1 DEF TaskInv, TaskParts, OneSubmission, RefsOK, UntriedOK
  <2>4. CancelOK'
    BY <1>1, <2>1, <2>2 DEF TaskInv, TaskParts, CancelOK
  <2> QED
    BY <1>1, <2>1, <2>3, <2>4 DEF TaskInv, TaskParts, ResultsOK, ReceiptOK
<1> QED
  BY <1>2, <1>3, <1>4

\* The steps of a handler keep what is said of the provider's side.
LEMMA HandleKeeps ==
  ASSUME TaskInv, NEW w \in Workers, Handle(w) \/ submitLost(w)
  PROVE  TaskParts'
<1> TypeOK /\ tasks \in Nat /\ hidden \in Nat
  BY DEF TaskInv, TypeOK
<1>r. worker[w].pc # "idle" /\ worker[w].ref => Followed = 1
  BY DEF TaskInv, TaskParts, RefsOK
<1>a. receipt = "accepted" => Followed = 1
  BY DEF TaskInv, TaskParts, RefsOK
<1>b. worker[w].ref \in BOOLEAN
  BY RowTypes
<1>c. worker[w].pc \in {"submit", "receipt", "reconcile", "poll", "execute"} => ~Cancelling(w)
  BY DEF Cancelling
<1>1. CASE reserve(w)
  <2>0. worker[w].pc = "reserve" /\ UNCHANGED <<task, Followed, receipt>>
    BY <1>1 DEF reserve, provider, Followed
  <2>1. CASE Noticed(w)
    <3>1. UNCHANGED record
      BY <2>1 DEF Noticed
    <3> QED
      BY <2>0, <2>1, <3>1, NoticedRows, Leaves
  <2>2. CASE Deferred(w)
    <3>1. UNCHANGED record /\ Go(w, "defer")
      BY <2>2 DEF Deferred
    <3>2. /\ Others(w) /\ worker'[w].pc = "defer" /\ worker'[w].ref = worker[w].ref
      BY <3>1, Names, Went
    <3> QED
      BY <2>0, <3>1, <3>2, Leaves
  <2>3. CASE Took(w)
    BY <2>0, <2>3, TookKeeps
  <2> QED
    BY <1>1, <2>1, <2>2, <2>3 DEF reserve, Noticed, Deferred, Took
<1>2. CASE checkpointAttempt(w)
  <2>0. worker[w].pc = "execute" /\ UNCHANGED <<record, task, Followed, receipt>>
    BY <1>2 DEF checkpointAttempt, Followed
  <2>1. Others(w) /\ worker'[w].pc = "submit" /\ worker'[w].ref = worker[w].ref
    BY <1>2, CheckpointRows DEF Stepped
  <2>2. Submitting(w)
    BY <2>0 DEF Submitting
  <2> QED
    BY <2>0, <2>1, <2>2, <1>r, <1>a, <1>c, PondersKeeps
<1>3. CASE submitAccepted(w)
  <2>1. Learned(w, "receipt", TRUE, "pending")
    BY <1>3 DEF submitAccepted, Learned
  <2>2. Others(w) /\ worker'[w].pc = "receipt" /\ worker'[w].outcome = "pending"
    BY <2>1, Names, HasRef
  <2>3. /\ worker[w].pc = "submit" /\ UNCHANGED <<record, receipt>>
        /\ task' = "working" /\ Followed' = Followed + 1
    BY <1>3 DEF submitAccepted, Followed
  <2> QED
    BY <2>2, <2>3, SubmitKeeps
<1>4. CASE submitRejected(w)
  <2>0. worker[w].pc = "submit" /\ UNCHANGED <<record, task, receipt>>
    BY <1>4 DEF submitRejected
  <2>1. /\ Others(w) /\ worker'[w].pc = "settle" /\ worker'[w].ref = worker[w].ref
        /\ worker'[w].outcome \in {"rejected", "refused"} /\ Followed' = Followed
    BY <1>4, RejectedRows DEF Stepped
  <2>2. Submitting(w)
    BY <2>0 DEF Submitting
  <2>3. ~worker[w].ref
    BY <2>0, <2>2, <1>r DEF TaskInv, TaskParts, OneSubmission
  <2> QED
    BY <2>0, <2>1, <2>2, <2>3, <1>a, <1>c, PondersKeeps
<1>5. CASE putReceipt(w)
  <2>0. worker[w].pc = "receipt" /\ UNCHANGED <<record, task, Followed>>
    BY <1>5 DEF putReceipt, Followed
  <2>1. receipt' = "accepted" => Followed = 1
    BY <1>5, <1>r, <1>a, <2>0 DEF putReceipt
  <2>2. /\ Others(w) /\ worker'[w].pc = "settle"
        /\ worker'[w].outcome \in {"pending", "unknown"}
        /\ worker'[w].ref => worker[w].ref
    BY <1>5, ReceiptRows DEF TaskInv, TaskParts, Stepped
  <2>3. ~Submitting(w)'
    BY <2>2 DEF Submitting
  <2> QED
    BY <2>0, <2>1, <2>2, <2>3, <1>r, <1>c, PondersKeeps
<1>6. CASE recover(w)
  <2>0. worker[w].pc = "reconcile" /\ UNCHANGED <<record, task, Followed, receipt>>
    BY <1>6 DEF recover, Followed
  <2>1. /\ Others(w)
        /\ \/ worker'[w].pc = "poll" /\ worker[w].ref /\ worker'[w].ref
           \/ /\ worker'[w].pc = "settle" /\ worker'[w].outcome = "accepted"
              /\ receipt = "accepted" /\ worker'[w].ref
           \/ /\ worker'[w].pc = "settle" /\ ~worker[w].ref /\ ~worker'[w].ref
              /\ worker'[w].outcome \in {"unknown", "refused"}
    BY <1>6, RecoverRows DEF Stepped
  <2>2. ~Submitting(w)'
    BY <2>1 DEF Submitting
  <2>3. worker'[w].ref => Followed = 1
    BY <2>0, <2>1, <1>r, <1>a
  <2> QED
    BY <2>0, <2>1, <2>2, <2>3, <1>a, <1>c, PondersKeeps
<1>7. CASE poll(w)
  <2>0. worker[w].pc = "poll" /\ UNCHANGED <<record, task, Followed, receipt>>
    BY <1>7 DEF poll, provider, Followed
  <2>1. /\ Others(w)
        /\ \/ /\ worker'[w].pc = "record" /\ worker'[w].outcome \in {"pending", "unknown"}
              /\ \/ worker'[w].ref = worker[w].ref
                 \/ worker'[w].outcome = "unknown" /\ ~worker'[w].ref
           \/ /\ worker'[w].pc = "settle" /\ worker'[w].ref = worker[w].ref
              /\ \/ worker'[w].outcome = "failed" /\ task # "working"
                 \/ worker'[w].outcome = "completed" /\ task = "done"
    BY <1>7, PollRows DEF Stepped
  <2>2. worker[w].ref /\ Followed = 1
    BY <2>0, <1>r DEF TaskInv, TaskParts, RefsOK
  <2>3. ~Submitting(w)'
    BY <2>1 DEF Submitting
  <2> QED
    BY <2>0, <2>1, <2>2, <2>3, <1>c, PondersKeeps
<1>12. CASE cancelTask(w)
  <2>0. worker[w].pc = "cancel" /\ UNCHANGED <<record, Followed, receipt>>
    BY <1>12 DEF cancelTask, Followed
  <2>1. Findable(w) => Followed = 1
    BY <2>0, <1>r, <1>a DEF Findable
  <2>2. Followed = 1 => NoMoreTasks
    BY DEF TaskInv, TaskParts, OneSubmission, NoMoreTasks
  <2>3. NeverTried(w) => task = "none" /\ NoMoreTasks
    BY <2>0 DEF NeverTried, TaskInv, TaskParts, CancelOK, OneSubmission
  <2>4. /\ Others(w)
        /\ \/ /\ worker'[w].pc = "record" /\ worker'[w].outcome = "cancelled"
              /\ NeverTried(w) /\ worker'[w].ref = worker[w].ref /\ UNCHANGED task
           \/ /\ worker'[w].pc = "record" /\ worker'[w].outcome = "unknown"
              /\ ~worker'[w].ref /\ UNCHANGED task
           \/ /\ worker'[w].pc = "settle" /\ worker'[w].outcome = "cancelled"
              /\ Findable(w) /\ worker'[w].ref /\ task' = "removed"
           \/ /\ worker'[w].pc = "record" /\ worker'[w].outcome = "pending"
              /\ Findable(w) /\ worker'[w].ref /\ UNCHANGED task
    BY <1>12, CancelRows DEF Stepped
  <2> QED
    BY <2>0, <2>1, <2>2, <2>3, <2>4, <1>r, CancelKeeps
<1>13. CASE settle(w)
  <2>0. worker[w].pc = "settle" /\ UNCHANGED <<record, task, Followed, receipt>>
    BY <1>13 DEF settle, Followed
  <2>1. /\ Others(w)
        /\ \/ /\ worker'[w].pc = IF worker[w].outcome = "accepted" THEN "poll" ELSE "record"
              /\ worker'[w].ref = worker[w].ref /\ worker'[w].outcome = worker[w].outcome
           \/ /\ worker'[w].pc = "record" /\ worker'[w].outcome = "unknown"
              /\ ~worker'[w].ref
    BY <1>13, SettleRows DEF Stepped
  <2>2. /\ Submitting(w)' => Submitting(w)
        /\ Cancelling(w) => Cancelling(w)'
    BY <2>0, <2>1 DEF Submitting, Cancelling
  <2>3. /\ worker[w].outcome = "accepted" => worker[w].ref
        /\ worker[w].outcome = "refused" => ~worker[w].ref
        /\ worker[w].outcome = "failed" => Followed = 1 /\ task # "working"
    BY <2>0 DEF TaskInv, TaskParts, RefsOK, ResultsOK
  <2> QED
    BY <2>0, <2>1, <2>2, <2>3, <1>r, <1>a, PondersKeeps
<1>8. CASE update(w)
  <2>1. CASE Current(w)
    BY <1>8, <2>1, UpdateKeeps
  <2>2. CASE ~Current(w)
    <3>1. Go(w, "threw") /\ UNCHANGED <<record, task, Followed, receipt>> /\ worker[w].pc = "record"
      BY <1>8, <2>2 DEF update, provider, Followed
    <3>2. Others(w) /\ worker'[w].pc = "threw" /\ worker'[w].ref = worker[w].ref
      BY <3>1, Names, Went
    <3> QED
      BY <3>1, <3>2, Leaves
  <2> QED
    BY <2>1, <2>2
<1>9. CASE enqueueContinuation(w) \/ notifyTerminal(w) \/ threw(w)
  <2>1. PICK step \in {"finish", "threw", "retry"} : Go(w, step)
    BY <1>9 DEF enqueueContinuation, notifyTerminal, threw
  <2>2. worker[w].pc # "idle" /\ UNCHANGED <<record, task, Followed, receipt>>
    BY <1>9 DEF enqueueContinuation, notifyTerminal, threw, provider, Followed
  <2>3. Others(w) /\ worker'[w].pc = step /\ worker'[w].ref = worker[w].ref
    BY <2>1, Names, Went
  <2> QED
    BY <2>1, <2>2, <2>3, Leaves
<1>10. CASE failTransport(w) \/ finishTransport(w)
  <2>1. worker' = [worker EXCEPT ![w] = Idle] /\ UNCHANGED <<record, task, Followed, receipt>>
    BY <1>10 DEF failTransport, finishTransport, provider, Followed
  <2> QED
    BY <2>1, WentIdle, Leaves
<1>11. CASE submitLost(w)
  <2>1. /\ Others(w) /\ worker'[w].pc = "receipt" /\ worker'[w].ref = worker[w].ref
        /\ worker'[w].outcome = "unknown"
    BY <1>11, LostRows DEF submitLost
  <2>2. /\ worker[w].pc = "submit" /\ UNCHANGED <<record, receipt>>
        /\ \/ task' = "working" /\ Followed' = Followed + 1
           \/ UNCHANGED <<task, Followed>>
    BY <1>11 DEF submitLost, Followed
  <2> QED
    BY <2>1, <2>2, SubmitKeeps
<1> QED
  BY <1>1, <1>2, <1>3, <1>4, <1>5, <1>6, <1>7, <1>8, <1>9, <1>10, <1>11, <1>12, <1>13
     DEF Handle

\* Every step keeps the invariant of the provider's side.
LEMMA TaskStep == TaskInv /\ [Next]_vars => TaskInv'
<1> SUFFICES ASSUME TaskInv, [Next]_vars PROVE TaskInv'
  OBVIOUS
<1>1. TypeOK'
  BY TypeStep DEF TaskInv
<1>2. TaskParts'
  <2>1. CASE UNCHANGED vars
    BY <2>1, WorldKeeps DEF vars, Followed
  <2>2. CASE \E w \in Workers : Handle(w) \/ submitLost(w)
    BY <2>2, HandleKeeps
  <2>3. CASE \E w \in Workers : crash(w)
    <3>1. PICK w \in Workers : crash(w)
      BY <2>3
    <3>2. worker' = [worker EXCEPT ![w] = Idle] /\ UNCHANGED <<record, task, Followed, receipt>>
      BY <3>1 DEF crash, provider, Followed
    <3> QED
      BY <3>2, WentIdle, Leaves DEF TaskInv
  <2>4. CASE \E w \in Workers : \E n \in Seqs : fetch(w, n)
    <3>1. PICK w \in Workers, n \in Seqs : fetch(w, n)
      BY <2>4
    <3>2. UNCHANGED <<record, task, Followed, receipt>>
      BY <3>1 DEF fetch, provider, Followed
    <3>3. Others(w) /\ worker'[w].pc = "reserve" /\ worker'[w].ref = FALSE
      BY <3>1, Fetched DEF TaskInv
    <3> QED
      BY <3>2, <3>3, Leaves
  <2>5. CASE \E n \in Seqs : transportExpires(n)
    BY <2>5, WorldKeeps DEF transportExpires, provider, Followed
  <2>6. CASE requestCancel \/ taskEnds \/ leaseExpires
    <3>1. UNCHANGED <<worker, Followed, receipt>>
      BY <2>6 DEF requestCancel, taskEnds, leaseExpires, provider, Followed
    <3> QED
      BY <2>6, <3>1, WorldKeeps
  <2> QED
    BY <2>1, <2>2, <2>3, <2>4, <2>5, <2>6 DEF Next
<1> QED
  BY <1>1, <1>2 DEF TaskInv

\* The invariant of the provider's side holds at the start.
LEMMA TaskInit == Init => TaskInv
<1> SUFFICES ASSUME Init PROVE TaskInv
  OBVIOUS
<1>1. TypeOK
  BY InitType
<1>2. /\ \A w \in Workers : worker[w].pc = "idle"
      /\ record.status = "queued" /\ ~record.ref /\ task = "none" /\ Followed = 0
      /\ receipt = "none" /\ record.lease = None /\ None \notin Workers
  BY IdleRow, JobAssumption DEF Init, Followed
<1>3. \A w \in Workers : ~Submitting(w) /\ ~Working(w)
  BY <1>2 DEF Submitting, Working
<1> QED
  BY <1>1, <1>2, <1>3 DEF TaskInv, TaskParts, OneSubmission, RefsOK, UntriedOK, CancelOK,
                          ResultsOK, ReceiptOK

\* Whatever the workers, the transports and the provider do, the submission is in one
\* worker's hands and what is recorded is what the task did.
THEOREM TaskInvariant == Spec => []TaskInv
  BY TaskInit, TaskStep, PTL DEF Spec

\* Every row of the record, the transports and the workers keeps its type.
THEOREM MediaTypeCorrect == Spec => []TypeOK
<1>1. TaskInv => TypeOK
  BY DEF TaskInv
<1> QED
  BY <1>1, TaskInvariant, PTL

\* The provider is never made to work on the job twice, except behind an error answer
\* that hides from everybody that it took the request.
THEOREM ProviderWorksOnce == Spec => []OneTask
<1>1. TaskInv => OneTask
  BY DEF TaskInv, TaskParts, TypeOK, OneSubmission, OneTask, Followed
<1> QED
  BY <1>1, TaskInvariant, PTL

\* A cancelled job has no task at work.
THEOREM CancellationsAreQuiet == Spec => []CancelledIsQuiet
<1>1. TaskInv => CancelledIsQuiet
  BY DEF TaskInv, TaskParts, CancelOK, CancelledIsQuiet
<1> QED
  BY <1>1, TaskInvariant, PTL

-----------------------------------------------------------------------------
(* What is recorded was settled *)

\* A step of one worker that leaves the record alone.
LEMMA LedgerStays ==
  ASSUME LedgerInv, NEW w \in Workers, Others(w), UNCHANGED record,
         ledger \in Closed => ledger' = ledger,
         ledger' # ledger => Working(w),
         Working(w)' => Working(w),
         worker'[w].pc # "cancel",
         worker'[w].pc = "record" =>
            /\ worker'[w].outcome = "completed" => ledger' = "completed"
            /\ worker'[w].outcome \in {"failed", "refused"} => ledger' = "failed"
            /\ record.lease = w /\ worker'[w].outcome = "cancelled" =>
                  ledger' = "failed" \/ (ledger' = "none" /\ Alone(w))
  PROVE  LedgerOK'
<1>1. /\ ledger = "completed" => ledger' = "completed"
      /\ ledger = "failed" => ledger' = "failed"
  BY DEF Closed
<1>2. \A v \in Workers \ {w} : Alone(v) => ledger' = ledger /\ Alone(v)'
  BY Kin DEF Alone
<1>3. Alone(w) => Alone(w)'
  BY Kin DEF Alone
<1>4. ASSUME NEW v \in Workers \ {w}
      PROVE  /\ (worker[v].pc = "record" /\ worker[v].outcome = "completed" =>
                    ledger = "completed")'
             /\ (worker[v].pc = "record" /\ worker[v].outcome \in {"failed", "refused"} =>
                    ledger = "failed")'
             /\ (record.lease = v /\ worker[v].pc = "cancel" /\ ~worker[v].tried =>
                    ledger = "none" /\ Alone(v))'
             /\ (record.lease = v /\ worker[v].pc = "record" /\ worker[v].outcome = "cancelled" =>
                    ledger = "failed" \/ (ledger = "none" /\ Alone(v)))'
  BY <1>1, <1>2, Kin DEF LedgerInv, LedgerOK
<1>5. (\A v \in Workers : ~Working(v)) => ledger' = ledger /\ \A v \in Workers : ~Working(v)'
  BY Kin
<1>6. /\ (record.status = "completed" => ledger = "completed")'
      /\ (record.status = "failed" => ledger = "failed")'
      /\ (record.status = "cancelled" =>
            ledger = "failed" \/ (ledger = "none" /\ \A v \in Workers : ~Working(v)))'
  BY <1>1, <1>5 DEF LedgerInv, LedgerOK
<1>7. (~record.tried => ledger = "none")'
  BY <1>5 DEF LedgerInv, LedgerOK, TaskInv, TaskParts, UntriedOK
<1> QED
  BY <1>3, <1>4, <1>6, <1>7 DEF LedgerOK

\* A step that leaves the ledger and the workers alone and closes no record.
LEMMA LedgerWaits ==
  ASSUME LedgerInv, UNCHANGED <<worker, ledger>>,
         record'.lease = record.lease, record'.tried = record.tried,
         record'.status = record.status \/ record'.status \notin Terminal
  PROVE  LedgerOK'
<1>1. \A v \in Workers : (Working(v)' <=> Working(v)) /\ (Alone(v)' <=> Alone(v))
  BY DEF Working, Alone
<1> QED
  BY <1>1 DEF LedgerInv, LedgerOK, Terminal

\* The lease is taken: of a record that was never tried nobody has written the ledger.
LEMMA LedgerTook ==
  ASSUME LedgerInv, NEW w \in Workers, Took(w), UNCHANGED ledger
  PROVE  LedgerOK'
<1>1. /\ worker'[w].pc \in {"execute", "cancel", "reconcile"} /\ worker'[w].tried = record.tried
      /\ record'.status = "running" \/ record'.status = record.status
      /\ record'.lease = w /\ record'.tried = TRUE /\ Others(w)
  BY TookRows DEF LedgerInv, TaskInv
<1>2. record.status \notin Terminal /\ record'.status \notin Terminal
  BY <1>1 DEF Took, Terminal
<1>3. ~record.tried => ledger = "none" /\ Alone(w)'
  BY <1>1, Kin DEF LedgerInv, LedgerOK, TaskInv, TaskParts, UntriedOK, Alone
<1> QED
  BY <1>1, <1>2, <1>3, Kin DEF LedgerInv, LedgerOK, Terminal

\* What is recorded was settled before.
LEMMA LedgerUpdate ==
  ASSUME LedgerInv, NEW w \in Workers, update(w), Current(w)
  PROVE  LedgerOK'
<1> DEFINE outcome == worker[w].outcome
<1>1. /\ record.lease = w /\ worker[w].pc = "record" /\ UNCHANGED ledger
  BY DEF update, Current, provider
<1>2. /\ record'.status = StatusAfter(record.status, outcome)
      /\ record'.lease = None /\ record'.tried = record.tried
  BY UpdatedRows DEF LedgerInv, TaskInv
<1>3. AfterRecord(outcome) \in {"defer", "retry", "notify"} /\ Go(w, AfterRecord(outcome))
  BY DEF AfterRecord, update
<1>4. Others(w) /\ worker'[w].pc \in {"defer", "retry", "notify"}
  BY <1>3, Went DEF Steps, LedgerInv, TaskInv
<1>5. ~Working(w)' /\ Working(w)
  BY <1>1, <1>4 DEF Working
<1>6. record.status \notin Terminal
  BY DEF Current
<1>7. /\ record'.status = "cancelled" => outcome = "cancelled"
      /\ record'.status = "completed" => outcome = "completed"
      /\ record'.status = "failed" => outcome \in {"failed", "refused"}
  BY <1>2, <1>6 DEF StatusAfter, Terminal
<1>8. Alone(w) => \A v \in Workers : ~Working(v)'
  BY <1>4, <1>5, Kin DEF Alone
<1>9. record.tried
  BY <1>5 DEF LedgerInv, TaskInv, TaskParts, UntriedOK
<1>10. None \notin Workers
  BY JobAssumption
<1> QED
  BY <1>1, <1>2, <1>4, <1>7, <1>8, <1>9, <1>10, Kin DEF LedgerInv, LedgerOK

\* The steps of a handler settle before they record.
LEMMA HandleSettles ==
  ASSUME LedgerInv, NEW w \in Workers, Handle(w) \/ submitLost(w)
  PROVE  LedgerOK'
<1> TypeOK
  BY DEF LedgerInv, TaskInv
<1>1. CASE reserve(w)
  <2>0. worker[w].pc = "reserve" /\ UNCHANGED ledger
    BY <1>1 DEF reserve, provider
  <2>1. CASE Noticed(w)
    <3>1. UNCHANGED record /\ Others(w) /\ worker'[w].pc = "notify"
      BY <2>1, NoticedRows DEF Noticed
    <3>2. ~Working(w)'
      BY <3>1 DEF Working
    <3> QED
      BY <2>0, <3>1, <3>2, LedgerStays
  <2>2. CASE Deferred(w)
    <3>1. UNCHANGED record /\ Others(w) /\ worker'[w].pc = "defer"
      BY <2>2, Names, Went DEF Deferred
    <3>2. ~Working(w)'
      BY <3>1 DEF Working
    <3> QED
      BY <2>0, <3>1, <3>2, LedgerStays
  <2>3. CASE Took(w)
    BY <2>0, <2>3, LedgerTook
  <2> QED
    BY <1>1, <2>1, <2>2, <2>3 DEF reserve, Noticed, Deferred, Took
<1>2. CASE checkpointAttempt(w) \/ recover(w)
  <2>1. Working(w) /\ UNCHANGED record
    BY <1>2 DEF Working, checkpointAttempt, recover
  <2>2. Others(w) /\ worker'[w].pc \in {"submit", "poll", "settle"} /\ LedgerMoves
    BY <1>2, CheckpointRows, RecoverRows DEF Stepped
  <2> QED
    BY <2>1, <2>2, LedgerStays DEF LedgerMoves
<1>3. CASE submitAccepted(w) \/ submitLost(w)
  <2>1. Working(w) /\ UNCHANGED <<record, ledger>>
    BY <1>3 DEF Working, submitAccepted, submitLost
  <2>2. Learned(w, "receipt", TRUE, "pending")
        \/ worker' = [worker EXCEPT ![w].pc = "receipt", ![w].outcome = "unknown"]
    BY <1>3 DEF submitAccepted, submitLost, Learned
  <2>3. Others(w) /\ worker'[w].pc = "receipt"
    BY <2>2, Names, HasRef, LostRows
  <2> QED
    BY <2>1, <2>3, LedgerStays
<1>4. CASE submitRejected(w) \/ putReceipt(w)
  <2>1. Working(w) /\ UNCHANGED <<record, ledger>>
    BY <1>4 DEF Working, submitRejected, putReceipt
  <2>2. ReceiptOK
    BY DEF LedgerInv, TaskInv, TaskParts
  <2>3. Others(w) /\ worker'[w].pc = "settle"
    BY <1>4, <2>2, RejectedRows, ReceiptRows DEF Stepped
  <2> QED
    BY <2>1, <2>3, LedgerStays
<1>5. CASE poll(w)
  <2>1. Working(w) /\ UNCHANGED <<record, ledger>>
    BY <1>5 DEF Working, poll, provider
  <2>2. /\ Others(w)
        /\ \/ worker'[w].pc = "record" /\ worker'[w].outcome \in {"pending", "unknown"}
           \/ worker'[w].pc = "settle"
    BY <1>5, PollRows DEF Stepped
  <2> QED
    BY <2>1, <2>2, LedgerStays
<1>6. CASE cancelTask(w)
  <2>1. Working(w) /\ worker[w].pc = "cancel" /\ UNCHANGED record
    BY <1>6 DEF Working, cancelTask
  <2>2. /\ Others(w) /\ LedgerMoves
        /\ \/ /\ worker'[w].pc = "record" /\ worker'[w].outcome = "cancelled"
              /\ NeverTried(w) /\ UNCHANGED ledger
           \/ worker'[w].pc = "record" /\ worker'[w].outcome \in {"pending", "unknown"}
           \/ worker'[w].pc = "settle"
    BY <1>6, CancelRows DEF Stepped
  <2>3. NeverTried(w) /\ record.lease = w => ledger = "none" /\ Alone(w)
    BY <2>1 DEF NeverTried, LedgerInv, LedgerOK
  <2> QED
    BY <2>1, <2>2, <2>3, LedgerStays DEF LedgerMoves
<1>7. CASE settle(w)
  <2>1. Working(w) /\ UNCHANGED record
    BY <1>7 DEF Working, settle
  <2>2. /\ Others(w) /\ LedgerMoves
        /\ \/ /\ worker'[w].pc \in {"poll", "record"}
              /\ worker'[w].outcome = worker[w].outcome
              /\ ledger' = LedgerAfter(worker[w].outcome)
           \/ worker'[w].pc = "record" /\ worker'[w].outcome = "unknown"
    BY <1>7, SettleRows DEF Stepped
  <2>3. /\ LedgerAfter("completed") = "completed" /\ LedgerAfter("failed") = "failed"
        /\ LedgerAfter("refused") = "failed" /\ LedgerAfter("cancelled") = "failed"
    BY DEF LedgerAfter
  <2> QED
    BY <2>1, <2>2, <2>3, LedgerStays DEF LedgerMoves
<1>8. CASE update(w)
  <2>1. CASE Current(w)
    BY <1>8, <2>1, LedgerUpdate
  <2>2. CASE ~Current(w)
    <3>1. Go(w, "threw") /\ UNCHANGED <<record, ledger>>
      BY <1>8, <2>2 DEF update, provider
    <3>2. Others(w) /\ worker'[w].pc = "threw"
      BY <3>1, Names, Went
    <3>3. ~Working(w)'
      BY <3>2 DEF Working
    <3> QED
      BY <3>1, <3>2, <3>3, LedgerStays
  <2> QED
    BY <2>1, <2>2
<1>9. CASE enqueueContinuation(w) \/ notifyTerminal(w) \/ threw(w)
  <2>1. PICK step \in {"finish", "threw", "retry"} : Go(w, step)
    BY <1>9 DEF enqueueContinuation, notifyTerminal, threw
  <2>2. UNCHANGED <<record, ledger>>
    BY <1>9 DEF enqueueContinuation, notifyTerminal, threw, provider
  <2>3. Others(w) /\ worker'[w].pc = step
    BY <2>1, Names, Went
  <2>4. ~Working(w)'
    BY <2>1, <2>3 DEF Working
  <2> QED
    BY <2>1, <2>2, <2>3, <2>4, LedgerStays
<1>10. CASE failTransport(w) \/ finishTransport(w)
  <2>1. worker' = [worker EXCEPT ![w] = Idle] /\ UNCHANGED <<record, ledger>>
    BY <1>10 DEF failTransport, finishTransport, provider
  <2>2. Others(w) /\ worker'[w].pc = "idle"
    BY <2>1, WentIdle
  <2>3. ~Working(w)'
    BY <2>2 DEF Working
  <2> QED
    BY <2>1, <2>2, <2>3, LedgerStays
<1> QED
  BY <1>1, <1>2, <1>3, <1>4, <1>5, <1>6, <1>7, <1>8, <1>9, <1>10 DEF Handle

\* Every step keeps the invariant of the ledger.
LEMMA LedgerStep == LedgerInv /\ [Next]_vars => LedgerInv'
<1> SUFFICES ASSUME LedgerInv, [Next]_vars PROVE LedgerInv'
  OBVIOUS
<1> TypeOK
  BY DEF LedgerInv, TaskInv
<1>1. TaskInv'
  BY TaskStep DEF LedgerInv
<1>2. LedgerOK'
  <2>1. CASE UNCHANGED vars \/ \E n \in Seqs : transportExpires(n)
    BY <2>1, LedgerWaits DEF vars, transportExpires, provider
  <2>2. CASE \E w \in Workers : Handle(w) \/ submitLost(w)
    BY <2>2, HandleSettles
  <2>3. CASE \E w \in Workers : crash(w) \/ \E n \in Seqs : fetch(w, n)
    <3>1. PICK w \in Workers : crash(w) \/ \E n \in Seqs : fetch(w, n)
      BY <2>3
    <3>2. UNCHANGED <<record, ledger>>
      BY <3>1 DEF crash, fetch, provider
    <3>3. Others(w) /\ worker'[w].pc \in {"idle", "reserve"}
      BY <3>1, WentIdle, Fetched DEF crash
    <3>4. ~Working(w)'
      BY <3>3 DEF Working
    <3> QED
      BY <3>2, <3>3, <3>4, LedgerStays
  <2>4. CASE requestCancel \/ taskEnds \/ leaseExpires
    <3>1. UNCHANGED <<worker, ledger>>
      BY <2>4 DEF requestCancel, taskEnds, leaseExpires, provider
    <3>2. /\ record'.lease = record.lease /\ record'.tried = record.tried
          /\ record'.status = record.status \/ record'.status = "cancel_requested"
      BY <2>4 DEF requestCancel, taskEnds, leaseExpires, TypeOK, RecordRows
    <3> QED
      BY <3>1, <3>2, LedgerWaits DEF Terminal
  <2> QED
    BY <2>1, <2>2, <2>3, <2>4 DEF Next
<1> QED
  BY <1>1, <1>2 DEF LedgerInv

\* The invariant of the ledger holds at the start.
LEMMA LedgerInit == Init => LedgerInv
<1> SUFFICES ASSUME Init PROVE LedgerInv
  OBVIOUS
<1>1. TaskInv
  BY TaskInit
<1>2. \A w \in Workers : worker[w].pc = "idle"
  BY IdleRow DEF Init
<1>3. record.status = "queued" /\ ledger = "none"
  BY DEF Init
<1> QED
  BY <1>1, <1>2, <1>3 DEF LedgerInv, LedgerOK

\* A completed job has a finished task and is charged, a failed one is refunded and
\* has no task at work that it knows of, a cancelled one is not charged.
THEOREM ResultsAreTrue == Spec => []ResultIsTrue
<1>1. LedgerInv => ResultIsTrue
  BY DEF LedgerInv, LedgerOK, TaskInv, TaskParts, ResultsOK, ResultIsTrue
<1> QED
  BY <1>1, LedgerInit, LedgerStep, PTL DEF Spec

-----------------------------------------------------------------------------
(* The transports carry the job *)

\* Sets that differ in one element have sizes that differ by one at most.
LEMMA CardinalityStep ==
  ASSUME NEW S, NEW T, IsFiniteSet(S), IsFiniteSet(T), NEW x, T \ {x} = S \ {x}
  PROVE  /\ Cardinality(S) \in Nat /\ Cardinality(T) \in Nat
         /\ Cardinality(T) <= Cardinality(S) + 1
         /\ x \in S \/ x \notin T => Cardinality(T) <= Cardinality(S)
         /\ x \in S /\ x \notin T => Cardinality(T) + 1 = Cardinality(S)
<1>1. Cardinality(S) \in Nat /\ Cardinality(T) \in Nat
  BY FS_CardinalityType
<1>2. Cardinality(S \ {x}) = IF x \in S THEN Cardinality(S) - 1 ELSE Cardinality(S)
  BY FS_RemoveElement
<1>3. Cardinality(T \ {x}) = IF x \in T THEN Cardinality(T) - 1 ELSE Cardinality(T)
  BY FS_RemoveElement
<1> QED
  BY <1>1, <1>2, <1>3

\* The workers that owe a transport are finitely many, before and after a step.
LEMMA OwingFinite ==
  ASSUME NEW n \in Seqs
  PROVE  /\ IsFiniteSet(Owing(n)) /\ Cardinality(Owing(n)) \in Nat
         /\ IsFiniteSet(Owing(n)') /\ Cardinality(Owing(n)') \in Nat
<1>1. IsFiniteSet(Workers)
  BY JobAssumption
<1>2. Owing(n) \subseteq Workers /\ Owing(n)' \subseteq Workers
  BY DEF Owing
<1>3. IsFiniteSet(Owing(n)) /\ IsFiniteSet(Owing(n)')
  BY <1>1, <1>2, FS_Subset
<1> QED
  BY <1>3, FS_CardinalityType

\* The others owe what they owed unless the lease changes under them.
LEMMA SameOwing ==
  ASSUME NEW w \in Workers, Others(w),
         \A v \in Workers \ {w} : Holds(v)' <=> Holds(v)
  PROVE  \A n \in Seqs : Owing(n)' \ {w} = Owing(n) \ {w}
<1>1. \A v \in Workers \ {w} : worker'[v].seq = worker[v].seq /\ (Owes(v)' <=> Owes(v))
  BY Kin DEF Owes
<1> QED
  BY <1>1 DEF Owing

\* Who holds the record's lease depends on the record alone.
LEMMA HoldsSame ==
  ASSUME UNCHANGED record
  PROVE  \A v \in Workers : Holds(v)' <=> Holds(v)
BY DEF Holds

\* The retries used up and owed are natural numbers, not above the faults.
LEMMA DebtType ==
  ASSUME CarrierInv, NEW n \in Seqs
  PROVE  /\ transport[n].retries \in Nat /\ faults \in Nat
         /\ Cardinality(Owing(n)) \in Nat /\ Debt(n) <= faults
<1>1. transport[n].retries \in Nat /\ faults \in Nat
  BY RowTypes, JobAssumption DEF CarrierInv, TaskInv, TypeOK
<1> QED
  BY <1>1, OwingFinite DEF CarrierInv, CarrierParts, RetriesPaid

\* The count behind every step of a worker: what a transport owes afterwards.
LEMMA DebtStep ==
  ASSUME CarrierInv, NEW w \in Workers, NEW n \in Seqs, Owing(n)' \ {w} = Owing(n) \ {w},
         faults' \in Nat, transport'[n].retries \in Nat,
         \/ /\ transport'[n].retries = transport[n].retries
            /\ Orphaned(n)' => Orphaned(n)
            /\ \/ w \in Owing(n)' => w \in Owing(n)
               \/ faults' = faults + 1
         \/ /\ transport'[n].retries = transport[n].retries
            /\ w \notin Owing(n)' /\ faults' = faults + 1
         \/ /\ transport'[n].retries <= transport[n].retries + 1
            /\ w \in Owing(n) /\ w \notin Owing(n)' /\ ~Orphaned(n)',
         faults' \in {faults, faults + 1}
  PROVE  Debt(n)' <= faults'
<1> DEFINE r == transport[n].retries
           rr == transport'[n].retries
           c == Cardinality(Owing(n))
           cc == Cardinality(Owing(n)')
<1>1. /\ c \in Nat /\ cc \in Nat /\ cc <= c + 1
      /\ w \in Owing(n) \/ w \notin Owing(n)' => cc <= c
      /\ w \in Owing(n) /\ w \notin Owing(n)' => cc + 1 = c
  BY OwingFinite, CardinalityStep
<1>2. r \in Nat /\ faults \in Nat /\ r + c + (IF Orphaned(n) THEN 1 ELSE 0) <= faults
  BY DebtType DEF Debt
<1>3. Debt(n)' = rr + cc + (IF Orphaned(n)' THEN 1 ELSE 0)
  BY DEF Debt
<1> HIDE DEF r, rr, c, cc
<1>4. rr \in Nat
  BY DEF rr
<1>5. rr + cc + (IF Orphaned(n)' THEN 1 ELSE 0) <= faults'
  BY <1>1, <1>2, <1>4 DEF r, rr
<1> QED
  BY <1>3, <1>5

\* Transports that were written stay written.
Written == \A n \in Seqs : transport[n].state # "none" => transport'[n].state # "none"

\* A step of one worker keeps the handovers of the others.
LEMMA HandoverKeeps ==
  ASSUME CarrierInv, NEW w \in Workers, Others(w), Written,
         record.status \in Terminal => record'.status \in Terminal, HandedOver(w)'
  PROVE  HandoverOK'
<1> SUFFICES ASSUME NEW v \in Workers \ {w} PROVE HandedOver(v)'
  BY DEF HandoverOK
<1>1. worker'[v] = worker[v] /\ HandedOver(v)
  BY DEF Others, CarrierInv, CarrierParts, HandoverOK
<1>2. worker[v].seq \in Seqs /\ (worker[v].seq < MaxSeq => worker[v].seq + 1 \in Seqs)
  BY RowTypes, JobAssumption DEF Seqs, CarrierInv, TaskInv
<1> QED
  BY <1>1, <1>2 DEF Written, HandedOver

\* The head stays the head while it is neither finished nor given up.
LEMMA HeadStays ==
  ASSUME CarrierInv,
         record.status \in Terminal => record'.status \in Terminal,
         \A n \in Seqs :
            /\ transport[n].state = "none" => transport'[n].state = "none"
            /\ transport[n].state \in {"ready", "active"} =>
                  transport'[n].state \in {"ready", "active"}
  PROVE  HeadCarries'
BY DEF CarrierInv, CarrierParts, HeadCarries

\* A worker goes on with its transport, and owes a retry only for a fault.
LEMMA Stays ==
  ASSUME CarrierInv, NEW w \in Workers, Others(w), UNCHANGED transport,
         worker[w].pc # "idle", worker'[w].pc # "idle", worker'[w].seq = worker[w].seq,
         record.status \in Terminal => UNCHANGED record,
         record'.status \in Terminal /\ record.status \notin Terminal => record'.lease = None,
         \A v \in Workers \ {w} : Holds(v)' <=> Holds(v),
         faults' \in {faults, faults + 1},
         Owes(w)' => Owes(w) \/ faults' = faults + 1,
         HandedOver(w)'
  PROVE  CarrierParts'
<1>1. \A n \in Seqs : Owing(n)' \ {w} = Owing(n) \ {w}
  BY SameOwing
<1>2. \A n \in Seqs : w \in Owing(n)' => w \in Owing(n) \/ faults' = faults + 1
  BY DEF Owing
<1>3. \A n \in Seqs : Orphaned(n)' => Orphaned(n)
  BY DEF Orphaned, Others
<1>4. RetriesPaid'
  <2> SUFFICES ASSUME NEW n \in Seqs PROVE Debt(n)' <= faults'
    BY DEF RetriesPaid
  <2>1. faults' \in Nat /\ transport'[n].retries \in Nat
    BY DebtType
  <2> QED
    BY <1>1, <1>2, <1>3, <2>1, DebtStep
<1>5. HandoverOK'
  BY HandoverKeeps DEF Written
<1>6. ClosedIsFree'
  BY DEF CarrierInv, CarrierParts, ClosedIsFree
<1>7. HeadCarries'
  BY HeadStays
<1> QED
  BY <1>4, <1>5, <1>6, <1>7 DEF CarrierParts

\* A worker has left its transport, or taken one up: it owes nothing more to any other.
LEMMA OwesOne ==
  ASSUME NEW w \in Workers
  PROVE  /\ worker[w].pc = "idle" => \A n \in Seqs : w \notin Owing(n)
         /\ worker'[w].pc \in {"idle", "reserve", "finish"} => \A n \in Seqs : w \notin Owing(n)'
         /\ worker[w].pc = "retry" => w \in Owing(worker[w].seq)
         /\ \A n \in Seqs : w \in Owing(n) => worker[w].seq = n
BY DEF Owing, Owes, Working

\* Fetching a transport keeps the job carried.
LEMMA FetchCarries ==
  ASSUME CarrierInv, NEW w \in Workers, NEW n \in Seqs, fetch(w, n)
  PROVE  CarrierParts'
<1> TypeOK
  BY DEF CarrierInv, TaskInv
<1>1. /\ worker[w].pc = "idle" /\ transport[n].state = "ready"
      /\ UNCHANGED <<record, faults>>
  BY DEF fetch
<1>2. Others(w) /\ worker'[w].pc = "reserve" /\ worker'[w].seq = n
  BY Fetched
<1>3. /\ OtherTransports(n) /\ transport'[n].state = "active"
      /\ transport'[n].retries = transport[n].retries
  BY StateSet DEF fetch, States
<1>4. \A m \in Seqs : Owing(m)' \ {w} = Owing(m) \ {w} /\ w \notin Owing(m)'
  BY <1>1, <1>2, HoldsSame, SameOwing, OwesOne
<1>5. \A m \in Seqs : Orphaned(m)' => Orphaned(m)
  BY <1>1, <1>2, <1>3 DEF Orphaned, Others, OtherTransports
<1>6. RetriesPaid'
  <2> SUFFICES ASSUME NEW m \in Seqs PROVE Debt(m)' <= faults'
    BY DEF RetriesPaid
  <2>1. transport'[m].retries = transport[m].retries
    BY <1>3 DEF OtherTransports
  <2> QED
    BY <1>1, <1>4, <1>5, <2>1, DebtType, DebtStep
<1>7. HandoverOK'
  <2>1. Written
    BY <1>3 DEF Written, OtherTransports
  <2>2. HandedOver(w)'
    BY <1>2, <1>3 DEF HandedOver
  <2> QED
    BY <1>1, <1>2, <2>1, <2>2, HandoverKeeps
<1>8. ClosedIsFree'
  BY <1>1 DEF CarrierInv, CarrierParts, ClosedIsFree
<1>9. HeadCarries'
  BY <1>1, <1>3, HeadStays DEF OtherTransports
<1> QED
  BY <1>6, <1>7, <1>8, <1>9 DEF CarrierParts

\* The continuation becomes the head before its predecessor is let go.
LEMMA ContinuedCarries ==
  ASSUME CarrierInv, NEW w \in Workers, worker[w].pc = "defer", Continued(w), UNCHANGED record
  PROVE  CarrierParts'
<1> TypeOK
  BY DEF CarrierInv, TaskInv
<1> DEFINE k == worker[w].seq
           n == NextSeq(w)
<1>1. k < MaxSeq /\ transport[k].state # "none" /\ k \in Seqs
  BY RowTypes DEF CarrierInv, CarrierParts, HandoverOK, HandedOver
<1>2. /\ n \in Seqs /\ n = k + 1 /\ OtherTransports(n)
      /\ transport'[n].retries = transport[n].retries
      /\ transport'[n].state = IF transport[n].state = "none" THEN "ready" ELSE transport[n].state
  BY <1>1, ContinuedRows DEF NextSeq
<1>3. /\ Others(w) /\ worker'[w].pc = "finish" /\ worker'[w].seq = k /\ UNCHANGED faults
  BY Went DEF Continued, Steps
<1> HIDE DEF k, n
<1>4. \A m \in Seqs : Owing(m)' \ {w} = Owing(m) \ {w} /\ w \notin Owing(m)'
  BY <1>3, HoldsSame, SameOwing, OwesOne
<1>5. \A m \in Seqs : Orphaned(m)' => Orphaned(m)
  <2>1. \A m \in Seqs : transport'[m].state = "active" => transport[m].state = "active"
    BY <1>2 DEF OtherTransports
  <2> QED
    BY <1>3, <2>1 DEF Orphaned, Others, k
<1>6. RetriesPaid'
  <2> SUFFICES ASSUME NEW m \in Seqs PROVE Debt(m)' <= faults'
    BY DEF RetriesPaid
  <2>1. transport'[m].retries = transport[m].retries
    BY <1>2 DEF OtherTransports
  <2> QED
    BY <1>3, <1>4, <1>5, <2>1, DebtType, DebtStep
<1>7. HandoverOK'
  <2>1. Written
    BY <1>2 DEF Written, OtherTransports
  <2>2. transport'[k].state # "none" /\ transport'[k + 1].state # "none"
    BY <1>1, <1>2, <2>1 DEF Written
  <2>3. HandedOver(w)'
    BY <1>1, <1>3, <2>2 DEF HandedOver
  <2> QED
    BY <1>3, <2>1, <2>3, HandoverKeeps
<1>8. ClosedIsFree'
  BY DEF CarrierInv, CarrierParts, ClosedIsFree
<1>9. HeadCarries'
  <2> SUFFICES ASSUME record.status \notin Terminal
               PROVE  \E m \in Seqs : /\ transport'[m].state \in {"ready", "active"}
                                      /\ \A l \in Seqs : l > m => transport'[l].state = "none"
    BY DEF HeadCarries
  <2>1. PICK h \in Seqs : /\ transport[h].state \in {"ready", "active"}
                          /\ \A l \in Seqs : l > h => transport[l].state = "none"
    BY DEF CarrierInv, CarrierParts, HeadCarries
  <2>2. h \in Nat /\ k \in Nat /\ Seqs \subseteq Nat
    BY <1>1, JobAssumption DEF Seqs
  <2>3. ~(k > h)
    BY <1>1, <2>1
  <2>4. CASE k = h
    <3>1. n > h /\ transport'[n].state = "ready"
      BY <1>2, <2>1, <2>2, <2>4
    <3>2. \A l \in Seqs : l > n => transport'[l].state = "none"
      BY <1>2, <2>1, <2>2, <2>4 DEF OtherTransports
    <3> QED
      BY <1>2, <3>1, <3>2
  <2>5. CASE k < h
    <3>1. ~(n > h)
      BY <1>2, <2>2, <2>5
    <3>2. transport'[h].state = transport[h].state
      BY <1>2, <2>1 DEF OtherTransports
    <3>3. \A l \in Seqs : l > h => transport'[l].state = "none"
      BY <1>2, <2>1, <3>1 DEF OtherTransports
    <3> QED
      BY <2>1, <3>2, <3>3
  <2>6. k = h \/ k < h
    BY <2>2, <2>3
  <2> QED
    BY <2>4, <2>5, <2>6
<1> QED
  BY <1>6, <1>7, <1>8, <1>9 DEF CarrierParts

\* A worker leaves its transport.
LEMMA LeftHandover ==
  ASSUME CarrierInv, NEW w \in Workers, worker' = [worker EXCEPT ![w] = Idle], Written,
         UNCHANGED record
  PROVE  HandoverOK' /\ ClosedIsFree'
<1> TypeOK
  BY DEF CarrierInv, TaskInv
<1>1. Others(w) /\ worker'[w].pc = "idle"
  BY WentIdle
<1>2. HandedOver(w)'
  BY <1>1 DEF HandedOver
<1> QED
  BY <1>1, <1>2, HandoverKeeps DEF CarrierInv, CarrierParts, ClosedIsFree

\* As long as the faults do not exceed the retries, a failed transport has one left.
LEMMA FailCarries ==
  ASSUME CarrierInv, NEW w \in Workers, failTransport(w), MaxFaults <= RetryLimit
  PROVE  CarrierParts'
<1> TypeOK
  BY DEF CarrierInv, TaskInv
<1>0. PICK k \in Seqs : k = worker[w].seq
  BY RowTypes
<1>1. /\ worker[w].pc = "retry" /\ UNCHANGED <<record, faults>> /\ FailTransport(k)
      /\ worker' = [worker EXCEPT ![w] = Idle]
  BY <1>0 DEF failTransport
<1>2. Others(w) /\ worker'[w].pc = "idle" /\ k \in Seqs
  BY <1>1, WentIdle
<1>3. w \in Owing(k)
  BY <1>0, <1>1, OwesOne
<1>4. transport[k].retries < RetryLimit
  <2>1. Cardinality(Owing(k)) >= 1
    <3>1. IsFiniteSet(Owing(k)) /\ Owing(k) # {}
      BY <1>2, <1>3, OwingFinite
    <3> QED
      BY <3>1, FS_EmptySet, FS_CardinalityType
  <2>2. transport[k].retries + 1 <= faults
    BY <1>2, <2>1, DebtType DEF Debt
  <2>3. faults <= MaxFaults
    BY DEF TypeOK
  <2> QED
    BY <1>2, <2>2, <2>3, JobAssumption, DebtType
<1>5. /\ OtherTransports(k)
      /\ transport[k].state # "active" => transport'[k] = transport[k]
      /\ transport[k].state = "active" =>
            transport'[k].state = "ready" /\ transport'[k].retries = transport[k].retries + 1
  BY <1>1, <1>2, <1>4, FailRows
<1>6. \A m \in Seqs : Owing(m)' \ {w} = Owing(m) \ {w} /\ w \notin Owing(m)'
  BY <1>1, <1>2, HoldsSame, SameOwing, OwesOne
<1>7. ~Orphaned(k)' /\ \A m \in Seqs : m # k => (Orphaned(m)' => Orphaned(m))
  BY <1>0, <1>2, <1>5 DEF Orphaned, Others, OtherTransports
<1>8. RetriesPaid'
  <2> SUFFICES ASSUME NEW m \in Seqs PROVE Debt(m)' <= faults'
    BY DEF RetriesPaid
  <2>1. transport[m].retries \in Nat /\ faults' \in Nat
    BY <1>1, DebtType
  <2>2. CASE m = k
    <3>1. transport'[m].retries \in Nat /\ transport'[m].retries <= transport[m].retries + 1
      BY <1>5, <2>1, <2>2
    <3> QED
      BY <1>1, <1>3, <1>6, <1>7, <2>1, <2>2, <3>1, DebtStep
  <2>3. CASE m # k
    <3>1. transport'[m].retries = transport[m].retries
      BY <1>5, <2>3 DEF OtherTransports
    <3> QED
      BY <1>1, <1>6, <1>7, <2>1, <2>3, <3>1, DebtStep
  <2> QED
    BY <2>2, <2>3
<1>9. HandoverOK' /\ ClosedIsFree'
  <2>1. Written
    BY <1>5 DEF Written, OtherTransports
  <2> QED
    BY <1>1, <2>1, LeftHandover
<1>10. HeadCarries'
  BY <1>1, <1>2, <1>5, HeadStays DEF OtherTransports
<1> QED
  BY <1>8, <1>9, <1>10 DEF CarrierParts

\* A transport is finished when the record is closed or another one carries it.
LEMMA FinishCarries ==
  ASSUME CarrierInv, NEW w \in Workers, finishTransport(w)
  PROVE  CarrierParts'
<1> TypeOK
  BY DEF CarrierInv, TaskInv
<1> DEFINE k == worker[w].seq
<1>1. /\ worker[w].pc = "finish" /\ UNCHANGED <<record, faults>>
      /\ worker' = [worker EXCEPT ![w] = Idle]
      /\ \E state \in {"done", "dead"} : FinishTransport(k, state)
  BY DEF finishTransport
<1>2. Others(w) /\ worker'[w].pc = "idle" /\ k \in Seqs
  BY <1>1, WentIdle, RowTypes
<1>3. /\ OtherTransports(k) /\ transport'[k].retries = transport[k].retries
      /\ transport[k].state = "active" => transport'[k].state \in {"done", "dead"}
      /\ transport[k].state # "active" => transport'[k].state = transport[k].state
  BY <1>1, <1>2, FinishRows
<1>4. \/ record.status \in Terminal
      \/ k + 1 \in Seqs /\ transport[k + 1].state # "none"
  <2>1. \/ record.status \in Terminal
        \/ k < MaxSeq /\ transport[k + 1].state # "none"
    BY <1>1 DEF CarrierInv, CarrierParts, HandoverOK, HandedOver
  <2> QED
    BY <1>2, <2>1, JobAssumption DEF Seqs
<1> HIDE DEF k
<1>6. \A m \in Seqs : Owing(m)' \ {w} = Owing(m) \ {w} /\ w \notin Owing(m)'
  BY <1>1, <1>2, HoldsSame, SameOwing, OwesOne
<1>7. \A m \in Seqs : Orphaned(m)' => Orphaned(m)
  BY <1>2, <1>3 DEF Orphaned, Others, OtherTransports, k
<1>8. RetriesPaid'
  <2> SUFFICES ASSUME NEW m \in Seqs PROVE Debt(m)' <= faults'
    BY DEF RetriesPaid
  <2>1. transport'[m].retries = transport[m].retries
    BY <1>3 DEF OtherTransports
  <2> QED
    BY <1>1, <1>6, <1>7, <2>1, DebtType, DebtStep
<1>9. HandoverOK' /\ ClosedIsFree'
  <2>1. Written
    BY <1>3 DEF Written, OtherTransports
  <2> QED
    BY <1>1, <2>1, LeftHandover
<1>10. HeadCarries'
  <2> SUFFICES ASSUME record.status \notin Terminal
               PROVE  \E m \in Seqs : /\ transport'[m].state \in {"ready", "active"}
                                      /\ \A l \in Seqs : l > m => transport'[l].state = "none"
    BY <1>1 DEF HeadCarries
  <2>1. PICK h \in Seqs : /\ transport[h].state \in {"ready", "active"}
                          /\ \A l \in Seqs : l > h => transport[l].state = "none"
    BY DEF CarrierInv, CarrierParts, HeadCarries
  <2>2. k # h
    BY <1>2, <1>4, <2>1 DEF Seqs
  <2>3. \A l \in Seqs : transport[l].state = "none" => transport'[l].state = "none"
    BY <1>3 DEF OtherTransports
  <2> QED
    BY <1>3, <2>1, <2>2, <2>3 DEF OtherTransports
<1> QED
  BY <1>8, <1>9, <1>10 DEF CarrierParts

\* A crash orphans the transport and costs a fault.
LEMMA CrashCarries ==
  ASSUME CarrierInv, NEW w \in Workers, crash(w)
  PROVE  CarrierParts'
<1> TypeOK
  BY DEF CarrierInv, TaskInv
<1>1. /\ UNCHANGED <<record, transport>> /\ faults' = faults + 1
      /\ worker' = [worker EXCEPT ![w] = Idle]
  BY FaultCounts DEF crash
<1>2. Others(w) /\ worker'[w].pc = "idle"
  BY <1>1, WentIdle
<1>3. \A m \in Seqs : Owing(m)' \ {w} = Owing(m) \ {w} /\ w \notin Owing(m)'
  BY <1>1, <1>2, HoldsSame, SameOwing, OwesOne
<1>4. RetriesPaid'
  <2> SUFFICES ASSUME NEW m \in Seqs PROVE Debt(m)' <= faults'
    BY DEF RetriesPaid
  <2> QED
    BY <1>1, <1>3, DebtType, DebtStep
<1>5. HandoverOK' /\ ClosedIsFree'
  BY <1>1, LeftHandover DEF Written
<1>6. HeadCarries'
  BY <1>1, HeadStays
<1> QED
  BY <1>4, <1>5, <1>6 DEF CarrierParts

\* A transport expires under a slow worker, which is a fault, or after a dead one, whose
\* crash was counted.
LEMMA ExpiryCarries ==
  ASSUME CarrierInv, NEW n \in Seqs, transportExpires(n), MaxFaults <= RetryLimit
  PROVE  CarrierParts'
<1> TypeOK
  BY DEF CarrierInv, TaskInv
<1>1. /\ transport[n].state = "active" /\ FailTransport(n) /\ UNCHANGED <<record, worker>>
      /\ Fault \/ (Orphaned(n) /\ UNCHANGED faults)
  BY DEF transportExpires, Orphaned
<1>2. /\ faults \in Nat /\ faults' \in Nat /\ faults' <= MaxFaults
      /\ faults' = faults + 1 \/ (Orphaned(n) /\ faults' = faults)
  BY <1>1, FaultCounts, JobAssumption DEF TypeOK
<1>3. transport[n].retries \in Nat /\ transport[n].retries + 1 <= faults'
  BY <1>2, DebtType DEF Debt
<1>4. transport[n].retries < RetryLimit
  BY <1>2, <1>3, JobAssumption
<1>5. /\ OtherTransports(n) /\ transport'[n].state = "ready"
      /\ transport'[n].retries = transport[n].retries + 1
  BY <1>1, <1>4, FailRows
<1>6. \A m \in Seqs : Owing(m)' = Owing(m)
  BY <1>1 DEF Owing, Owes, Working, Holds
<1>7. RetriesPaid'
  <2> SUFFICES ASSUME NEW m \in Seqs PROVE Debt(m)' <= faults'
    BY DEF RetriesPaid
  <2> DEFINE c == Cardinality(Owing(m))
  <2>1. /\ c \in Nat /\ transport[m].retries \in Nat
        /\ transport[m].retries + c + (IF Orphaned(m) THEN 1 ELSE 0) <= faults
    BY DebtType DEF Debt
  <2>2. Debt(m)' = transport'[m].retries + c + (IF Orphaned(m)' THEN 1 ELSE 0)
    BY <1>6 DEF Debt
  <2> HIDE DEF c
  <2>3. CASE m = n
    <3>1. ~Orphaned(m)'
      BY <1>5, <2>3 DEF Orphaned
    <3> QED
      BY <1>2, <1>5, <2>1, <2>2, <2>3, <3>1
  <2>4. CASE m # n
    <3>1. transport'[m] = transport[m]
      BY <1>5, <2>4 DEF OtherTransports
    <3>2. Orphaned(m)' <=> Orphaned(m)
      BY <1>1, <3>1 DEF Orphaned
    <3> QED
      BY <1>2, <2>1, <2>2, <3>1, <3>2
  <2> QED
    BY <2>3, <2>4
<1>8. HandoverOK'
  <2> SUFFICES ASSUME NEW v \in Workers PROVE HandedOver(v)'
    BY DEF HandoverOK
  <2>1. HandedOver(v)
    BY DEF CarrierInv, CarrierParts, HandoverOK
  <2>2. worker[v].seq \in Seqs /\ (worker[v].seq < MaxSeq => worker[v].seq + 1 \in Seqs)
    BY RowTypes, JobAssumption DEF Seqs
  <2>3. Written
    BY <1>5 DEF Written, OtherTransports
  <2> QED
    BY <1>1, <2>1, <2>2, <2>3 DEF Written, HandedOver
<1>9. ClosedIsFree'
  BY <1>1 DEF CarrierInv, CarrierParts, ClosedIsFree
<1>10. HeadCarries'
  BY <1>1, <1>5, HeadStays DEF OtherTransports
<1> QED
  BY <1>7, <1>8, <1>9, <1>10 DEF CarrierParts

\* A lease that runs out under its worker is a fault, for the outcome will be refused.
LEMMA LeaseCarries ==
  ASSUME CarrierInv, leaseExpires
  PROVE  CarrierParts'
<1> TypeOK
  BY DEF CarrierInv, TaskInv
<1> DEFINE w == record.lease
<1>1. /\ w \in Workers /\ record.live /\ UNCHANGED <<transport, worker>>
      /\ record'.lease = w /\ record'.live = FALSE /\ record'.status = record.status
      /\ Fault \/ (~Working(w) /\ UNCHANGED faults)
  BY RowTypes DEF leaseExpires, Leased, TypeOK, RecordRows
<1>2. /\ faults' = faults + 1 \/ (~Working(w) /\ faults' = faults)
      /\ faults' \in {faults, faults + 1}
  BY <1>1, FaultCounts
<1>3. \A v \in Workers : Working(v)' <=> Working(v)
  BY <1>1 DEF Working
<1>4. \A v \in Workers : v # w => ~Holds(v)' /\ ~Holds(v)
  BY <1>1 DEF Holds
<1>5. PICK u \in Workers : u = w
  BY <1>1
<1> HIDE DEF w
<1>6. /\ \A v \in Workers : v # u => (Owes(v)' <=> Owes(v))
      /\ Owes(u)' => Owes(u) \/ faults' = faults + 1
  <2>1. ASSUME NEW v \in Workers, v # u PROVE Owes(v)' <=> Owes(v)
    BY <1>1, <1>3, <1>4, <1>5, <2>1 DEF Owes
  <2>2. ~Working(u) => (Owes(u)' => Owes(u))
    BY <1>1, <1>3, <1>5 DEF Owes
  <2> QED
    BY <1>2, <1>5, <2>1, <2>2
<1>7. \A n \in Seqs :
        /\ Owing(n)' \ {u} = Owing(n) \ {u}
        /\ u \in Owing(n)' => u \in Owing(n) \/ faults' = faults + 1
        /\ Orphaned(n)' => Orphaned(n)
  BY <1>1, <1>6 DEF Owing, Orphaned
<1>8. RetriesPaid'
  <2> SUFFICES ASSUME NEW n \in Seqs PROVE Debt(n)' <= faults'
    BY DEF RetriesPaid
  <2>1. faults' \in Nat /\ transport'[n].retries \in Nat
    BY <1>1, <1>2, DebtType
  <2> QED
    BY <1>1, <1>2, <1>7, <2>1, DebtStep
<1>9. HandoverOK' /\ HeadCarries'
  BY <1>1, HeadStays DEF CarrierInv, CarrierParts, HandoverOK, HandedOver
<1>10. ClosedIsFree'
  BY <1>1 DEF CarrierInv, CarrierParts, ClosedIsFree, w
<1> QED
  BY <1>8, <1>9, <1>10 DEF CarrierParts

\* A cancellation request, the end of the task, a stutter.
LEMMA QuietCarries ==
  ASSUME CarrierInv, requestCancel \/ taskEnds \/ UNCHANGED vars
  PROVE  CarrierParts'
<1> TypeOK
  BY DEF CarrierInv, TaskInv
<1>1. /\ UNCHANGED <<transport, worker, faults>>
      /\ record'.lease = record.lease /\ record'.live = record.live
      /\ record'.status = record.status
         \/ (record.status \notin Terminal /\ record'.status \notin Terminal)
  BY DEF requestCancel, taskEnds, vars, TypeOK, RecordRows, Terminal
<1>2. \A n \in Seqs : /\ Owing(n)' = Owing(n) /\ transport'[n] = transport[n]
                      /\ Orphaned(n)' <=> Orphaned(n)
  BY <1>1 DEF Owing, Owes, Working, Holds, Orphaned
<1>3. \A n \in Seqs : Debt(n)' = Debt(n)
  BY <1>2 DEF Debt
<1>4. RetriesPaid'
  BY <1>1, <1>3 DEF CarrierInv, CarrierParts, RetriesPaid
<1>5. HandoverOK' /\ HeadCarries' /\ ClosedIsFree'
  BY <1>1, HeadStays DEF CarrierInv, CarrierParts, HandoverOK, HandedOver, ClosedIsFree
<1> QED
  BY <1>4, <1>5 DEF CarrierParts

\* A worker goes on without a change to the record.
LEMMA Moves ==
  ASSUME CarrierInv, NEW w \in Workers, Others(w), UNCHANGED <<record, transport>>,
         worker[w].pc # "idle", worker'[w].seq = worker[w].seq,
         faults' \in {faults, faults + 1},
         Owes(w)' => Owes(w) \/ faults' = faults + 1,
         worker'[w].pc # "idle",
         worker'[w].pc \in {"notify", "finish"} => record.status \in Terminal,
         worker'[w].pc \in {"defer", "receipt"} => worker[w].seq < MaxSeq,
         worker'[w].pc = "record" => worker'[w].outcome # "accepted",
         worker'[w].pc \in {"settle", "record"} =>
            /\ worker'[w].outcome # "none"
            /\ worker'[w].outcome \in {"pending", "unknown"} => worker[w].seq < MaxSeq
  PROVE  CarrierParts'
<1>1. HandedOver(w)'
  BY DEF CarrierInv, CarrierParts, HandoverOK, HandedOver
<1>2. \A v \in Workers \ {w} : Holds(v)' <=> Holds(v)
  BY HoldsSame
<1> QED
  BY <1>1, <1>2, Stays

\* An execution goes on: it comes to owe a retry only when it is rejected.
LEMMA WorksOn ==
  ASSUME CarrierInv, NEW w \in Workers, Others(w), UNCHANGED <<record, transport>>,
         worker[w].pc \in {"execute", "submit", "receipt", "reconcile", "poll", "cancel",
                           "settle"},
         worker'[w].pc \in {"submit", "receipt", "poll", "settle", "record"},
         worker'[w].seq = worker[w].seq,
         faults' \in {faults, faults + 1},
         worker'[w].pc = "receipt" => worker[w].seq < MaxSeq,
         worker'[w].pc = "record" => worker'[w].outcome # "accepted",
         worker'[w].pc \in {"settle", "record"} =>
            /\ worker'[w].outcome # "none"
            /\ worker'[w].outcome = "rejected" =>
                  \/ faults' = faults + 1
                  \/ worker[w].pc = "settle" /\ worker[w].outcome = "rejected"
            /\ worker'[w].outcome \in {"pending", "unknown"} => worker[w].seq < MaxSeq
  PROVE  CarrierParts'
<1>1. Working(w) /\ (Holds(w)' <=> Holds(w))
  BY HoldsSame DEF Working
<1>2. Owes(w)' => Owes(w) \/ faults' = faults + 1
  BY <1>1 DEF Owes
<1> QED
  BY <1>2, Moves

\* The steps of a handler keep the job carried, as long as faults do not exceed retries.
LEMMA HandleCarries ==
  ASSUME CarrierInv, NEW w \in Workers, Handle(w) \/ submitLost(w), MaxFaults <= RetryLimit
  PROVE  CarrierParts'
<1> TypeOK
  BY DEF CarrierInv, TaskInv
<1>h. HandedOver(w)
  BY DEF CarrierInv, CarrierParts, HandoverOK
<1>1. CASE reserve(w)
  <2>0. worker[w].pc = "reserve" /\ UNCHANGED <<transport, faults>>
    BY <1>1 DEF reserve
  <2>1. CASE Noticed(w)
    <3>1. UNCHANGED record /\ record.status \in Terminal
      BY <2>1 DEF Noticed
    <3>2. Others(w) /\ worker'[w].pc = "notify" /\ worker'[w].seq = worker[w].seq
      BY <2>1, NoticedRows
    <3>3. ~Owes(w)'
      BY <3>2 DEF Owes, Working
    <3> QED
      BY <2>0, <3>1, <3>2, <3>3, Moves
  <2>2. CASE Deferred(w)
    <3>1. UNCHANGED record /\ Go(w, "defer") /\ worker[w].seq < MaxSeq
      BY <2>2 DEF Deferred, MayDefer
    <3>2. Others(w) /\ worker'[w].pc = "defer" /\ worker'[w].seq = worker[w].seq
      BY <3>1, Names, Went
    <3>3. ~Owes(w)'
      BY <3>2 DEF Owes, Working
    <3> QED
      BY <2>0, <3>1, <3>2, <3>3, Moves
  <2>3. CASE Took(w)
    <3>1. /\ Others(w) /\ worker'[w].seq = worker[w].seq
          /\ worker'[w].pc \in {"execute", "cancel", "reconcile"}
          /\ record'.lease = w /\ record'.live = TRUE
          /\ record'.status = "running" \/ record'.status = record.status
      BY <2>3, TookRows
    <3>2. record.status \notin Terminal /\ ~Leased /\ record'.status \notin Terminal
      BY <2>3, <3>1 DEF Took, Terminal
    <3>3. \A v \in Workers \ {w} : ~Holds(v)' /\ ~Holds(v)
      BY <3>1, <3>2, JobAssumption DEF Holds, Leased
    <3>4. ~Owes(w)'
      BY <3>1 DEF Owes, Holds
    <3>5. HandedOver(w)'
      BY <1>h, <2>0, <3>1 DEF HandedOver
    <3> QED
      BY <2>0, <3>1, <3>2, <3>3, <3>4, <3>5, Stays
  <2> QED
    BY <1>1, <2>1, <2>2, <2>3 DEF reserve, Noticed, Deferred, Took
<1>2. CASE checkpointAttempt(w)
  <2>0. worker[w].pc = "execute" /\ UNCHANGED <<record, transport, faults>>
    BY <1>2 DEF checkpointAttempt
  <2>1. Others(w) /\ worker'[w].pc = "submit" /\ worker'[w].seq = worker[w].seq
    BY <1>2, CheckpointRows DEF Stepped
  <2> QED
    BY <2>0, <2>1, WorksOn
<1>3. CASE submitAccepted(w)
  <2>1. Learned(w, "receipt", TRUE, "pending")
    BY <1>3 DEF submitAccepted, Learned
  <2>2. Others(w) /\ worker'[w].pc = "receipt" /\ worker'[w].seq = worker[w].seq
    BY <2>1, Names, HasRef
  <2>3. /\ worker[w].pc = "submit" /\ UNCHANGED <<record, transport, faults>>
        /\ worker[w].seq < MaxSeq
    BY <1>3 DEF submitAccepted, MayDefer
  <2> QED
    BY <2>2, <2>3, WorksOn
<1>4. CASE submitRejected(w)
  <2>0. worker[w].pc = "submit" /\ UNCHANGED <<record, transport>>
    BY <1>4 DEF submitRejected
  <2>1. /\ Others(w) /\ worker'[w].pc = "settle" /\ worker'[w].seq = worker[w].seq
        /\ worker'[w].outcome \in {"rejected", "refused"}
        /\ worker'[w].outcome = "rejected" => faults' = faults + 1
        /\ faults' \in {faults, faults + 1}
    BY <1>4, RejectedRows DEF Stepped, Counted
  <2> QED
    BY <2>0, <2>1, WorksOn
<1>5. CASE putReceipt(w)
  <2>0. worker[w].pc = "receipt" /\ UNCHANGED <<record, transport>>
    BY <1>5 DEF putReceipt
  <2>1. ReceiptOK
    BY DEF CarrierInv, TaskInv, TaskParts
  <2>2. /\ Others(w) /\ worker'[w].pc = "settle" /\ worker'[w].seq = worker[w].seq
        /\ worker'[w].outcome \in {"pending", "unknown"}
        /\ faults' \in {faults, faults + 1}
    BY <1>5, <2>1, ReceiptRows DEF Stepped, Counted
  <2>3. worker[w].seq < MaxSeq
    BY <1>h, <2>0 DEF HandedOver
  <2> QED
    BY <2>0, <2>2, <2>3, WorksOn
<1>6. CASE recover(w)
  <2>0. worker[w].pc = "reconcile" /\ UNCHANGED <<record, transport>>
    BY <1>6 DEF recover
  <2>1. /\ Others(w) /\ worker'[w].seq = worker[w].seq /\ faults' \in {faults, faults + 1}
        /\ \/ worker'[w].pc = "poll"
           \/ /\ worker'[w].pc = "settle"
              /\ \/ worker'[w].outcome \in {"accepted", "refused"}
                 \/ worker'[w].outcome = "unknown" /\ worker[w].seq < MaxSeq
    BY <1>6, RecoverRows DEF Stepped, Counted
  <2> QED
    BY <2>0, <2>1, WorksOn
<1>7. CASE poll(w)
  <2>0. worker[w].pc = "poll" /\ UNCHANGED <<record, transport>>
    BY <1>7 DEF poll
  <2>1. /\ Others(w) /\ worker'[w].seq = worker[w].seq /\ faults' \in {faults, faults + 1}
        /\ \/ /\ worker'[w].pc = "record" /\ worker'[w].outcome \in {"pending", "unknown"}
              /\ worker[w].seq < MaxSeq
           \/ worker'[w].pc = "settle" /\ worker'[w].outcome \in {"failed", "completed"}
    BY <1>7, PollRows DEF Stepped, Counted
  <2> QED
    BY <2>0, <2>1, WorksOn
<1>15. CASE cancelTask(w)
  <2>0. worker[w].pc = "cancel" /\ UNCHANGED <<record, transport>>
    BY <1>15 DEF cancelTask
  <2>1. /\ Others(w) /\ worker'[w].seq = worker[w].seq /\ faults' \in {faults, faults + 1}
        /\ worker'[w].pc \in {"settle", "record"}
        /\ \/ worker'[w].outcome = "cancelled"
           \/ worker'[w].outcome \in {"pending", "unknown"} /\ worker[w].seq < MaxSeq
    BY <1>15, CancelRows DEF Stepped, Counted
  <2> QED
    BY <2>0, <2>1, WorksOn
<1>16. CASE settle(w)
  <2>0. worker[w].pc = "settle" /\ UNCHANGED <<record, transport>>
    BY <1>16 DEF settle
  <2>1. /\ worker[w].outcome # "none"
        /\ worker[w].outcome \in {"pending", "unknown"} => worker[w].seq < MaxSeq
    BY <1>h, <2>0 DEF HandedOver
  <2>2. /\ Others(w) /\ worker'[w].seq = worker[w].seq /\ faults' \in {faults, faults + 1}
        /\ worker'[w].pc \in {"poll", "record"}
        /\ worker'[w].pc = "record" => worker'[w].outcome # "accepted"
        /\ \/ worker'[w].outcome = worker[w].outcome
           \/ worker'[w].outcome = "unknown" /\ worker[w].seq < MaxSeq
    BY <1>16, SettleRows DEF Stepped, Counted
  <2> QED
    BY <2>0, <2>1, <2>2, WorksOn
<1>8. CASE update(w)
  <2>0. worker[w].pc = "record" /\ UNCHANGED <<transport, faults>>
    BY <1>8 DEF update
  <2>1. CASE Current(w)
    <3> DEFINE outcome == worker[w].outcome
    <3>1. /\ record'.status = StatusAfter(record.status, outcome) /\ record'.lease = None
      BY <1>8, <2>1, UpdatedRows
    <3>2. AfterRecord(outcome) \in {"defer", "retry", "notify"} /\ Go(w, AfterRecord(outcome))
      BY <1>8, <2>1 DEF update, AfterRecord
    <3>3. /\ Others(w) /\ worker'[w].seq = worker[w].seq /\ worker'[w].pc = AfterRecord(outcome)
      BY <3>2, Names, Went
    <3>4. /\ outcome \in Outcomes \ {"none", "accepted"}
          /\ outcome \in {"pending", "unknown"} => worker[w].seq < MaxSeq
      BY <1>h, <2>0, RowTypes DEF HandedOver
    <3>5. /\ AfterRecord(outcome) = "notify" => record'.status \in Terminal
          /\ AfterRecord(outcome) = "retry" => outcome = "rejected"
          /\ AfterRecord(outcome) = "defer" => outcome \in {"pending", "unknown"}
      BY <3>1, <3>4 DEF AfterRecord, StatusAfter, Terminal, Outcomes
    <3>6. Owes(w)' => Owes(w)
      BY <2>0, <3>2, <3>3, <3>5 DEF Owes, Working
    <3>7. HandedOver(w)'
      BY <1>h, <2>0, <3>2, <3>3, <3>4, <3>5 DEF HandedOver
    <3>8. \A v \in Workers \ {w} : ~Holds(v)' /\ ~Holds(v)
      BY <2>1, <3>1, JobAssumption DEF Holds, Current
    <3>9. record.status \notin Terminal
      BY <2>1 DEF Current
    <3>10. worker'[w].pc # "idle"
      BY <3>2, <3>3
    <3> HIDE DEF outcome
    <3> QED
      BY <2>0, <3>1, <3>3, <3>6, <3>7, <3>8, <3>9, <3>10, Stays
  <2>2. CASE ~Current(w)
    <3>1. Go(w, "threw") /\ UNCHANGED record
      BY <1>8, <2>2 DEF update
    <3>2. Others(w) /\ worker'[w].pc = "threw" /\ worker'[w].seq = worker[w].seq
      BY <3>1, Names, Went
    <3>3. ~Holds(w)
      BY <2>2, JobAssumption DEF Current, Holds, CarrierInv, CarrierParts, ClosedIsFree
    <3>4. Owes(w)
      BY <2>0, <3>3 DEF Owes, Working
    <3> QED
      BY <2>0, <3>1, <3>2, <3>4, Moves
  <2> QED
    BY <2>1, <2>2
<1>9. CASE enqueueContinuation(w)
  <2>0. worker[w].pc = "defer" /\ UNCHANGED record
    BY <1>9 DEF enqueueContinuation
  <2>1. CASE Continued(w)
    BY <2>0, <2>1, ContinuedCarries
  <2>2. CASE Fault /\ Go(w, "threw") /\ UNCHANGED transport
    <3>1. faults' = faults + 1
      BY <2>2, FaultCounts
    <3>2. Others(w) /\ worker'[w].pc = "threw" /\ worker'[w].seq = worker[w].seq
      BY <2>2, Names, Went
    <3> QED
      BY <2>0, <2>2, <3>1, <3>2, Moves
  <2> QED
    BY <1>9, <2>1, <2>2 DEF enqueueContinuation, Continued
<1>10. CASE notifyTerminal(w)
  <2>0. worker[w].pc = "notify" /\ UNCHANGED <<record, transport>> /\ faults' \in {faults, faults + 1}
    BY <1>10, FaultCounts DEF notifyTerminal
  <2>1. record.status \in Terminal
    BY <1>h, <2>0 DEF HandedOver
  <2>2. PICK step \in {"finish", "retry"} : Go(w, step) /\ (step = "retry" => faults' = faults + 1)
    BY <1>10, FaultCounts DEF notifyTerminal
  <2>3. Others(w) /\ worker'[w].pc = step /\ worker'[w].seq = worker[w].seq
    BY <2>2, Names, Went
  <2>4. Owes(w)' => faults' = faults + 1
    BY <2>2, <2>3 DEF Owes, Working
  <2> QED
    BY <2>0, <2>1, <2>2, <2>3, <2>4, Moves
<1>11. CASE threw(w)
  <2>0. worker[w].pc = "threw" /\ UNCHANGED <<record, transport, faults>> /\ Go(w, "retry")
    BY <1>11 DEF threw
  <2>1. Others(w) /\ worker'[w].pc = "retry" /\ worker'[w].seq = worker[w].seq
    BY <2>0, Names, Went
  <2>2. Owes(w)
    BY <2>0 DEF Owes
  <2> QED
    BY <2>0, <2>1, <2>2, Moves
<1>12. CASE failTransport(w)
  BY <1>12, FailCarries
<1>13. CASE finishTransport(w)
  BY <1>13, FinishCarries
<1>14. CASE submitLost(w)
  <2>1. /\ Others(w) /\ worker'[w].pc = "receipt" /\ worker'[w].seq = worker[w].seq
    BY <1>14, LostRows DEF submitLost
  <2>2. /\ worker[w].pc = "submit" /\ UNCHANGED <<record, transport>>
        /\ worker[w].seq < MaxSeq /\ faults' = faults + 1
    BY <1>14, FaultCounts DEF submitLost, MayDefer
  <2> QED
    BY <2>1, <2>2, WorksOn
<1> QED
  BY <1>1, <1>2, <1>3, <1>4, <1>5, <1>6, <1>7, <1>8, <1>9, <1>10, <1>11, <1>12, <1>13, <1>14,
     <1>15, <1>16
     DEF Handle

\* The invariant of the carriers holds at the start.
LEMMA CarrierInit == Init => CarrierInv
<1> SUFFICES ASSUME Init PROVE CarrierInv
  OBVIOUS
<1>1. TaskInv
  BY TaskInit
<1>2. /\ \A w \in Workers : worker[w].pc = "idle"
      /\ record.status = "queued" /\ faults = 0 /\ 0 \in Seqs
      /\ \A n \in Seqs : /\ transport[n].retries = 0
                         /\ transport[n].state = IF n = 0 THEN "ready" ELSE "none"
  BY IdleRow DEF Init
<1>3. RetriesPaid
  <2> SUFFICES ASSUME NEW n \in Seqs PROVE Debt(n) <= faults
    BY DEF RetriesPaid
  <2>1. Owing(n) = {}
    BY <1>2 DEF Owing, Owes, Working
  <2>2. Cardinality(Owing(n)) = 0
    BY <2>1, FS_EmptySet
  <2>3. ~Orphaned(n)
    BY <1>2 DEF Orphaned
  <2> QED
    BY <1>2, <2>2, <2>3 DEF Debt
<1>4. HandoverOK /\ ClosedIsFree
  BY <1>2 DEF HandoverOK, HandedOver, ClosedIsFree, Terminal
<1>5. HeadCarries
  <2>1. \A m \in Seqs : m > 0 => transport[m].state = "none"
    BY <1>2, JobAssumption DEF Seqs
  <2> QED
    BY <1>2, <2>1 DEF HeadCarries
<1> QED
  BY <1>1, <1>3, <1>4, <1>5 DEF CarrierInv, CarrierParts

\* Every step keeps the invariant of the carriers.
LEMMA CarrierStep == MaxFaults <= RetryLimit /\ CarrierInv /\ [Next]_vars => CarrierInv'
<1> SUFFICES ASSUME MaxFaults <= RetryLimit, CarrierInv, [Next]_vars PROVE CarrierInv'
  OBVIOUS
<1>1. TaskInv'
  BY TaskStep DEF CarrierInv
<1>2. CarrierParts'
  BY HandleCarries, FetchCarries, CrashCarries, ExpiryCarries, LeaseCarries, QuietCarries
     DEF Next
<1> QED
  BY <1>1, <1>2 DEF CarrierInv

\* Whenever the crashes, lapses and failed calls do not outnumber the retries of a
\* transport, an open record is carried by a transport that will be delivered.
THEOREM JobsAreCarried ==
  ASSUME MaxFaults <= RetryLimit
  PROVE  Spec => []JobIsCarried
<1>1. Init => CarrierInv
  BY CarrierInit
<1>2. CarrierInv /\ [Next]_vars => CarrierInv'
  BY CarrierStep
<1>3. CarrierInv => JobIsCarried
  BY DEF CarrierInv, CarrierParts, HeadCarries, JobIsCarried
<1> QED
  BY <1>1, <1>2, <1>3, PTL DEF Spec

=============================================================================
