------------------------------ MODULE MediaJob ------------------------------
(***************************************************************************)
(* One durable media generation: the job record of the tracer repository,  *)
(* the pg-boss transports that carry it, the workers that handle them, the  *)
(* provider's task, the adapter's receipt for it and the generation ledger,  *)
(* in which every answer of the provider is settled before it is recorded.   *)
(*                                                                         *)
(* The transports deliver at least once: a continuation is written before   *)
(* its predecessor is completed, a worker may die between any two steps,    *)
(* and both the transport and the lease on the record may run out under a   *)
(* worker that is only slow.  The model starts right after submit, which    *)
(* writes the record and the first transport in one transaction.            *)
(***************************************************************************)
EXTENDS Naturals, FiniteSets

CONSTANTS
    Workers,     \* processes that handle transports
    None,        \* no lease
    MaxSeq,      \* bound on the continuations of the job
    RetryLimit,  \* pg-boss retries of one transport
    MaxFaults,   \* crashes, lapses and failed calls
    Cancels      \* may the job be cancelled?

ASSUME JobAssumption ==
    /\ MaxSeq \in Nat
    /\ RetryLimit \in Nat
    /\ MaxFaults \in Nat
    /\ Cancels \in BOOLEAN
    /\ IsFiniteSet(Workers) /\ None \notin Workers

VARIABLES
    record,     \* the row of the tracer repository
    transport,  \* pg-boss jobs by sequence number
    worker,     \* what each process is doing
    task,       \* the provider's task that the job follows
    tasks,      \* how many tasks the provider has taken for this job
    hidden,     \* how many of them behind an error answer: nobody follows those
    receipt,    \* what the adapter's receipt store holds
    ledger,     \* the generation ledger's job
    told,       \* terminal notifications the workflow has received
    faults

vars == <<record, transport, worker, task, tasks, hidden, receipt, ledger, told, faults>>

Terminal == {"completed", "failed", "cancelled"}
Seqs == 0 .. MaxSeq

\* The outcomes a handler records, besides "none" before there is one.
Outcomes == {"none", "pending", "accepted", "unknown", "rejected", "refused",
             "completed", "failed", "cancelled"}

\* Once the ledger's job is closed it takes no other settlement.
Closed == {"failed", "completed"}

Idle == [pc |-> "idle", seq |-> 0, tried |-> FALSE, ref |-> FALSE,
         closed |-> FALSE, outcome |-> "none"]

RecordRows == [status : {"queued", "running", "unknown", "cancel_requested"} \cup Terminal,
               ref : BOOLEAN, lease : Workers \cup {None}, live : BOOLEAN, tried : BOOLEAN]
TransportRows == [state : {"none", "ready", "active", "done", "dead"},
                  retries : 0 .. RetryLimit]
WorkerRows == [pc : {"idle", "reserve", "execute", "submit", "receipt", "reconcile", "poll",
                     "cancel", "settle", "record", "defer", "notify", "retry", "threw",
                     "finish"},
               seq : Seqs, tried : BOOLEAN, ref : BOOLEAN, closed : BOOLEAN,
               outcome : Outcomes]

TypeOK ==
    /\ record \in RecordRows
    /\ transport \in [Seqs -> TransportRows]
    /\ worker \in [Workers -> WorkerRows]
    /\ task \in {"none", "working", "done", "failed", "removed"}
    /\ tasks \in Nat /\ hidden \in Nat
    /\ ledger \in {"none", "open", "unknown"} \cup Closed
    /\ receipt \in {"none", "accepted", "unknown"}
    /\ told \subseteq {"completed", "failed"}
    /\ faults \in 0 .. MaxFaults

Init ==
    /\ record = [status |-> "queued", ref |-> FALSE, lease |-> None,
                 live |-> FALSE, tried |-> FALSE]
    /\ transport = [n \in Seqs |-> [state |-> IF n = 0 THEN "ready" ELSE "none",
                                    retries |-> 0]]
    /\ worker = [w \in Workers |-> Idle]
    /\ task = "none" /\ tasks = 0 /\ hidden = 0 /\ receipt = "none"
    /\ ledger = "none"
    /\ told = {}
    /\ faults = 0

Fault == faults < MaxFaults /\ faults' = faults + 1

Go(w, step) == worker' = [worker EXCEPT ![w].pc = step]

\* The worker has an outcome to settle or to record.
Outcome(w, step, outcome) ==
    worker' = [worker EXCEPT ![w].pc = step, ![w].outcome = outcome]

\* An exception is recorded as unknown, with the reference the record had.
Throws(w) ==
    worker' = [worker EXCEPT ![w].pc = "record", ![w].ref = FALSE,
                             ![w].outcome = "unknown"]

\* A deferral writes the next transport; MaxSeq is where the model stops.
MayDefer(w) == worker[w].seq < MaxSeq

provider == <<task, tasks, hidden, receipt, ledger>>

-----------------------------------------------------------------------------
(* pg-boss *)

\* pg-boss hands a transport to a worker.
fetch(w, n) ==
    /\ worker[w].pc = "idle"
    /\ transport[n].state = "ready"
    /\ transport' = [transport EXCEPT ![n].state = "active"]
    /\ worker' = [worker EXCEPT ![w] = [Idle EXCEPT !.pc = "reserve", !.seq = n]]
    /\ UNCHANGED <<record, provider, told, faults>>

\* A transport that failed is retried, and in the end moved to the dead letter.
FailTransport(n) ==
    transport' = [transport EXCEPT ![n] =
        IF @.state # "active" THEN @
        ELSE IF @.retries < RetryLimit
        THEN [state |-> "ready", retries |-> @.retries + 1]
        ELSE [@ EXCEPT !.state = "dead"]]

FinishTransport(n, state) ==
    transport' = [transport EXCEPT ![n].state = IF @ = "active" THEN state ELSE @]

\* The heartbeat of a dead worker stops; a slow one outlives its fifteen minutes.
transportExpires(n) ==
    /\ transport[n].state = "active"
    /\ FailTransport(n)
    /\ \/ Fault
       \/ /\ \A w \in Workers : worker[w].pc # "idle" => worker[w].seq # n
          /\ UNCHANGED faults
    /\ UNCHANGED <<record, worker, provider, told>>

-----------------------------------------------------------------------------
(* DurableTracerWorker.handle: reserve *)

\* Mutant: the lease of a dead worker is never taken over.
LeasedForEver == record.lease # None
Leased == record.lease # None /\ record.live

\* Mutant: what is unknown is submitted again.
DecisionResubmits ==
    CASE record.status = "cancel_requested"  -> "cancel"
      [] record.status = "running"           -> "reconcile"
      [] OTHER                               -> "execute"
Decision ==
    CASE record.status = "queued"           -> "execute"
      [] record.status = "cancel_requested" -> "cancel"
      [] OTHER                              -> "reconcile"

reserve(w) ==
    /\ worker[w].pc = "reserve"
    /\ \/ /\ record.status \in Terminal
          /\ worker' = [worker EXCEPT ![w].pc = "notify",
                                      ![w].outcome = record.status]
          /\ UNCHANGED record
       \/ /\ record.status \notin Terminal
          /\ Leased
          /\ MayDefer(w)
          /\ Go(w, "defer")
          /\ UNCHANGED record
       \/ /\ record.status \notin Terminal
          /\ ~Leased
          /\ record' = [record EXCEPT
                !.status = IF Decision = "execute" THEN "running" ELSE @,
                !.lease = w, !.live = TRUE, !.tried = TRUE]
          /\ worker' = [worker EXCEPT ![w].pc = Decision,
                                      ![w].tried = record.tried,
                                      ![w].ref = record.ref]
    /\ UNCHANGED <<transport, provider, told, faults>>

-----------------------------------------------------------------------------
(* ModelMediaGenerationEffect over the provider adapter *)

\* The attempt is checkpointed before the provider is called.  A checkpoint that
\* is already there and has no result yet is settled as unknown; one that has a
\* result leaves it alone and the submission goes on all the same.
checkpointAttempt(w) ==
    /\ worker[w].pc = "execute"
    /\ ledger' = CASE ledger = "none" -> "open"
                   [] ledger = "open" -> "unknown"
                   [] OTHER           -> ledger
    /\ Go(w, "submit")
    /\ UNCHANGED <<record, transport, task, tasks, hidden, receipt, told, faults>>

\* The provider takes the request; the receipt is not stored yet.  A durable
\* receipt would be answered again without a call, but a record that is executed
\* has none yet.
submitAccepted(w) ==
    /\ worker[w].pc = "submit"
    /\ receipt = "none"
    /\ MayDefer(w)
    /\ task' = "working" /\ tasks' = tasks + 1
    /\ worker' = [worker EXCEPT ![w].pc = "receipt", ![w].ref = TRUE,
                                ![w].outcome = "pending"]
    /\ UNCHANGED <<record, transport, hidden, receipt, ledger, told, faults>>

\* The answer is lost, before or after the provider took the request.
submitLost(w) ==
    /\ worker[w].pc = "submit"
    /\ receipt = "none"
    /\ MayDefer(w)
    /\ Fault
    /\ \/ task' = "working" /\ tasks' = tasks + 1
       \/ UNCHANGED <<task, tasks>>
    /\ worker' = [worker EXCEPT ![w].pc = "receipt", ![w].outcome = "unknown"]
    /\ UNCHANGED <<record, transport, hidden, receipt, ledger, told>>

\* When the store fails, the acceptance itself becomes unknown.
putReceipt(w) ==
    /\ worker[w].pc = "receipt"
    /\ \/ /\ receipt' = IF worker[w].ref THEN "accepted" ELSE "unknown"
          /\ Go(w, "settle")
          /\ UNCHANGED faults
       \/ /\ Fault
          /\ receipt' \in {receipt, "unknown"}
          /\ worker' = [worker EXCEPT ![w].pc = "settle", ![w].ref = FALSE,
                                      ![w].outcome = "unknown"]
    /\ UNCHANGED <<record, transport, task, tasks, hidden, ledger, told>>

\* An HTTP error of the provider counts as a rejection before acceptance, for
\* good or, with 408, 429 and 5xx, for now; no receipt is stored for either.  A
\* gateway that answers 408 or 5xx may have passed the request on before: then
\* the provider has a task that nobody follows.
submitRejected(w) ==
    /\ worker[w].pc = "submit"
    /\ receipt = "none"
    /\ \/ /\ Fault
          /\ Outcome(w, "settle", "rejected")
          /\ \/ tasks' = tasks + 1 /\ hidden' = hidden + 1
             \/ UNCHANGED <<tasks, hidden>>
       \/ /\ Outcome(w, "settle", "refused")
          /\ UNCHANGED <<tasks, hidden, faults>>
    /\ UNCHANGED <<record, transport, task, receipt, ledger, told>>

\* Reads the ledger's result of the attempt; one that has none is settled as
\* unknown, and one that is missing is made first.
recoverPending == ledger' = IF ledger \in {"none", "open"} THEN "unknown" ELSE ledger

\* reconcile without a task reference asks for the receipt, and never submits.
\* Before that it resolves the request's reference assets; one that is gone by
\* now counts as a rejection for good, whatever the provider has done.
recover(w) ==
    /\ worker[w].pc = "reconcile"
    /\ \/ /\ worker[w].ref
          /\ recoverPending
          /\ worker' = [worker EXCEPT ![w].pc = "poll", ![w].closed = ledger \in Closed]
          /\ UNCHANGED faults
       \/ /\ ~worker[w].ref /\ receipt = "accepted"
          /\ worker' = [worker EXCEPT ![w].pc = "settle", ![w].ref = TRUE,
                                      ![w].outcome = "accepted"]
          /\ UNCHANGED <<ledger, faults>>
       \/ /\ ~worker[w].ref
          /\ MayDefer(w)
          /\ Outcome(w, "settle", "unknown")
          /\ (receipt # "accepted" /\ UNCHANGED faults) \/ Fault
          /\ UNCHANGED ledger
       \/ /\ ~worker[w].ref
          /\ Outcome(w, "settle", "refused")
          /\ UNCHANGED <<ledger, faults>>
    /\ UNCHANGED <<record, transport, task, tasks, hidden, receipt, told>>

\* Mutant: a task that is not done yet counts as failed.
TaskNotDone == task # "done"
TaskFailed == task \in {"failed", "removed"}

\* A result is settled; what is pending or could not be read is only recorded.
poll(w) ==
    /\ worker[w].pc = "poll"
    /\ \/ /\ task = "working"
          /\ MayDefer(w)
          /\ Outcome(w, "record", "pending")
          /\ UNCHANGED faults
       \/ /\ TaskFailed
          /\ Outcome(w, "settle", "failed")
          /\ UNCHANGED faults
       \/ /\ task = "done"
          /\ Outcome(w, "settle", "completed")
          /\ UNCHANGED faults
       \/ /\ MayDefer(w)
          /\ Fault
          /\ Outcome(w, "record", "unknown") \/ Throws(w)
    /\ UNCHANGED <<record, transport, provider, told>>

\* Nothing was ever tried: nothing to cancel.
\* Mutant: without a reference the receipt is not asked for.
NeverReferenced(w) == ~worker[w].ref
NeverTried(w) == ~worker[w].ref /\ ~worker[w].tried

\* Otherwise the task has to be found, by its reference or its receipt.
Findable(w) == worker[w].ref \/ (worker[w].tried /\ receipt = "accepted")

\* The provider removes the task or, while it works or when the call fails,
\* leaves the cancellation pending.
cancelTask(w) ==
    /\ worker[w].pc = "cancel"
    /\ \/ /\ NeverTried(w)
          /\ Outcome(w, "record", "cancelled")
          /\ UNCHANGED <<task, ledger, faults>>
       \/ /\ ~NeverTried(w) /\ ~Findable(w)
          /\ MayDefer(w)
          /\ recoverPending
          /\ Throws(w)
          /\ UNCHANGED <<task, faults>>
       \/ /\ Findable(w)
          /\ recoverPending
          /\ task' = "removed"
          /\ worker' = [worker EXCEPT ![w].pc = "settle", ![w].ref = TRUE,
                                      ![w].closed = ledger \in Closed,
                                      ![w].outcome = "cancelled"]
          /\ UNCHANGED faults
       \/ /\ Findable(w)
          /\ MayDefer(w)
          /\ recoverPending
          /\ worker' = [worker EXCEPT ![w].pc = "record", ![w].ref = TRUE,
                                      ![w].outcome = "pending"]
          /\ Fault \/ (task = "working" /\ UNCHANGED faults)
          /\ UNCHANGED task
    /\ UNCHANGED <<record, transport, tasks, hidden, receipt, told>>

-----------------------------------------------------------------------------
(* The generation ledger: settleProviderOutcome *)

\* What the task itself came to; the other outcomes are about its submission.
Results == {"completed", "failed", "cancelled"}

\* The first settlement of an attempt is taken.  A second one is taken only when
\* it is the result of what was settled as unknown: anything else meets its own
\* key with another payload, its cost event, or a job that is closed.
Settles(outcome) ==
    \/ ledger = "open"
    \/ ledger = "unknown" /\ outcome \in Results

\* Two workers that read the same open result settle the same thing; the later
\* one may be answered as a repetition.
Repeats(w) ==
    /\ worker[w].outcome \in Results
    /\ ~worker[w].closed

LedgerAfter(outcome) ==
    CASE outcome = "completed"                                    -> "completed"
      [] outcome \in {"failed", "cancelled", "rejected", "refused"} -> "failed"
      [] OTHER                                                    -> "unknown"

\* The ledger and the postings after it are transactions of their own: a failure
\* may come before or after the ledger's.
settle(w) ==
    LET outcome == worker[w].outcome IN
    /\ worker[w].pc = "settle"
    /\ \/ /\ Settles(outcome) \/ (Repeats(w) /\ ledger = LedgerAfter(outcome))
          /\ ledger' = LedgerAfter(outcome)
          /\ Go(w, IF outcome = "accepted" THEN "poll" ELSE "record")
          /\ UNCHANGED faults
       \/ /\ ~Settles(outcome)
          /\ MayDefer(w)
          /\ Throws(w)
          /\ UNCHANGED <<ledger, faults>>
       \/ /\ Settles(outcome)
          /\ Fault
          /\ MayDefer(w)
          /\ Throws(w)
          /\ ledger' \in {ledger, LedgerAfter(outcome)}
    /\ UNCHANGED <<record, transport, task, tasks, hidden, receipt, told>>

-----------------------------------------------------------------------------
(* handle: record the outcome, then defer, retry or notify *)

\* The token must be the record's, although its time may have run out.
Current(w) == record.lease = w /\ record.status \notin Terminal

\* What an outcome writes; a cancellation request outlives every open status.
StatusAfter(status, outcome) ==
    IF outcome \in Terminal THEN outcome
    ELSE IF outcome = "refused" THEN "failed"
    ELSE IF status = "cancel_requested" THEN status
    ELSE CASE outcome = "pending"  -> "running"
           [] outcome = "rejected" -> "queued"
           [] OTHER                -> "unknown"

AfterRecord(outcome) ==
    CASE outcome \in {"pending", "unknown"} -> "defer"
      [] outcome = "rejected"               -> "retry"
      [] OTHER                              -> "notify"

update(w) ==
    LET outcome == worker[w].outcome IN
    /\ worker[w].pc = "record"
    /\ \/ /\ Current(w)
          /\ record' = [record EXCEPT !.status = StatusAfter(@, outcome),
                                      !.ref = @ \/ worker[w].ref,
                                      !.lease = None, !.live = FALSE]
          /\ Go(w, AfterRecord(outcome))
       \/ /\ ~Current(w)
          /\ Go(w, "threw")
          /\ UNCHANGED record
    /\ UNCHANGED <<transport, provider, told, faults>>

\* The id of a continuation is the sequence of its envelope.
\* Mutant: the continuation keeps its predecessor's id.
SameSeq(w) == worker[w].seq
NextSeq(w) == worker[w].seq + 1

\* The continuation comes first; a repeat of its id is dropped.
enqueueContinuation(w) ==
    /\ worker[w].pc = "defer"
    /\ \/ /\ transport' = [transport EXCEPT ![NextSeq(w)].state =
                                IF @ = "none" THEN "ready" ELSE @]
          /\ Go(w, "finish")
          /\ UNCHANGED faults
       \/ /\ Fault
          /\ Go(w, "threw")
          /\ UNCHANGED transport
    /\ UNCHANGED <<record, provider, told>>

Said(outcome) == IF outcome \in {"failed", "refused"} THEN "failed" ELSE "completed"

\* Only after the workflow has been told is the transport let go.
notifyTerminal(w) ==
    /\ worker[w].pc = "notify"
    /\ \/ /\ told' = told \cup {Said(worker[w].outcome)}
          /\ Go(w, "finish")
          /\ UNCHANGED faults
       \/ /\ Fault
          /\ Go(w, "retry")
          /\ UNCHANGED told
    /\ UNCHANGED <<record, transport, provider>>

\* An exception is retried; the last one is reported whatever the record says.
threw(w) ==
    /\ worker[w].pc = "threw"
    /\ \/ /\ transport[worker[w].seq].retries < RetryLimit
          /\ UNCHANGED told
       \/ /\ transport[worker[w].seq].retries >= RetryLimit
          /\ told' = told \cup {"failed"}
    /\ Go(w, "retry")
    /\ UNCHANGED <<record, transport, provider, faults>>

failTransport(w) ==
    /\ worker[w].pc = "retry"
    /\ FailTransport(worker[w].seq)
    /\ worker' = [worker EXCEPT ![w] = Idle]
    /\ UNCHANGED <<record, provider, told, faults>>

finishTransport(w) ==
    /\ worker[w].pc = "finish"
    /\ FinishTransport(worker[w].seq,
                       IF worker[w].outcome \in {"failed", "refused"} THEN "dead"
                       ELSE "done")
    /\ worker' = [worker EXCEPT ![w] = Idle]
    /\ UNCHANGED <<record, provider, told, faults>>

-----------------------------------------------------------------------------
(* The rest of the world *)

requestCancel ==
    /\ Cancels
    /\ record.status \notin Terminal \cup {"cancel_requested"}
    /\ record' = [record EXCEPT !.status = "cancel_requested"]
    /\ UNCHANGED <<transport, worker, provider, told, faults>>

taskEnds ==
    /\ task = "working"
    /\ task' \in {"done", "failed"}
    /\ UNCHANGED <<record, transport, worker, tasks, hidden, receipt, ledger, told, faults>>

crash(w) ==
    /\ worker[w].pc # "idle"
    /\ Fault
    /\ worker' = [worker EXCEPT ![w] = Idle]
    /\ UNCHANGED <<record, transport, provider, told>>

\* Is the worker that took the lease still at it?
Working(w) ==
    worker[w].pc \in {"execute", "submit", "receipt", "reconcile", "poll", "cancel",
                      "settle", "record"}

leaseExpires ==
    /\ Leased
    /\ record' = [record EXCEPT !.live = FALSE]
    /\ \/ Fault
       \/ ~Working(record.lease) /\ UNCHANGED faults
    /\ UNCHANGED <<transport, worker, provider, told>>

-----------------------------------------------------------------------------

Handle(w) ==
    \/ reserve(w) \/ checkpointAttempt(w) \/ submitAccepted(w) \/ submitRejected(w)
    \/ putReceipt(w) \/ recover(w) \/ poll(w) \/ cancelTask(w) \/ settle(w) \/ update(w)
    \/ enqueueContinuation(w) \/ notifyTerminal(w) \/ threw(w)
    \/ failTransport(w) \/ finishTransport(w)

Next ==
    \/ \E w \in Workers :
          \/ \E n \in Seqs : fetch(w, n)
          \/ Handle(w)
          \/ submitLost(w)
          \/ crash(w)
    \/ \E n \in Seqs : transportExpires(n)
    \/ requestCancel
    \/ taskEnds
    \/ leaseExpires

Spec == Init /\ [][Next]_vars

\* pg-boss polls, workers run on unless they crash, clocks advance and the
\* provider finishes what it took.
Fairness ==
    /\ \A w \in Workers : WF_vars(Handle(w))
    /\ \A n \in Seqs : WF_vars(\E w \in Workers : fetch(w, n))
    /\ \A n \in Seqs : WF_vars(transportExpires(n) /\ UNCHANGED faults)
    /\ WF_vars(leaseExpires /\ UNCHANGED faults)
    /\ WF_vars(taskEnds)

FairSpec == Spec /\ Fairness

-----------------------------------------------------------------------------
(* Properties *)

\* However often the job is delivered, retried, recovered or cancelled, the
\* provider takes at most one task that is not hidden behind an error answer:
\* execute submits only from 'queued', where nothing but a rejection leads back.
OneTask == tasks <= 1 + hidden

\* A job reported as cancelled follows no task that goes on and costs money.
CancelledIsQuiet == record.status = "cancelled" => task # "working"

\* A job is completed only by the result of a task that finished, a job that
\* knows its task fails only when that task works no longer, and the ledger has
\* charged what is reported as completed and refunded what is not.
ResultIsTrue ==
    /\ record.status = "completed" => task = "done" /\ ledger = "completed"
    /\ record.status = "failed" => ledger = "failed" /\ (record.ref => task # "working")
    /\ record.status = "cancelled" => ledger \in {"none", "failed"}

\* While the retries last an open record is always carried by a transport
\* that will be delivered: no crash between two writes loses the job.
JobIsCarried ==
    record.status \notin Terminal =>
        \E n \in Seqs : transport[n].state \in {"ready", "active"}

\* A task that the record knows is settled in the ledger, and of a terminal
\* record the workflow hears.
RecordedTaskEnds ==
    /\ record.ref ~> ledger \in Closed
    /\ record.status \in Terminal ~> told # {}

\* The specification's rule: retry by itself only when it is certain that the
\* request was not taken.
NoBlindRetry == tasks <= 1

\* A receipt that recovery has found is used: the handler goes on to poll the
\* task and does not record 'unknown'.
RecoveredIsUsed ==
    [][\A w \in Workers :
          worker[w].pc = "settle" /\ worker[w].outcome = "accepted"
             => worker'[w].pc # "record"]_vars

=============================================================================
